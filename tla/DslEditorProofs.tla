-------------------------- MODULE DslEditorProofs --------------------------
(***************************************************************************)
(* What the rows of the diff are, for all trees (NodePairs, BtDiff); that   *)
(* every text that compiles makes a tree with the forms of its expression   *)
(* at their places (BtDsl, BtNodes); and that what the editor shows and     *)
(* reports is current, for every compiler that makes trees and every check  *)
(* of capabilities.                                                         *)
(***************************************************************************)
EXTENDS EditedTree, NaturalLemmas, FiniteSetTheorems, TLAPS

-----------------------------------------------------------------------------
(* The order of places *)

Place == Seq(Nat)

\* Two places agree up to the k-th step, where the first ends or goes further left.
LeftAt(p, q, k) ==
  /\ k \in 1 .. Len(q) /\ k <= Len(p) + 1
  /\ \A i \in 1 .. k - 1 : p[i] = q[i]
  /\ k <= Len(p) => p[k] < q[k]

\* Two beginnings of the same length are equal when they agree at each place.
LEMMA SamePart ==
  ASSUME NEW p \in Place, NEW q \in Place, NEW n \in Nat, n <= Len(p), n <= Len(q)
  PROVE  SubSeq(p, 1, n) = SubSeq(q, 1, n) <=> \A i \in 1 .. n : p[i] = q[i]
<1> USE DEF Place
<1>1. SubSeq(p, 1, n) \in Seq(Nat) /\ Len(SubSeq(p, 1, n)) = n /\ \A i \in 1 .. n : SubSeq(p, 1, n)[i] = p[i]
  OBVIOUS
<1>2. SubSeq(q, 1, n) \in Seq(Nat) /\ Len(SubSeq(q, 1, n)) = n /\ \A i \in 1 .. n : SubSeq(q, 1, n)[i] = q[i]
  OBVIOUS
<1> QED
  BY <1>1, <1>2, SeqEqual

\* One path is before another exactly if it ends or is less where they first differ.
LEMMA BeforeIsLeft ==
  ASSUME NEW p \in Place, NEW q \in Place
  PROVE  comesBefore(p, q) <=> \E k \in 1 .. Len(q) : LeftAt(p, q, k)
<1>1. Len(p) \in Nat /\ Len(q) \in Nat /\ DOMAIN p = 1 .. Len(p) /\ DOMAIN q = 1 .. Len(q)
  BY DEF Place
<1>2. ASSUME comesBefore(p, q) PROVE \E k \in 1 .. Len(q) : LeftAt(p, q, k)
  <2>1. CASE IsStrictPrefix(p, q)
    <3>1. Len(p) <= Len(q) /\ p # q /\ \A i \in 1 .. Len(p) : p[i] = q[i]
      BY <1>1, <2>1, SamePart DEF IsStrictPrefix, IsPrefix
    <3>2. Len(p) # Len(q)
      BY <1>1, <3>1, SeqEqual DEF Place
    <3> PICK k : k = Len(p) + 1
      OBVIOUS
    <3>3. k \in 1 .. Len(q) /\ \A i \in 1 .. k - 1 : p[i] = q[i]
      <4>1. k - 1 = Len(p) /\ k \in 1 .. Len(q)
        <5>1. Len(p) \in Nat /\ Len(q) \in Nat
          BY <1>1
        <5>2. Len(p) <= Len(q) /\ Len(p) # Len(q)
          BY <3>1, <3>2, Zenon
        <5> QED
          BY <5>1, <5>2
      <4> QED
        BY <3>1, <4>1
    <3>4. k = Len(p) + 1 /\ ~(k <= Len(p))
      BY <1>1
    <3> QED
      BY <3>3, <3>4, <1>1 DEF LeftAt
  <2>2. ASSUME NEW k \in DOMAIN p \cap DOMAIN q,
               p[k] < q[k], SubSeq(p, 1, k - 1) = SubSeq(q, 1, k - 1)
        PROVE  LeftAt(p, q, k) /\ k \in 1 .. Len(q)
    <3>1. k - 1 \in Nat /\ k - 1 <= Len(p) /\ k - 1 <= Len(q)
      BY <1>1
    <3>2. \A i \in 1 .. k - 1 : p[i] = q[i]
      BY <2>2, <3>1, SamePart
    <3> QED
      BY <1>1, <2>2, <3>2 DEF LeftAt
  <2> QED
    BY <1>2, <2>1, <2>2 DEF comesBefore
<1>3. ASSUME NEW k \in 1 .. Len(q), LeftAt(p, q, k) PROVE comesBefore(p, q)
  <2>1. k - 1 \in Nat /\ k - 1 <= Len(p) /\ k - 1 <= Len(q)
    BY <1>1, <1>3 DEF LeftAt
  <2>2. SubSeq(p, 1, k - 1) = SubSeq(q, 1, k - 1)
    BY <1>3, <2>1, SamePart DEF LeftAt
  <2>3. CASE k <= Len(p)
    BY <1>1, <1>3, <2>2, <2>3 DEF LeftAt, comesBefore
  <2>4. CASE k = Len(p) + 1
    <3>1. Len(p) = k - 1 /\ Len(p) < Len(q)
      BY <1>1, <2>4
    <3> QED
      BY <2>2, <3>1, <1>1 DEF IsStrictPrefix, IsPrefix, comesBefore
  <2> QED
    BY <1>1, <1>3, <2>3, <2>4 DEF LeftAt
<1> QED
  BY <1>2, <1>3

\* The order of paths is transitive.
LEMMA BeforeTransitive ==
  ASSUME NEW p \in Place, NEW q \in Place, NEW r \in Place, comesBefore(p, q), comesBefore(q, r)
  PROVE  comesBefore(p, r)
<1>1. Len(p) \in Nat /\ Len(q) \in Nat /\ Len(r) \in Nat
      /\ (\A i \in 1 .. Len(p) : p[i] \in Nat) /\ (\A i \in 1 .. Len(q) : q[i] \in Nat)
      /\ (\A i \in 1 .. Len(r) : r[i] \in Nat)
  BY DEF Place
<1>2. PICK k \in 1 .. Len(q) : LeftAt(p, q, k)
  BY BeforeIsLeft
<1>3. PICK l \in 1 .. Len(r) : LeftAt(q, r, l)
  BY BeforeIsLeft
<1>4. CASE k < l
  <2>1. k \in 1 .. Len(r) /\ k <= Len(q) /\ q[k] = r[k]
    BY <1>1, <1>2, <1>3, <1>4 DEF LeftAt
  <2>2. \A i \in 1 .. k - 1 : p[i] = q[i] /\ q[i] = r[i]
    BY <1>2, <1>3, <1>4 DEF LeftAt
  <2>3. LeftAt(p, r, k)
    BY <1>2, <2>1, <2>2 DEF LeftAt
  <2> QED
    BY <2>1, <2>3, BeforeIsLeft
<1>5. CASE k = l
  <2>1. \A i \in 1 .. k - 1 : p[i] = q[i] /\ q[i] = r[i]
    BY <1>2, <1>3, <1>5 DEF LeftAt
  <2>2. k <= Len(p) => p[k] < r[k]
    BY <1>1, <1>2, <1>3, <1>5 DEF LeftAt
  <2>3. LeftAt(p, r, k)
    BY <1>2, <1>3, <1>5, <2>1, <2>2 DEF LeftAt
  <2> QED
    BY <1>3, <1>5, <2>3, BeforeIsLeft
<1>6. CASE l < k
  <2>1. l <= Len(p) /\ l <= Len(q) /\ p[l] = q[l]
    BY <1>1, <1>2, <1>3, <1>6 DEF LeftAt
  <2>2. \A i \in 1 .. l - 1 : p[i] = q[i] /\ q[i] = r[i]
    BY <1>2, <1>3, <1>6 DEF LeftAt
  <2>3. LeftAt(p, r, l)
    BY <1>1, <1>3, <2>1, <2>2 DEF LeftAt
  <2> QED
    BY <1>3, <2>3, BeforeIsLeft
<1> QED
  BY <1>4, <1>5, <1>6

\* Of two different paths, one is before the other.
LEMMA BeforeTotal ==
  ASSUME NEW p \in Place, NEW q \in Place, p # q
  PROVE  comesBefore(p, q) \/ comesBefore(q, p)
<1>1. Len(p) \in Nat /\ Len(q) \in Nat
      /\ (\A i \in 1 .. Len(p) : p[i] \in Nat) /\ (\A i \in 1 .. Len(q) : q[i] \in Nat)
  BY DEF Place
<1> DEFINE D == {k \in Nat \ {0} : k > Len(p) \/ k > Len(q) \/ p[k] # q[k]}
<1>2. Len(p) + 1 \in D
  BY <1>1
<1>3. PICK k \in D : \A l \in D : k <= l
  <2>1. D \in SUBSET Nat /\ D # {}
    BY <1>2
  <2> HIDE DEF D
  <2> QED
    BY <2>1, LeastNatural
<1>4. k \in Nat /\ k >= 1
  OBVIOUS
<1>5. \A i \in 1 .. k - 1 : i <= Len(p) /\ i <= Len(q) /\ p[i] = q[i]
  <2> SUFFICES ASSUME NEW i \in 1 .. k - 1, i \notin D PROVE i <= Len(p) /\ i <= Len(q) /\ p[i] = q[i]
    BY <1>3, <1>4
  <2> QED
    BY <1>1, <1>4
<1>6. k - 1 <= Len(p) /\ k - 1 <= Len(q)
  BY <1>1, <1>4, <1>5
<1>7. ~(k > Len(p) /\ k > Len(q))
  <2> SUFFICES ASSUME k > Len(p), k > Len(q) PROVE FALSE
    OBVIOUS
  <2>1. Len(p) = k - 1 /\ Len(q) = k - 1
    BY <1>1, <1>4, <1>6
  <2>2. p = q
    BY <1>5, <2>1, SeqEqual DEF Place
  <2> QED
    BY <2>2
<1>8. CASE k > Len(p)
  <2>1. LeftAt(p, q, k) /\ k \in 1 .. Len(q)
    BY <1>1, <1>4, <1>5, <1>6, <1>7, <1>8 DEF LeftAt
  <2> QED
    BY <2>1, BeforeIsLeft
<1>9. CASE k > Len(q)
  <2>1. LeftAt(q, p, k) /\ k \in 1 .. Len(p)
    BY <1>1, <1>4, <1>5, <1>6, <1>7, <1>9 DEF LeftAt
  <2> QED
    BY <2>1, BeforeIsLeft
<1>10. CASE k <= Len(p) /\ k <= Len(q)
  <2>1. p[k] # q[k] /\ p[k] \in Nat /\ q[k] \in Nat
    BY <1>1, <1>3, <1>4, <1>10
  <2>2. p[k] < q[k] => LeftAt(p, q, k) /\ k \in 1 .. Len(q)
    BY <1>1, <1>4, <1>5, <1>10 DEF LeftAt
  <2>3. q[k] < p[k] => LeftAt(q, p, k) /\ k \in 1 .. Len(p)
    BY <1>1, <1>4, <1>5, <1>10 DEF LeftAt
  <2> QED
    BY <2>1, <2>2, <2>3, BeforeIsLeft
<1> QED
  BY <1>1, <1>4, <1>8, <1>9, <1>10

-----------------------------------------------------------------------------
(* The order of candidate pairs *)

\* Nodes of one tree: different ones are at different places.
Nodes(S) ==
  /\ IsFiniteSet(S)
  /\ \A n \in S : n.path \in Place
  /\ \A n, m \in S : n.path = m.path => n = m

\* A score is a number.
LEMMA ScoreIsNumber == ASSUME NEW n, NEW m PROVE similarityScore(n, m) \in Nat
  BY DEF similarityScore

\* The order of pairs is transitive.
LEMMA BetterTransitive ==
  ASSUME NEW B, NEW A, Nodes(B), Nodes(A), NEW p \in B \X A, NEW q \in B \X A, NEW r \in B \X A,
         betterPair(p, q), betterPair(q, r)
  PROVE  betterPair(p, r)
<1> DEFINE s(x) == similarityScore(x[1], x[2])
           near(x, y) == \/ comesBefore(x[1].path, y[1].path)
                         \/ x[1].path = y[1].path /\ comesBefore(x[2].path, y[2].path)
<1>1. s(p) \in Nat /\ s(q) \in Nat /\ s(r) \in Nat
  BY ScoreIsNumber
<1>2. /\ p[1].path \in Place /\ q[1].path \in Place /\ r[1].path \in Place
      /\ p[2].path \in Place /\ q[2].path \in Place /\ r[2].path \in Place
  BY DEF Nodes
<1>3. near(p, q) /\ near(q, r) => near(p, r)
  BY <1>2, BeforeTransitive
<1>4. /\ s(p) > s(q) \/ (s(p) = s(q) /\ near(p, q))
      /\ s(q) > s(r) \/ (s(q) = s(r) /\ near(q, r))
  BY DEF betterPair
<1>5. betterPair(p, r) <=> s(p) > s(r) \/ (s(p) = s(r) /\ near(p, r))
  BY DEF betterPair
<1> HIDE DEF s, near
<1> QED
  BY <1>1, <1>3, <1>4, <1>5

\* Of two different pairs, one is better.
LEMMA BetterTotal ==
  ASSUME NEW B, NEW A, Nodes(B), Nodes(A), NEW p \in B \X A, NEW q \in B \X A, p # q
  PROVE  betterPair(p, q) \/ betterPair(q, p)
<1> DEFINE s(x) == similarityScore(x[1], x[2])
<1>1. s(p) \in Nat /\ s(q) \in Nat
  BY ScoreIsNumber
<1>2. /\ p[1].path \in Place /\ q[1].path \in Place
      /\ p[2].path \in Place /\ q[2].path \in Place
  BY DEF Nodes
<1>3. p[1].path # q[1].path \/ p[2].path # q[2].path
  <2> SUFFICES ASSUME p[1].path = q[1].path, p[2].path = q[2].path PROVE FALSE
    OBVIOUS
  <2>1. p[1] = q[1] /\ p[2] = q[2]
    BY DEF Nodes
  <2>2. p = <<p[1], p[2]>> /\ q = <<q[1], q[2]>>
    OBVIOUS
  <2> QED
    BY <2>1, <2>2
<1>4. CASE s(p) = s(q)
  <2>1. p[1].path # q[1].path =>
          comesBefore(p[1].path, q[1].path) \/ comesBefore(q[1].path, p[1].path)
    BY <1>2, BeforeTotal
  <2>2. p[2].path # q[2].path =>
          comesBefore(p[2].path, q[2].path) \/ comesBefore(q[2].path, p[2].path)
    BY <1>2, BeforeTotal
  <2> QED
    BY <1>3, <1>4, <2>1, <2>2 DEF betterPair
<1>5. s(p) > s(q) => betterPair(p, q)
  BY DEF betterPair
<1>6. s(q) > s(p) => betterPair(q, p)
  BY DEF betterPair
<1> HIDE DEF s
<1> QED
  BY <1>1, <1>4, <1>5, <1>6

-----------------------------------------------------------------------------
(* Induction over the subsets of a finite set *)

\* A set of subsets that holds each one whose own subsets it holds has them all.
LEMMA SubsetInduction ==
  ASSUME NEW S, IsFiniteSet(S), NEW Q,
         \A T \in SUBSET S : (\A U \in SUBSET T : U # T => U \in Q) => T \in Q
  PROVE  \A T \in SUBSET S : T \in Q
<1> DEFINE N == {n \in Nat : \A T \in SUBSET S : Cardinality(T) <= n => T \in Q}
<1>1. \A T \in SUBSET S : IsFiniteSet(T) /\ Cardinality(T) \in Nat
  BY FS_Subset, FS_CardinalityType
<1>2. \A T \in SUBSET S : \A U \in SUBSET T : U # T => Cardinality(U) < Cardinality(T)
  <2> SUFFICES ASSUME NEW T \in SUBSET S, NEW U \in SUBSET T, U # T PROVE Cardinality(U) < Cardinality(T)
    OBVIOUS
  <2>1. U \in SUBSET S
    OBVIOUS
  <2>2. Cardinality(U) <= Cardinality(T) /\ Cardinality(U) # Cardinality(T)
    BY <1>1, FS_Subset
  <2> QED
    BY <1>1, <2>1, <2>2
<1>3. 0 \in N
  <2> SUFFICES ASSUME NEW T \in SUBSET S, Cardinality(T) <= 0 PROVE T \in Q
    OBVIOUS
  <2>1. \A U \in SUBSET T : U = T
    <3> SUFFICES ASSUME NEW U \in SUBSET T, U # T PROVE FALSE
      OBVIOUS
    <3>1. Cardinality(U) < Cardinality(T) /\ U \in SUBSET S
      BY <1>2
    <3> QED
      BY <1>1, <3>1
  <2> QED
    BY <2>1
<1>4. ASSUME NEW n \in Nat, n \in N PROVE n + 1 \in N
  <2> SUFFICES ASSUME NEW T \in SUBSET S, Cardinality(T) <= n + 1 PROVE T \in Q
    OBVIOUS
  <2>1. ASSUME NEW U \in SUBSET T, U # T PROVE U \in Q
    <3>1. Cardinality(U) < Cardinality(T) /\ U \in SUBSET S
      BY <1>2, <2>1
    <3>2. Cardinality(U) <= n
      BY <1>1, <3>1
    <3> QED
      BY <1>4, <3>1, <3>2
  <2> QED
    BY <2>1
<1>5. \A n \in Nat : n \in N
  <2> HIDE DEF N
  <2> QED
    BY <1>3, <1>4, NaturalInduction
<1> QED
  BY <1>1, <1>5

-----------------------------------------------------------------------------
(* The best pair first *)

\* Of any candidates one is better than all others.
LEMMA BestPairExists ==
  ASSUME NEW B, NEW A, Nodes(B), Nodes(A)
  PROVE  \A T \in SUBSET (B \X A) : T # {} =>
           bestPair(T) \in T /\ \A q \in T \ {bestPair(T)} : betterPair(bestPair(T), q)
<1> DEFINE S == B \X A
           best(T, p) == p \in T /\ \A q \in T \ {p} : betterPair(p, q)
           Q == {T \in SUBSET S : T # {} => \E p \in T : best(T, p)}
<1>1. IsFiniteSet(S)
  BY FS_Product DEF Nodes
<1>2. ASSUME NEW T \in SUBSET S, \A U \in SUBSET T : U # T => U \in Q
      PROVE  T \in Q
  <2> SUFFICES ASSUME T # {} PROVE \E p \in T : best(T, p)
    OBVIOUS
  <2>1. PICK x \in T : TRUE
    OBVIOUS
  <2>2. CASE T = {x}
    BY <2>2
  <2>3. CASE T # {x}
    <3>1. T \ {x} \in Q /\ T \ {x} # {}
      <4>1. T \ {x} \in SUBSET T /\ T \ {x} # T /\ T \ {x} # {}
        BY <2>1, <2>3
      <4> HIDE DEF Q
      <4> QED
        BY <1>2, <4>1, Zenon
    <3>2. PICK p \in T \ {x} : best(T \ {x}, p)
      BY <3>1
    <3>3. p \in S /\ x \in S /\ p # x
      BY <2>1, <3>2
    <3>4. betterPair(p, x) \/ betterPair(x, p)
      BY <3>3, BetterTotal
    <3>5. CASE betterPair(p, x)
      BY <2>1, <3>2, <3>5
    <3>6. CASE betterPair(x, p)
      <4>1. ASSUME NEW q \in T \ {x} PROVE betterPair(x, q)
        <5>1. CASE q = p
          BY <3>6, <5>1
        <5>2. CASE q # p
          <6>1. betterPair(p, q) /\ q \in S
            BY <3>2, <4>1, <5>2
          <6> QED
            BY <3>3, <3>6, <6>1, BetterTransitive
        <5> QED
          BY <5>1, <5>2
      <4> QED
        BY <2>1, <4>1
    <3> QED
      BY <3>4, <3>5, <3>6
  <2> QED
    BY <2>2, <2>3
<1>3. \A T \in SUBSET S : T \in Q
  <2> HIDE DEF S, Q
  <2> QED
    BY <1>1, <1>2, SubsetInduction
<1>4. ASSUME NEW T \in SUBSET (B \X A), T # {}
      PROVE  bestPair(T) \in T /\ \A q \in T \ {bestPair(T)} : betterPair(bestPair(T), q)
  <2>1. \E p \in T : \A q \in T \ {p} : betterPair(p, q)
    BY <1>3, <1>4
  <2> QED
    BY <2>1 DEF bestPair
<1> QED
  BY <1>4

-----------------------------------------------------------------------------
(* What the loop of matchUnpairedNodes takes *)

\* What f has for some candidates.
Taken(f, left) ==
  IF left = {} THEN {}
  ELSE LET best == bestPair(left) IN {best} \cup f[without(left, best)]

\* The function bestPairs defines by recursion.
Takes(f, C) == f = [left \in SUBSET C |-> Taken(f, left)]

\* Taking the best pair leaves fewer candidates.
LEMMA CandidatesAreFewer ==
  ASSUME NEW B, NEW A, Nodes(B), Nodes(A), NEW T \in SUBSET (B \X A), T # {}
  PROVE  /\ bestPair(T) \in T
         /\ without(T, bestPair(T)) \in SUBSET T
         /\ without(T, bestPair(T)) # T
<1>1. bestPair(T) \in T
  BY BestPairExists
<1>2. without(T, bestPair(T)) \subseteq T /\ bestPair(T) \notin without(T, bestPair(T))
  BY DEF without
<1> QED
  BY <1>1, <1>2

\* There is a function that takes the best pairs one after the other.
LEMMA TakenExists ==
  ASSUME NEW B, NEW A, Nodes(B), Nodes(A), NEW C \in SUBSET (B \X A)
  PROVE  \E f : Takes(f, C)
<1> DEFINE Small(n) == {T \in SUBSET C : Cardinality(T) <= n}
           N == {n \in Nat : \E f : \A T \in Small(n) : f[T] = Taken(f, T)}
<1>1. IsFiniteSet(C)
  BY FS_Product, FS_Subset DEF Nodes
<1>2. \A T \in SUBSET C : IsFiniteSet(T) /\ Cardinality(T) \in Nat
  BY <1>1, FS_Subset, FS_CardinalityType
<1>3. \A T \in SUBSET C : T # {} =>
        /\ without(T, bestPair(T)) \in SUBSET C
        /\ Cardinality(without(T, bestPair(T))) < Cardinality(T)
  <2> SUFFICES ASSUME NEW T \in SUBSET C, T # {}
               PROVE  /\ without(T, bestPair(T)) \in SUBSET C
                      /\ Cardinality(without(T, bestPair(T))) < Cardinality(T)
    OBVIOUS
  <2> DEFINE U == without(T, bestPair(T))
  <2>1. U \in SUBSET T /\ U # T
    BY CandidatesAreFewer
  <2> HIDE DEF U
  <2>2. U \in SUBSET C
    BY <2>1
  <2>3. Cardinality(U) <= Cardinality(T) /\ Cardinality(U) # Cardinality(T)
    BY <1>2, <2>1, FS_Subset
  <2>4. Cardinality(U) < Cardinality(T)
    BY <1>2, <2>2, <2>3
  <2> QED
    BY <2>2, <2>4 DEF U
<1>4. 0 \in N
  <2> DEFINE f == [T \in SUBSET C |-> {}]
  <2>1. ASSUME NEW T \in Small(0) PROVE f[T] = Taken(f, T)
    <3>1. Cardinality(T) = 0 /\ T \in SUBSET C
      BY <1>2, <2>1
    <3>2. T = {}
      BY <1>2, <3>1, FS_EmptySet
    <3> QED
      BY <3>1, <3>2 DEF Taken
  <2> QED
    BY <2>1
<1>5. ASSUME NEW n \in Nat, n \in N PROVE n + 1 \in N
  <2>1. PICK f : \A T \in Small(n) : f[T] = Taken(f, T)
    BY <1>5
  <2> DEFINE g == [T \in SUBSET C |-> Taken(f, T)]
  <2>2. \A T \in Small(n) : g[T] = f[T]
    BY <2>1
  <2>3. ASSUME NEW T \in Small(n + 1) PROVE g[T] = Taken(g, T)
    <3>1. CASE T = {}
      BY <3>1 DEF Taken
    <3>2. CASE T # {}
      <4> DEFINE U == without(T, bestPair(T))
      <4>1. U \in SUBSET C /\ Cardinality(U) < Cardinality(T) /\ Cardinality(T) <= n + 1
        BY <1>3, <2>3, <3>2
      <4> HIDE DEF U
      <4>2. U \in Small(n)
        BY <1>2, <2>3, <4>1
      <4>3. g[U] = f[U]
        BY <2>2, <4>2
      <4>4. g[T] = Taken(f, T)
        BY <2>3
      <4>5. Taken(f, T) = {bestPair(T)} \cup f[U]
        BY <3>2 DEF Taken, U
      <4> HIDE DEF g
      <4>6. Taken(g, T) = {bestPair(T)} \cup g[U]
        BY <3>2 DEF Taken, U
      <4> QED
        BY <4>3, <4>4, <4>5, <4>6
    <3> QED
      BY <3>1, <3>2
  <2> HIDE DEF g
  <2> QED
    BY <2>3
<1>6. \A n \in Nat : n \in N
  <2> HIDE DEF N
  <2> QED
    BY <1>4, <1>5, NaturalInduction
<1>7. PICK f : \A T \in SUBSET C : f[T] = Taken(f, T)
  <2>1. Cardinality(C) \in Nat /\ \A T \in SUBSET C : Cardinality(T) <= Cardinality(C)
    BY <1>1, <1>2, FS_Subset
  <2> QED
    BY <1>6, <2>1
<1> DEFINE h == [T \in SUBSET C |-> f[T]]
<1>8. ASSUME NEW T \in SUBSET C PROVE f[T] = Taken(h, T)
  <2>1. CASE T = {}
    BY <1>7, <2>1 DEF Taken
  <2>2. CASE T # {}
    <3>1. h[without(T, bestPair(T))] = f[without(T, bestPair(T))]
      BY <1>3, <2>2
    <3>2. f[T] = Taken(f, T)
      BY <1>7
    <3> HIDE DEF h
    <3> QED
      BY <2>2, <3>1, <3>2 DEF Taken
  <2> QED
    BY <2>1, <2>2
<1>9. Takes(h, C)
  BY <1>8 DEF Takes
<1> QED
  BY <1>9

\* Pairs taken from candidates: no node twice, and a candidate is left only for a
\* better pair with one of its nodes.
Greedy(C, M) ==
  /\ M \subseteq C
  /\ \A p, q \in M : p # q => p[1].path # q[1].path /\ p[2].path # q[2].path
  /\ \A p \in C \ M : \E m \in M :
       betterPair(m, p) /\ (m[1].path = p[1].path \/ m[2].path = p[2].path)

\* What that function takes of any candidates is greedy.
LEMMA TakenIsGreedy ==
  ASSUME NEW B, NEW A, Nodes(B), Nodes(A), NEW C \in SUBSET (B \X A),
         NEW f, Takes(f, C)
  PROVE  \A T \in SUBSET C : Greedy(T, f[T])
<1> DEFINE Q == {T \in SUBSET C : Greedy(T, f[T])}
<1>1. IsFiniteSet(C)
  BY FS_Product, FS_Subset DEF Nodes
<1>2. \A T \in SUBSET C : f[T] = Taken(f, T)
  BY DEF Takes
<1>3. ASSUME NEW T \in SUBSET C, \A U \in SUBSET T : U # T => U \in Q
      PROVE  T \in Q
  <2> SUFFICES Greedy(T, f[T])
    OBVIOUS
  <2>1. CASE T = {}
    <3>1. f[T] = {}
      BY <1>2, <2>1 DEF Taken
    <3> QED
      BY <2>1, <3>1 DEF Greedy
  <2>2. CASE T # {}
    <3> PICK best : best = bestPair(T)
      OBVIOUS
    <3> PICK U : U = without(T, best)
      OBVIOUS
    <3>1. best \in T /\ \A q \in T \ {best} : betterPair(best, q)
      BY <2>2, BestPairExists
    <3>2. U \in SUBSET T /\ U # T
      BY <2>2, CandidatesAreFewer
    <3>3. Greedy(U, f[U])
      BY <1>3, <3>2
    <3>4. f[T] = {best} \cup f[U]
      BY <1>2, <2>2 DEF Taken
    <3>5. U = {p \in T : p[1].path # best[1].path /\ p[2].path # best[2].path}
      BY DEF without
    <3>6. f[U] \subseteq U
      BY <3>3 DEF Greedy
    <3>7. f[T] \subseteq T
      BY <3>1, <3>2, <3>4, <3>6
    <3>8. ASSUME NEW p \in f[T], NEW q \in f[T], p # q
          PROVE  p[1].path # q[1].path /\ p[2].path # q[2].path
      <4>1. CASE p \in f[U] /\ q \in f[U]
        BY <3>3, <3>8, <4>1 DEF Greedy
      <4>2. CASE p \in f[U] /\ q = best
        BY <3>5, <3>6, <4>2
      <4>3. CASE p = best /\ q \in f[U]
        BY <3>5, <3>6, <4>3
      <4> QED
        BY <3>4, <3>8, <4>1, <4>2, <4>3
    <3>9. ASSUME NEW p \in T \ f[T]
          PROVE  \E m \in f[T] : betterPair(m, p) /\ (m[1].path = p[1].path \/ m[2].path = p[2].path)
      <4>1. CASE p \in U
        <5>1. p \in U \ f[U]
          BY <3>4, <3>9, <4>1
        <5>2. PICK m \in f[U] : betterPair(m, p) /\ (m[1].path = p[1].path \/ m[2].path = p[2].path)
          BY <3>3, <5>1 DEF Greedy
        <5> QED
          BY <3>4, <5>2
      <4>2. CASE p \notin U
        <5>1. best[1].path = p[1].path \/ best[2].path = p[2].path
          BY <3>5, <4>2
        <5>2. best \in f[T] /\ p # best
          BY <3>4, <3>9
        <5>3. betterPair(best, p)
          BY <3>1, <5>2
        <5> QED
          BY <5>1, <5>2, <5>3
      <4> QED
        BY <4>1, <4>2
    <3> QED
      BY <3>7, <3>8, <3>9 DEF Greedy
  <2> QED
    BY <2>1, <2>2
<1>4. \A T \in SUBSET C : T \in Q
  <2> HIDE DEF Q
  <2> QED
    BY <1>1, <1>3, SubsetInduction
<1> QED
  BY <1>4

\* The candidates of matchUnpairedNodes.
Alike(B, A) == {p \in B \X A : similarityScore(p[1], p[2]) >= 6}

\* A candidate that is not taken shares a node with one that is.
LEMMA GreedyCovers ==
  ASSUME NEW C, NEW M, Greedy(C, M), NEW p \in C, p \notin M
  PROVE  \E m \in M : m[1].path = p[1].path \/ m[2].path = p[2].path
<1>1. \A q \in C \ M : \E m \in M : betterPair(m, q) /\ (m[1].path = q[1].path \/ m[2].path = q[2].path)
  BY Zenon DEF Greedy
<1> QED
  BY <1>1, Zenon

\* matchUnpairedNodes is greedy.
LEMMA MatchesAreGreedy ==
  ASSUME NEW B, NEW A, Nodes(B), Nodes(A)
  PROVE  Greedy(Alike(B, A), matchUnpairedNodes(B, A))
<1> DEFINE C == Alike(B, A)
           take == CHOOSE f : Takes(f, C)
<1>1. C \in SUBSET (B \X A)
  BY DEF Alike
<1>2. matchUnpairedNodes(B, A) = take[C]
  BY Zenon DEF matchUnpairedNodes, bestPairs, Alike, Takes, Taken
<1>3. Takes(take, C)
  <2> HIDE DEF C
  <2> QED
    BY <1>1, TakenExists
<1> HIDE DEF take, C
<1>4. Greedy(C, take[C])
  BY <1>1, <1>3, TakenIsGreedy
<1> QED
  BY <1>2, <1>4 DEF C

-----------------------------------------------------------------------------
(* Path maps *)

Only(map, same) == {map[p] : p \in DOMAIN map \ same}

\* The nodes at any places of a path map are such nodes.
LEMMA NodesOfMap ==
  ASSUME NEW map, IsPathMap(map), NEW D \in SUBSET DOMAIN map
  PROVE  Nodes({map[p] : p \in D})
<1> DEFINE S == {map[p] : p \in D}
           f == [p \in D |-> map[p]]
<1>1. IsFiniteSet(D)
  BY FS_Subset DEF IsPathMap
<1>2. f \in Surjection(D, S)
  BY DEF Surjection
<1>3. IsFiniteSet(S)
  <2> HIDE DEF S, f
  <2> QED
    BY <1>1, <1>2, FS_Surjection
<1>4. \A p \in D : map[p].path = p /\ p \in Place
  BY DEF IsPathMap, Place
<1> QED
  BY <1>3, <1>4 DEF Nodes

\* Only nodes at places of one tree are told as removed or added.
LEMMA MatchRows ==
  ASSUME NEW M, NEW row \in rowsOfMatches(M)
  PROVE  row.type \in {"renamed", "changed"}
BY DEF rowsOfMatches, rowOf

\* Nodes at the same place are not told as removed or added.
LEMMA PlaceRows ==
  ASSUME NEW b, NEW a, NEW row \in rowForSamePath(b, a)
  PROVE  row.type \in {"renamed", "changed", "reordered"}
BY DEF rowForSamePath, rowOf

\* No paired nodes are told as removed or added.
LEMMA PairedRows ==
  ASSUME NEW was, NEW now, NEW same, NEW parents, NEW row \in rowsOfPaired(was, now, same, parents)
  PROVE  row.type \in {"renamed", "changed", "reordered"}
<1>1. \/ \E p \in same : row \in rowForSamePath(was[p], now[p])
      \/ \E M : row \in rowsOfMatches(M)
  BY Zenon DEF rowsOfPaired
<1> QED
  BY <1>1, MatchRows, PlaceRows

\* The places told as removed and as added.
Removed(W, M) == {n \in W : \A m \in M : m[1].path # n.path}
Added(I, M) == {n \in I : \A m \in M : m[2].path # n.path}

RemovedRow(n) == [type |-> "removed", path |-> n.path, before |-> n.id, after |-> NoNode]
AddedRow(n) == [type |-> "added", path |-> n.path, before |-> NoNode, after |-> n.id]

\* The removed and added rows of a diff are those of the nodes nobody was matched to.
LEMMA RemovedAndAddedRows ==
  ASSUME NEW was, NEW now, NEW same, same = DOMAIN was \cap DOMAIN now,
         NEW W, W = Only(was, same), NEW I, I = Only(now, same),
         NEW M, M = matchUnpairedNodes(W, I)
  PROVE  /\ RowsOf(diffOfMaps(was, now), "removed") = {RemovedRow(n) : n \in Removed(W, M)}
         /\ RowsOf(diffOfMaps(was, now), "added") = {AddedRow(n) : n \in Added(I, M)}
<1> DEFINE diff == diffOfMaps(was, now)
           parents == {path \in same : hasLikelyChildReorder(was[path], now[path])}
           paired == rowsOfPaired(was, now, same, parents)
           matches == rowsOfMatches(M)
           removed == {RemovedRow(n) : n \in Removed(W, M)}
           added == {AddedRow(n) : n \in Added(I, M)}
<1>1. diff = paired \cup matches \cup removed \cup added
  BY Zenon DEF diffOfMaps, rowsBetween, rowsOfUnpaired, Only, Removed, Added, RemovedRow, AddedRow
<1>2. \A row \in paired \cup matches : row.type # "removed" /\ row.type # "added"
  BY PairedRows, MatchRows
<1>3. \A row \in removed : row.type = "removed"
  BY DEF RemovedRow
<1>4. \A row \in added : row.type = "added"
  BY DEF AddedRow
<1> HIDE DEF diff, paired, matches, removed, added
<1>5. RowsOf(diff, "removed") = removed /\ RowsOf(diff, "added") = added
  BY <1>1, <1>2, <1>3, <1>4 DEF RowsOf
<1> QED
  BY <1>5 DEF diff, removed, added

\* A place outside same is the place of one match or of one row (placeOf[m] being
\* the place a match has in this tree).
OneEach(map, same, M, placeOf, Rows) ==
  /\ \A m \in M : placeOf[m] \in DOMAIN map \ same
  /\ \A m, l \in M : placeOf[m] = placeOf[l] => m = l
  /\ \A row \in Rows : row.path \in DOMAIN map \ same /\ \A m \in M : placeOf[m] # row.path
  /\ \A row, other \in Rows : row.path = other.path => row = other
  /\ \A p \in DOMAIN map \ same : (\E m \in M : placeOf[m] = p) \/ (\E row \in Rows : row.path = p)

\* So a tree has as many places as it shares, has matched and has in rows.
LEMMA LeftOver ==
  ASSUME NEW map, IsPathMap(map), NEW same \in SUBSET DOMAIN map,
         NEW M, IsFiniteSet(M), NEW placeOf, NEW Rows, OneEach(map, same, M, placeOf, Rows)
  PROVE  /\ IsFiniteSet(Rows)
         /\ Cardinality(DOMAIN map) = Cardinality(same) + Cardinality(M) + Cardinality(Rows)
<1> USE DEF OneEach
<1> DEFINE Left == {p \in DOMAIN map \ same : \A m \in M : placeOf[m] # p}
<1> DEFINE Used == {placeOf[m] : m \in M}
           f == [m \in M |-> placeOf[m]]
           g == [row \in Rows |-> row.path]
<1>1. IsFiniteSet(DOMAIN map) /\ IsFiniteSet(same) /\ IsFiniteSet(Left) /\ IsFiniteSet(Used)
  <2>1. IsFiniteSet(DOMAIN map)
    BY DEF IsPathMap
  <2>2. Left \in SUBSET DOMAIN map /\ Used \in SUBSET DOMAIN map
    OBVIOUS
  <2> HIDE DEF Used
  <2> QED
    BY <2>1, <2>2, FS_Subset
<1>2. Cardinality(Used) = Cardinality(M)
  <2>1. f \in Bijection(M, Used)
    BY DEF Bijection, Injection, Surjection, IsInjective
  <2> HIDE DEF f, Used
  <2> QED
    BY <2>1, FS_Bijection DEF ExistsBijection
<1>3. IsFiniteSet(Rows) /\ Cardinality(Rows) = Cardinality(Left)
  <2>1. g \in Injection(Rows, Left) /\ g \in Surjection(Rows, Left)
    BY DEF Injection, Surjection, IsInjective
  <2> HIDE DEF g
  <2> QED
    BY <1>1, <2>1, FS_Injection
<1>4. DOMAIN map = (same \cup Used) \cup Left /\ same \cap Used = {} /\ (same \cup Used) \cap Left = {}
  <2>1. Used \subseteq DOMAIN map \ same
    OBVIOUS
  <2>2. \A p : p \in Left <=> p \in DOMAIN map \ same /\ p \notin Used
    OBVIOUS
  <2> HIDE DEF Used
  <2> QED
    BY <2>1, <2>2
<1> HIDE DEF Used, Left, OneEach
<1>5. Cardinality(same \cup Used) = Cardinality(same) + Cardinality(Used) /\ IsFiniteSet(same \cup Used)
  <2>1. Cardinality(same \cup Used) = Cardinality(same) + Cardinality(Used) - Cardinality({})
        /\ IsFiniteSet(same \cup Used)
    BY <1>1, <1>4, FS_Union
  <2> QED
    BY <1>1, <2>1, FS_EmptySet, FS_CardinalityType
<1>6. Cardinality((same \cup Used) \cup Left) = Cardinality(same \cup Used) + Cardinality(Left)
  <2>1. Cardinality((same \cup Used) \cup Left)
          = Cardinality(same \cup Used) + Cardinality(Left) - Cardinality({})
    BY <1>1, <1>4, <1>5, FS_Union
  <2> QED
    BY <1>1, <1>5, <2>1, FS_EmptySet, FS_CardinalityType
<1> QED
  BY <1>2, <1>3, <1>4, <1>5, <1>6

\* What the two sides of the matching leave over.
LEMMA MatchesOfMaps ==
  ASSUME NEW was, NEW now, IsPathMap(was), IsPathMap(now), NEW same, same = DOMAIN was \cap DOMAIN now
  PROVE  LET W == Only(was, same)
             I == Only(now, same)
             M == matchUnpairedNodes(W, I)
         IN  /\ Nodes(W) /\ Nodes(I) /\ IsFiniteSet(M)
             /\ M \subseteq W \X I /\ Greedy(Alike(W, I), M)
             /\ \A m \in M : m[1].path \in DOMAIN was \ same /\ m[2].path \in DOMAIN now \ same
             /\ \A n \in W : n.path \in DOMAIN was \ same /\ was[n.path] = n
             /\ \A n \in I : n.path \in DOMAIN now \ same /\ now[n.path] = n
             /\ \A p \in DOMAIN was \ same : was[p] \in W /\ was[p].path = p
             /\ \A p \in DOMAIN now \ same : now[p] \in I /\ now[p].path = p
<1> DEFINE W == Only(was, same)
           I == Only(now, same)
           M == matchUnpairedNodes(W, I)
<1>1. Nodes(W) /\ Nodes(I)
  BY NodesOfMap DEF Only
<1>2. /\ \A n \in W : n.path \in DOMAIN was \ same /\ was[n.path] = n
      /\ \A n \in I : n.path \in DOMAIN now \ same /\ now[n.path] = n
      /\ \A p \in DOMAIN was \ same : was[p] \in W /\ was[p].path = p
      /\ \A p \in DOMAIN now \ same : now[p] \in I /\ now[p].path = p
  <2>1. (\A p \in DOMAIN was : was[p].path = p) /\ (\A p \in DOMAIN now : now[p].path = p)
    BY DEF IsPathMap
  <2>2. \A n \in W : n.path \in DOMAIN was \ same /\ was[n.path] = n
    BY <2>1 DEF Only
  <2>3. \A n \in I : n.path \in DOMAIN now \ same /\ now[n.path] = n
    BY <2>1 DEF Only
  <2>4. \A p \in DOMAIN was \ same : was[p] \in W /\ was[p].path = p
    BY <2>1 DEF Only
  <2>5. \A p \in DOMAIN now \ same : now[p] \in I /\ now[p].path = p
    BY <2>1 DEF Only
  <2> QED
    BY <2>2, <2>3, <2>4, <2>5
<1> HIDE DEF W, I
<1>3. Greedy(Alike(W, I), M)
  BY <1>1, MatchesAreGreedy
<1>4. M \subseteq W \X I
  BY <1>3 DEF Greedy, Alike
<1>5. IsFiniteSet(M)
  BY <1>1, <1>4, FS_Product, FS_Subset DEF Nodes
<1>6. \A m \in M : m[1].path \in DOMAIN was \ same /\ m[2].path \in DOMAIN now \ same
  BY <1>2, <1>4
<1> QED
  BY <1>1, <1>2, <1>3, <1>4, <1>5, <1>6 DEF W, I

\* Every node is paired once, or told as removed or added: leaving out the removed
\* nodes and putting in the added ones turns the number of places of one tree into
\* that of the other (buildBtStructureDiff, matchUnpairedNodes).
THEOREM DiffsBalance ==
  ASSUME NEW was, NEW now, IsPathMap(was), IsPathMap(now)
  PROVE  Cardinality(DOMAIN was) - Cardinality(RowsOf(diffOfMaps(was, now), "removed"))
           = Cardinality(DOMAIN now) - Cardinality(RowsOf(diffOfMaps(was, now), "added"))
<1>s. PICK same : same = DOMAIN was \cap DOMAIN now
  OBVIOUS
<1>w. PICK W : W = Only(was, same)
  OBVIOUS
<1>i. PICK I : I = Only(now, same)
  OBVIOUS
<1>m. PICK M : M = matchUnpairedNodes(W, I)
  OBVIOUS
<1> DEFINE removed == RowsOf(diffOfMaps(was, now), "removed")
           added == RowsOf(diffOfMaps(was, now), "added")
<1>r. removed = {RemovedRow(n) : n \in Removed(W, M)}
  BY <1>s, <1>w, <1>i, <1>m, RemovedAndAddedRows
<1>a. added = {AddedRow(n) : n \in Added(I, M)}
  BY <1>s, <1>w, <1>i, <1>m, RemovedAndAddedRows
<1>2. IsFiniteSet(M)
  BY <1>s, <1>w, <1>i, <1>m, MatchesOfMaps
<1>f. Greedy(Alike(W, I), M)
  BY <1>s, <1>w, <1>i, <1>m, MatchesOfMaps
<1>g. \A m \in M : m[1].path \in DOMAIN was \ same
  BY <1>s, <1>w, <1>i, <1>m, MatchesOfMaps
<1>h. \A m \in M : m[2].path \in DOMAIN now \ same
  BY <1>s, <1>w, <1>i, <1>m, MatchesOfMaps
<1>3. /\ \A n \in W : n.path \in DOMAIN was \ same /\ was[n.path] = n
      /\ \A p \in DOMAIN was \ same : was[p] \in W /\ was[p].path = p
  BY <1>s, <1>w, <1>i, <1>m, MatchesOfMaps
<1>4. /\ \A n \in I : n.path \in DOMAIN now \ same /\ now[n.path] = n
      /\ \A p \in DOMAIN now \ same : now[p] \in I /\ now[p].path = p
  BY <1>s, <1>w, <1>i, <1>m, MatchesOfMaps
<1>5. \A m, l \in M : m # l => m[1].path # l[1].path /\ m[2].path # l[2].path
  BY <1>f DEF Greedy
<1>k. \A m, l \in M : m # l => m[1].path # l[1].path
  BY <1>5, Zenon
<1>l. \A m, l \in M : m # l => m[2].path # l[2].path
  BY <1>5, Zenon
<1> HIDE DEF removed, added
<1>6. /\ IsFiniteSet(removed)
      /\ Cardinality(DOMAIN was) = Cardinality(same) + Cardinality(M) + Cardinality(removed)
  <2> DEFINE left == {p \in DOMAIN was \ same : \A m \in M : m[1].path # p}
             placeOf == [m \in M |-> m[1].path]
  <2>1. /\ \A m \in M : placeOf[m] \in DOMAIN was \ same
        /\ \A m, l \in M : placeOf[m] = placeOf[l] => m = l
        /\ \A p : p \in left <=> p \in DOMAIN was \ same /\ \A m \in M : placeOf[m] # p
    BY <1>g, <1>k
  <2>2. \A row \in removed : \E n \in Removed(W, M) : row = RemovedRow(n) /\ row.path = n.path
    BY <1>r DEF RemovedRow
  <2>3. \A n \in Removed(W, M) : n.path \in left
    BY <1>3 DEF Removed
  <2>4. \A n, k \in Removed(W, M) : n.path = k.path => n = k
    BY <1>3 DEF Removed
  <2>5. \A p \in left : \E row \in removed : row.path = p
    <3> SUFFICES ASSUME NEW p \in left PROVE \E row \in removed : row.path = p
      OBVIOUS
    <3>1. was[p] \in Removed(W, M) /\ was[p].path = p
      BY <1>3 DEF Removed
    <3>2. RemovedRow(was[p]) \in removed /\ RemovedRow(was[p]).path = p
      BY <1>r, <3>1 DEF RemovedRow
    <3> QED
      BY <3>2
  <2>6. same \in SUBSET DOMAIN was
    BY <1>s
  <2> HIDE DEF left, placeOf
  <2>7. /\ \A row \in removed : row.path \in left
        /\ \A row, other \in removed : row.path = other.path => row = other
    BY <2>2, <2>3, <2>4, Zenon
  <2>8. OneEach(was, same, M, placeOf, removed)
    BY <2>1, <2>5, <2>7 DEF OneEach
  <2> QED
    BY <1>2, <2>6, <2>8, LeftOver
<1>7. /\ IsFiniteSet(added)
      /\ Cardinality(DOMAIN now) = Cardinality(same) + Cardinality(M) + Cardinality(added)
  <2> DEFINE left == {p \in DOMAIN now \ same : \A m \in M : m[2].path # p}
             placeOf == [m \in M |-> m[2].path]
  <2>1. /\ \A m \in M : placeOf[m] \in DOMAIN now \ same
        /\ \A m, l \in M : placeOf[m] = placeOf[l] => m = l
        /\ \A p : p \in left <=> p \in DOMAIN now \ same /\ \A m \in M : placeOf[m] # p
    BY <1>h, <1>l
  <2>2. \A row \in added : \E n \in Added(I, M) : row = AddedRow(n) /\ row.path = n.path
    BY <1>a DEF AddedRow
  <2>3. \A n \in Added(I, M) : n.path \in left
    BY <1>4 DEF Added
  <2>4. \A n, k \in Added(I, M) : n.path = k.path => n = k
    BY <1>4 DEF Added
  <2>5. \A p \in left : \E row \in added : row.path = p
    <3> SUFFICES ASSUME NEW p \in left PROVE \E row \in added : row.path = p
      OBVIOUS
    <3>1. now[p] \in Added(I, M) /\ now[p].path = p
      BY <1>4 DEF Added
    <3>2. AddedRow(now[p]) \in added /\ AddedRow(now[p]).path = p
      BY <1>a, <3>1 DEF AddedRow
    <3> QED
      BY <3>2
  <2>6. same \in SUBSET DOMAIN now
    BY <1>s
  <2> HIDE DEF left, placeOf
  <2>7. /\ \A row \in added : row.path \in left
        /\ \A row, other \in added : row.path = other.path => row = other
    BY <2>2, <2>3, <2>4, Zenon
  <2>8. OneEach(now, same, M, placeOf, added)
    BY <2>1, <2>5, <2>7 DEF OneEach
  <2> QED
    BY <1>2, <2>6, <2>8, LeftOver
<1>8. /\ Cardinality(same) \in Nat /\ Cardinality(M) \in Nat
      /\ Cardinality(removed) \in Nat /\ Cardinality(added) \in Nat
  <2>1. IsFiniteSet(same)
    BY <1>s, FS_Intersection DEF IsPathMap
  <2> QED
    BY <1>2, <1>6, <1>7, <2>1, FS_CardinalityType
<1>9. Cardinality(DOMAIN was) - Cardinality(removed) = Cardinality(DOMAIN now) - Cardinality(added)
  BY <1>6, <1>7, <1>8
<1> QED
  BY <1>9 DEF removed, added

\* A node is told as removed and another as added only if they are not alike
\* enough to be told as one node that changed.
THEOREM LeftoversAreUnlike ==
  ASSUME NEW was, NEW now, IsPathMap(was), IsPathMap(now),
         NEW gone \in RowsOf(diffOfMaps(was, now), "removed"),
         NEW new \in RowsOf(diffOfMaps(was, now), "added")
  PROVE  /\ gone.path \in DOMAIN was /\ new.path \in DOMAIN now
         /\ similarityScore(was[gone.path], now[new.path]) < 6
<1>s. PICK same : same = DOMAIN was \cap DOMAIN now
  OBVIOUS
<1>w. PICK W : W = Only(was, same)
  OBVIOUS
<1>i. PICK I : I = Only(now, same)
  OBVIOUS
<1>m. PICK M : M = matchUnpairedNodes(W, I)
  OBVIOUS
<1>1. PICK n \in Removed(W, M) : gone = RemovedRow(n)
  BY <1>s, <1>w, <1>i, <1>m, RemovedAndAddedRows
<1>2. PICK k \in Added(I, M) : new = AddedRow(k)
  BY <1>s, <1>w, <1>i, <1>m, RemovedAndAddedRows
<1>3. /\ M \subseteq W \X I /\ Greedy(Alike(W, I), M)
      /\ \A x \in W : x.path \in DOMAIN was \ same /\ was[x.path] = x
      /\ \A x \in I : x.path \in DOMAIN now \ same /\ now[x.path] = x
  BY <1>s, <1>w, <1>i, <1>m, MatchesOfMaps
<1>4. gone.path = n.path /\ new.path = k.path
  BY <1>1, <1>2 DEF RemovedRow, AddedRow
<1>5. /\ n \in W /\ \A m \in M : m[1].path # n.path
      /\ k \in I /\ \A m \in M : m[2].path # k.path
  BY DEF Removed, Added
<1>6. <<n, k>> \notin M
  BY <1>5, Zenon
<1>7. ~(\E m \in M : m[1].path = <<n, k>>[1].path \/ m[2].path = <<n, k>>[2].path)
  BY <1>5, Zenon
<1>8. <<n, k>> \notin Alike(W, I)
  <2>1. Greedy(Alike(W, I), M)
    BY <1>3
  <2>2. PICK p : p = <<n, k>>
    OBVIOUS
  <2>3. p \in Alike(W, I) => \E m \in M : m[1].path = p[1].path \/ m[2].path = p[2].path
    BY <1>6, <2>1, <2>2, GreedyCovers, Zenon
  <2> QED
    BY <1>7, <2>2, <2>3, Zenon
<1>9. ~(similarityScore(n, k) >= 6)
  BY <1>5, <1>8 DEF Alike
<1>10. similarityScore(n, k) \in Nat
  BY ScoreIsNumber
<1>11. was[gone.path] = n /\ now[new.path] = k /\ gone.path \in DOMAIN was /\ new.path \in DOMAIN now
  BY <1>3, <1>4, <1>5
<1> HIDE DEF IsPathMap
<1> QED
  BY <1>9, <1>10, <1>11

-----------------------------------------------------------------------------
(* A reordering of leaves is one row *)

\* Labels are equal when kinds and names are.
LEMMA LabelsTell ==
  ASSUME NEW b, NEW a
  PROVE  labelFor(b) = labelFor(a) <=> b.kind = a.kind /\ b.name = a.name
BY DEF labelFor

\* Nodes with the same children are not reordered.
LEMMA SameChildrenNoReorder ==
  ASSUME NEW b, NEW a, b.children = a.children
  PROVE  ~hasLikelyChildReorder(b, a)
BY DEF hasLikelyChildReorder, hasSameChildrenInDifferentOrder

\* A node that stayed as it was has no row.
LEMMA SameNodeNoRow ==
  ASSUME NEW b, NEW a, labelFor(b) = labelFor(a), b.children = a.children
  PROVE  rowForSamePath(b, a) = {} /\ ~hasLikelyChildReorder(b, a)
BY SameChildrenNoReorder, LabelsTell DEF rowForSamePath

\* A node whose children only changed their order has that one row.
LEMMA ReorderedNodeOneRow ==
  ASSUME NEW b, NEW a, labelFor(b) = labelFor(a), hasSameChildrenInDifferentOrder(b, a)
  PROVE  rowForSamePath(b, a) = {rowOf("reordered", b, a)} /\ hasLikelyChildReorder(b, a)
<1>1. hasLikelyChildReorder(b, a)
  BY DEF hasLikelyChildReorder
<1> QED
  BY <1>1, LabelsTell DEF rowForSamePath

\* Eleven points are all there are: kind, name, parent and labels of the children.
LEMMA ElevenIfTwins ==
  ASSUME NEW b, NEW a, labelFor(b) = labelFor(a),
         parentPathFor(b.path) = parentPathFor(a.path), sameSet(b.children, a.children)
  PROVE  similarityScore(b, a) = 11
BY LabelsTell DEF similarityScore

\* Only nodes of the same label score eleven points.
LEMMA ElevenMeansSameLabel ==
  ASSUME NEW b, NEW a, similarityScore(b, a) >= 11
  PROVE  labelFor(b) = labelFor(a)
BY LabelsTell DEF similarityScore

\* What occurs in one of two lists with the same members occurs in the other.
LEMMA OccursAsWell ==
  ASSUME NEW S, NEW s \in Seq(S), NEW t, sameSet(s, t), NEW i \in DOMAIN s
  PROVE  \E j \in DOMAIN t : t[j] = s[i]
<1> DEFINE inS == {k \in DOMAIN s : s[k] = s[i]}
           inT == {k \in DOMAIN t : t[k] = s[i]}
<1>1. Cardinality(inS) = Cardinality(inT)
  BY DEF sameSet, Occurrences
<1>2. IsFiniteSet(inS)
  <2>1. DOMAIN s = 1 .. Len(s) /\ Len(s) \in Nat
    OBVIOUS
  <2>2. IsFiniteSet(DOMAIN s)
    BY <2>1, FS_Interval
  <2>3. inS \in SUBSET DOMAIN s
    OBVIOUS
  <2> HIDE DEF inS
  <2> QED
    BY <2>2, <2>3, FS_Subset
<1>3. i \in inS
  OBVIOUS
<1> HIDE DEF inS
<1>4. Cardinality(inS) # 0
  BY <1>2, <1>3, FS_EmptySet
<1>5. inT # {}
  BY <1>1, <1>4, FS_EmptySet
<1> QED
  BY <1>5

\* If every node has a twin on the other side, and no two have the same label,
\* only nodes with the same label are matched.
LEMMA TwinsAreMatched ==
  ASSUME NEW B, NEW A, Nodes(B), Nodes(A),
         \A b \in B : \E a \in A : similarityScore(b, a) = 11,
         \A b, c \in B : labelFor(b) = labelFor(c) => b = c,
         NEW m \in matchUnpairedNodes(B, A)
  PROVE  labelFor(m[1]) = labelFor(m[2])
<1> DEFINE M == matchUnpairedNodes(B, A)
<1>1. Greedy(Alike(B, A), M)
  BY MatchesAreGreedy
<1>2. /\ M \subseteq Alike(B, A)
      /\ \A p, q \in M : p # q => p[1].path # q[1].path /\ p[2].path # q[2].path
      /\ \A p \in Alike(B, A) \ M : \E l \in M :
           betterPair(l, p) /\ (l[1].path = p[1].path \/ l[2].path = p[2].path)
  BY <1>1, Zenon DEF Greedy
<1>3. m \in M
  OBVIOUS
<1> HIDE DEF M
<1>4. \A p \in M : p[1] \in B /\ p[2] \in A
  BY <1>2 DEF Alike
<1>5. PICK a \in A : similarityScore(m[1], a) = 11
  BY <1>3, <1>4
<1>6. PICK t : t = <<m[1], a>>
  OBVIOUS
<1>7. t[1] = m[1] /\ t[2] = a /\ t \in B \X A
  BY <1>3, <1>4, <1>6
<1>8. t \in Alike(B, A)
  BY <1>5, <1>7 DEF Alike
<1>9. CASE t \in M
  <2>1. t = m
    BY <1>2, <1>3, <1>7, <1>9, Zenon
  <2> QED
    BY <1>5, <1>7, <2>1, ElevenMeansSameLabel
<1>10. CASE t \notin M
  <2>1. PICK l \in M : betterPair(l, t) /\ (l[1].path = t[1].path \/ l[2].path = t[2].path)
    BY <1>2, <1>8, <1>10, Zenon
  <2>2. similarityScore(l[1], l[2]) >= similarityScore(t[1], t[2])
    BY <2>1, ScoreIsNumber DEF betterPair
  <2>3. labelFor(l[1]) = labelFor(l[2])
    BY <1>5, <1>7, <2>2, ElevenMeansSameLabel
  <2>4. CASE l[1].path = t[1].path
    <3>1. l = m
      BY <1>2, <1>3, <1>7, <2>1, <2>4, Zenon
    <3> QED
      BY <2>3, <3>1
  <2>5. CASE l[2].path = t[2].path
    <3>1. l[2] = a
      BY <1>4, <1>7, <2>1, <2>5 DEF Nodes
    <3>2. labelFor(m[1]) = labelFor(a)
      BY <1>5, ElevenMeansSameLabel
    <3>3. l[1] = m[1]
      BY <1>3, <1>4, <2>1, <2>3, <3>1, <3>2
    <3>4. l = m
      BY <1>2, <1>3, <2>1, <3>3, Zenon
    <3> QED
      BY <2>3, <3>4
  <2> QED
    BY <2>1, <2>4, <2>5
<1> QED
  BY <1>9, <1>10

-----------------------------------------------------------------------------
(* Children and their places *)

\* A place is the place above it with one step more.
LEMMA FrontAndLast ==
  ASSUME NEW q \in Seq(Nat), q # <<>>
  PROVE  /\ Front(q) \in Seq(Nat) /\ Len(Front(q)) = Len(q) - 1
         /\ Last(q) \in Nat /\ q = Append(Front(q), Last(q))
<1>1. Len(q) \in Nat /\ Len(q) > 0 /\ Len(q) - 1 \in Nat
  OBVIOUS
<1>2. Front(q) \in Seq(Nat) /\ Len(Front(q)) = Len(q) - 1
      /\ \A i \in 1 .. Len(q) - 1 : Front(q)[i] = q[i]
  <2>1. Len(q) - 1 \in Nat /\ Len(q) - 1 <= Len(q)
    BY <1>1
  <2> PICK n : n = Len(q) - 1
    OBVIOUS
  <2>2. n \in Nat /\ n <= Len(q) /\ n = Len(q) - 1
    BY <2>1
  <2>3. SubSeq(q, 1, n) \in Seq(Nat) /\ Len(SubSeq(q, 1, n)) = n /\ \A i \in 1 .. n : SubSeq(q, 1, n)[i] = q[i]
    BY <2>2
  <2>4. Front(q) = SubSeq(q, 1, n)
    BY <2>2 DEF Front
  <2> QED
    BY <2>2, <2>3, <2>4
<1>3. Last(q) \in Nat /\ Last(q) = q[Len(q)]
  BY <1>1 DEF Last
<1>4. Len(Append(Front(q), Last(q))) = Len(q)
  BY <1>1, <1>2
<1>5. \A i \in 1 .. Len(q) : Append(Front(q), Last(q))[i] = q[i]
  BY <1>1, <1>2, <1>3
<1> QED
  BY <1>2, <1>3, <1>4, <1>5, SeqEqual

\* The parent and the number of a place right below another.
LEMMA FrontOfAppend ==
  ASSUME NEW p \in Seq(Nat), NEW k \in Nat
  PROVE  Front(Append(p, k)) = p /\ Last(Append(p, k)) = k
BY DEF Front, Last

\* A node right below a place is the child of its number.
LEMMA ChildOfPlace ==
  ASSUME NEW map, IsPathMap(map), NEW p \in DOMAIN map, NEW q \in DOMAIN map, Front(q) = p
  PROVE  /\ Last(q) \in Nat /\ Last(q) + 1 \in DOMAIN map[p].children /\ q = Append(p, Last(q))
         /\ map[p].children[Last(q) + 1] = labelFor(map[q]) /\ q \in placesUnder(map, p)
<1>1. p \in Seq(Nat) /\ p # <<>> /\ q \in Seq(Nat) /\ q # <<>>
  BY DEF IsPathMap
<1>2. Last(q) \in Nat /\ q = Append(p, Last(q)) /\ Len(p) = Len(q) - 1 /\ Len(p) > 0 /\ Len(q) > 1
  BY <1>1, FrontAndLast
<1>3. Last(q) < Len(map[p].children)
  BY <1>2 DEF IsPathMap
<1>4. DOMAIN map[p].children = 1 .. Len(map[p].children) /\ Len(map[p].children) \in Nat
  BY DEF IsPathMap
<1>5. Last(q) + 1 \in DOMAIN map[p].children
  BY <1>2, <1>3, <1>4
<1>6. map[p].children[Last(q) + 1] = labelFor(map[Append(p, (Last(q) + 1) - 1)])
  BY <1>5 DEF IsPathMap
<1>7. (Last(q) + 1) - 1 = Last(q)
  BY <1>2
<1>8. SubSeq(q, 1, Len(p)) = p
  BY <1>1, <1>2 DEF Front
<1>9. q \in placesUnder(map, p)
  BY <1>1, <1>2, <1>8 DEF placesUnder
<1> QED
  BY <1>2, <1>5, <1>6, <1>7, <1>9

\* Each child has its place.
LEMMA PlaceOfChild ==
  ASSUME NEW map, IsPathMap(map), NEW p \in DOMAIN map, NEW i \in DOMAIN map[p].children
  PROVE  \E q \in DOMAIN map : Front(q) = p /\ labelFor(map[q]) = map[p].children[i]
<1>1. DOMAIN map[p].children = 1 .. Len(map[p].children) /\ Len(map[p].children) \in Nat
  BY DEF IsPathMap
<1>2. p \in Seq(Nat)
  BY DEF IsPathMap
<1>3. i - 1 \in Nat
  BY <1>1
<1>4. Append(p, i - 1) \in DOMAIN map /\ map[p].children[i] = labelFor(map[Append(p, i - 1)])
  BY DEF IsPathMap
<1> QED
  BY <1>3, <1>4, <1>2, FrontOfAppend

\* Below a place whose children are leaves there is nothing but its children.
LEMMA OnlyChildren ==
  ASSUME NEW map, IsPathMap(map), NEW p \in DOMAIN map, NEW q \in placesUnder(map, p),
         \A r \in placesUnder(map, p) : map[r].children = <<>>
  PROVE  Front(q) = p
<1>1. /\ p \in Seq(Nat) /\ p # <<>> /\ q \in Seq(Nat) /\ q # <<>> /\ q \in DOMAIN map
      /\ Len(q) > Len(p) /\ SubSeq(q, 1, Len(p)) = p
  BY DEF IsPathMap, placesUnder
<1>2. /\ Front(q) \in Seq(Nat) /\ Len(Front(q)) = Len(q) - 1 /\ Last(q) \in Nat
      /\ Len(p) \in Nat /\ Len(p) > 0 /\ Len(q) \in Nat
  <2>1. Len(p) \in Nat /\ Len(p) > 0 /\ Len(q) \in Nat
    BY <1>1
  <2> QED
    BY <1>1, <2>1, FrontAndLast
<1>3. Front(q) \in DOMAIN map /\ Last(q) < Len(map[Front(q)].children)
  <2>1. Len(q) > 1
    BY <1>1, <1>2
  <2>2. Len(q) > 1 => Front(q) \in DOMAIN map /\ Last(q) < Len(map[Front(q)].children)
    BY <1>1, Zenon DEF IsPathMap
  <2> QED
    BY <2>1, <2>2
<1>4. map[Front(q)].children # <<>>
  BY <1>2, <1>3
<1>5. Front(q) \notin placesUnder(map, p)
  BY <1>4
<1>6. SubSeq(Front(q), 1, Len(p)) = p
  BY <1>1, <1>2 DEF Front
<1>7. ~(Len(Front(q)) > Len(p))
  BY <1>3, <1>5, <1>6 DEF placesUnder
<1>8. Len(Front(q)) = Len(p)
  BY <1>1, <1>2, <1>7
<1> QED
  BY <1>2, <1>6, <1>8

\* The children of a place of which the children were reordered are matched with
\* those of the same label.
LEMMA ReorderedChildrenMatch ==
  ASSUME NEW was, NEW now, IsPathMap(was), IsPathMap(now),
         NEW p \in DOMAIN was, LeavesReordered(was, now, p),
         NEW B, B = {was[r] : r \in {q \in DOMAIN was : parentPathFor(q) = p}},
         NEW A, A = {now[r] : r \in {q \in DOMAIN now : parentPathFor(q) = p}},
         NEW m \in matchUnpairedNodes(B, A)
  PROVE  labelFor(m[1]) = labelFor(m[2])
<1>1. DOMAIN now = DOMAIN was /\ placesUnder(now, p) = placesUnder(was, p)
  BY DEF LeavesReordered, placesUnder
<1>2. Nodes(B) /\ Nodes(A)
  BY NodesOfMap
<1>3. \A b \in B : \E q \in DOMAIN was : b = was[q] /\ b.path = q /\ Front(q) = p
  <2>1. \A q \in DOMAIN was : was[q].path = q
    BY DEF IsPathMap
  <2> QED
    BY <2>1 DEF parentPathFor
<1>4. \A b \in B : \E a \in A : similarityScore(b, a) = 11
  <2> SUFFICES ASSUME NEW b \in B PROVE \E a \in A : similarityScore(b, a) = 11
    OBVIOUS
  <2>1. PICK q \in DOMAIN was : b = was[q] /\ b.path = q /\ Front(q) = p
    BY <1>3
  <2>2. /\ Last(q) + 1 \in DOMAIN was[p].children
        /\ was[p].children[Last(q) + 1] = labelFor(was[q]) /\ q \in placesUnder(was, p)
    BY <2>1, ChildOfPlace
  <2>3. was[p].children \in Seq({labelFor(was[r]) : r \in DOMAIN was})
    BY DEF IsPathMap
  <2>4. sameSet(was[p].children, now[p].children)
    BY DEF LeavesReordered, hasSameChildrenInDifferentOrder
  <2>5. PICK j \in DOMAIN now[p].children : now[p].children[j] = was[p].children[Last(q) + 1]
    BY <2>2, <2>3, <2>4, OccursAsWell
  <2>6. PICK c \in DOMAIN now : Front(c) = p /\ labelFor(now[c]) = now[p].children[j]
    BY <1>1, PlaceOfChild
  <2>7. c \in placesUnder(was, p)
    BY <1>1, <2>6, ChildOfPlace
  <2>8. was[q].children = <<>> /\ now[c].children = <<>>
    BY <2>2, <2>7 DEF LeavesReordered
  <2>9. sameSet(<<>>, <<>>)
    BY DEF sameSet
  <2>10. now[c].path = c /\ now[c] \in A
    BY <2>6 DEF IsPathMap, parentPathFor
  <2>11. labelFor(b) = labelFor(now[c])
    BY <2>1, <2>2, <2>5, <2>6
  <2>12. parentPathFor(b.path) = parentPathFor(now[c].path)
    BY <2>1, <2>6, <2>10 DEF parentPathFor
  <2>13. sameSet(b.children, now[c].children)
    BY <2>1, <2>8, <2>9
  <2> QED
    BY <2>10, <2>11, <2>12, <2>13, ElevenIfTwins
<1>5. \A b, c \in B : labelFor(b) = labelFor(c) => b = c
  <2> SUFFICES ASSUME NEW b \in B, NEW c \in B, labelFor(b) = labelFor(c) PROVE b = c
    OBVIOUS
  <2>1. PICK q \in DOMAIN was : b = was[q] /\ Front(q) = p
    BY <1>3
  <2>2. PICK r \in DOMAIN was : c = was[r] /\ Front(r) = p
    BY <1>3
  <2>3. /\ Last(q) + 1 \in DOMAIN was[p].children /\ q = Append(p, Last(q)) /\ Last(q) \in Nat
        /\ was[p].children[Last(q) + 1] = labelFor(was[q])
    BY <2>1, ChildOfPlace
  <2>4. /\ Last(r) + 1 \in DOMAIN was[p].children /\ r = Append(p, Last(r)) /\ Last(r) \in Nat
        /\ was[p].children[Last(r) + 1] = labelFor(was[r])
    BY <2>2, ChildOfPlace
  <2>5. \A x, y \in DOMAIN was[p].children : x # y => was[p].children[x] # was[p].children[y]
    BY Zenon DEF LeavesReordered
  <2>6. Last(q) + 1 = Last(r) + 1
    BY <2>1, <2>2, <2>3, <2>4, <2>5, Zenon
  <2>7. Last(q) = Last(r)
    BY <2>3, <2>4, <2>6
  <2> QED
    BY <2>1, <2>2, <2>3, <2>4, <2>7, Zenon
<1> QED
  BY <1>2, <1>4, <1>5, TwinsAreMatched

\* What the two trees do not share is nothing, when they have the same places.
LEMMA NothingUnpaired ==
  ASSUME NEW was, NEW now, NEW same, DOMAIN was = DOMAIN now, same = DOMAIN was \cap DOMAIN now
  PROVE  diffOfMaps(was, now)
           = rowsOfPaired(was, now, same, {q \in same : hasLikelyChildReorder(was[q], now[q])})
<1>1. Only(was, same) = {} /\ Only(now, same) = {}
  BY DEF Only
<1>2. matchUnpairedNodes({}, {}) = {}
  <2>1. Nodes({})
    BY FS_EmptySet DEF Nodes
  <2>2. Greedy(Alike({}, {}), matchUnpairedNodes({}, {}))
    BY <2>1, MatchesAreGreedy
  <2> QED
    BY <2>2 DEF Greedy, Alike
<1>3. rowsOfUnpaired({}, {}, {}) = {}
  BY DEF rowsOfUnpaired, rowsOfMatches
<1>4. diffOfMaps(was, now)
        = rowsOfPaired(was, now, same, {q \in same : hasLikelyChildReorder(was[q], now[q])})
          \cup rowsOfUnpaired(Only(was, same), Only(now, same),
                              matchUnpairedNodes(Only(was, same), Only(now, same)))
  BY Zenon DEF diffOfMaps, rowsBetween, Only
<1>5. diffOfMaps(was, now)
        = rowsOfPaired(was, now, same, {q \in same : hasLikelyChildReorder(was[q], now[q])}) \cup {}
  BY <1>1, <1>2, <1>3, <1>4, Zenon
<1> QED
  BY <1>5

\* A draft with the same places, labels and children draws no row, whatever the ids
\* of its nodes are (buildBtStructureDiff).
THEOREM SameTreeNoRows ==
  ASSUME NEW was, NEW now, DOMAIN was = DOMAIN now,
         \A q \in DOMAIN was : /\ labelFor(was[q]) = labelFor(now[q])
                              /\ was[q].children = now[q].children
  PROVE  diffOfMaps(was, now) = {}
<1> DEFINE row(q) == rowForSamePath(was[q], now[q])
           shuffled(q) == hasLikelyChildReorder(was[q], now[q])
           same == DOMAIN was \cap DOMAIN now
<1>1. \A q \in same : row(q) = {} /\ ~shuffled(q)
  BY SameNodeNoRow
<1>2. {q \in same : shuffled(q)} = {}
  BY <1>1, Zenon
<1>3. diffOfMaps(was, now) = rowsOfPaired(was, now, same, {q \in same : shuffled(q)})
  BY NothingUnpaired
<1>4. rowsOfPaired(was, now, same, {}) = {}
  <2> DEFINE told == {q \in same : ~(parentPathFor(q) \in {} /\ labelFor(was[q]) # labelFor(now[q]))}
             children(map, path) == {map[r] : r \in {q \in DOMAIN map : parentPathFor(q) = path}}
             among == UNION {matchUnpairedNodes(children(was, path), children(now, path)) : path \in {}}
             unlike == {m \in among : labelFor(m[1]) # labelFor(m[2])}
  <2>1. rowsOfPaired(was, now, same, {}) = (UNION {row(q) : q \in told}) \cup rowsOfMatches(unlike)
    BY Zenon DEF rowsOfPaired
  <2>2. unlike = {}
    OBVIOUS
  <2>3. rowsOfMatches({}) = {}
    BY DEF rowsOfMatches
  <2>4. \A q \in told : row(q) = {}
    BY <1>1, Zenon
  <2> HIDE DEF told, row, unlike
  <2>5. UNION {row(q) : q \in told} = {}
    BY <2>4, Zenon
  <2> QED
    BY <2>1, <2>2, <2>3, <2>5
<1> HIDE DEF same, shuffled
<1> QED
  BY <1>2, <1>3, <1>4, Zenon

\* A change in the order of the children of one place, leaves with names of their
\* own, is told as that one row, whatever else the tree holds (rowForSamePath,
\* collectReorderedParentPaths, the matching among the children).
THEOREM ReorderIsOneRow ==
  ASSUME NEW was, NEW now, IsPathMap(was), IsPathMap(now),
         NEW p \in DOMAIN was, LeavesReordered(was, now, p)
  PROVE  diffOfMaps(was, now) = {rowOf("reordered", was[p], now[p])}
<1> DEFINE same == DOMAIN was \cap DOMAIN now
           U == placesUnder(was, p)
           row(q) == rowForSamePath(was[q], now[q])
           shuffled(q) == hasLikelyChildReorder(was[q], now[q])
           alike(q) == labelFor(was[q]) = labelFor(now[q])
           theRow == rowOf("reordered", was[p], now[p])
           children(map, path) == {map[r] : r \in {q \in DOMAIN map : parentPathFor(q) = path}}
<1>b. PICK B : B = children(was, p)
  OBVIOUS
<1>a. PICK A : A = children(now, p)
  OBVIOUS
<1>1. DOMAIN now = DOMAIN was /\ same = DOMAIN was /\ p \notin U
  <2>1. DOMAIN now = DOMAIN was
    BY DEF LeavesReordered
  <2>2. ~(Len(p) > Len(p))
    BY DEF IsPathMap
  <2> QED
    BY <2>1, <2>2 DEF placesUnder
<1>2. \A q \in same \ (U \cup {p}) : row(q) = {} /\ ~shuffled(q)
  BY SameNodeNoRow DEF LeavesReordered
<1>3. row(p) = {theRow} /\ shuffled(p) /\ alike(p)
  <2>1. alike(p)
    BY <1>1 DEF LeavesReordered
  <2>2. hasSameChildrenInDifferentOrder(was[p], now[p])
    BY DEF LeavesReordered
  <2> QED
    BY <2>1, <2>2, ReorderedNodeOneRow
<1>4. \A q \in U : Front(q) = p /\ ~shuffled(q) /\ (alike(q) => row(q) = {})
  <2> SUFFICES ASSUME NEW q \in U PROVE Front(q) = p /\ ~shuffled(q) /\ (alike(q) => row(q) = {})
    OBVIOUS
  <2>1. was[q].children = now[q].children
    BY DEF LeavesReordered
  <2>2. \A r \in placesUnder(was, p) : was[r].children = <<>>
    BY DEF LeavesReordered
  <2> QED
    BY <2>1, <2>2, OnlyChildren, SameChildrenNoReorder, SameNodeNoRow
<1>5. {q \in same : shuffled(q)} = {p}
  <2> HIDE DEF same, U, shuffled, row, alike, theRow
  <2> QED
    BY <1>1, <1>2, <1>3, <1>4, Zenon
<1>6. \A m \in matchUnpairedNodes(B, A) : labelFor(m[1]) = labelFor(m[2])
  BY <1>a, <1>b, ReorderedChildrenMatch
<1>7. rowsOfPaired(was, now, same, {p}) = {theRow}
  <2> DEFINE told == {q \in same : ~(parentPathFor(q) \in {p} /\ labelFor(was[q]) # labelFor(now[q]))}
             among == UNION {matchUnpairedNodes(children(was, path), children(now, path)) : path \in {p}}
             unlike == {m \in among : labelFor(m[1]) # labelFor(m[2])}
  <2>1. rowsOfPaired(was, now, same, {p}) = (UNION {row(q) : q \in told}) \cup rowsOfMatches(unlike)
    BY Zenon DEF rowsOfPaired
  <2>2. among = matchUnpairedNodes(B, A)
    BY <1>a, <1>b
  <2>3. unlike = {}
    <3> HIDE DEF among
    <3> QED
      BY <1>6, <2>2, Zenon
  <2>4. rowsOfMatches({}) = {}
    BY DEF rowsOfMatches
  <2>5. p \in told
    BY <1>1, <1>3
  <2>6. \A q \in told : q # p => row(q) = {}
    <3>1. \A q \in told : q \in same /\ (Front(q) = p => alike(q))
      BY Zenon DEF parentPathFor
    <3> HIDE DEF told, row, alike, U, same, shuffled
    <3> QED
      BY <1>1, <1>2, <1>4, <3>1, Zenon
  <2> HIDE DEF told, row, unlike, theRow
  <2>7. UNION {row(q) : q \in told} = {theRow}
    BY <1>3, <2>5, <2>6, Zenon
  <2> QED
    BY <2>1, <2>3, <2>4, <2>7
<1>8. diffOfMaps(was, now) = rowsOfPaired(was, now, same, {q \in same : shuffled(q)})
  BY <1>1, NothingUnpaired
<1> HIDE DEF same, shuffled, theRow
<1>9. diffOfMaps(was, now) = {theRow}
  BY <1>5, <1>7, <1>8, Zenon
<1> QED
  BY <1>9 DEF theRow

-----------------------------------------------------------------------------
(* The edges of a node in order *)

\* R orders the elements of S one by one.
Orders(R, S) ==
  /\ \A x \in S : <<x, x>> \notin R
  /\ \A x, y, z \in S : <<x, y>> \in R /\ <<y, z>> \in R => <<x, z>> \in R
  /\ \A x, y \in S : x # y => <<x, y>> \in R \/ <<y, x>> \in R

\* Counting what comes before an element numbers the elements of a finite set.
LEMMA RanksNumber ==
  ASSUME NEW S, IsFiniteSet(S), NEW R, Orders(R, S)
  PROVE  /\ \A k \in 1 .. Cardinality(S) : \E x \in S : Cardinality({y \in S : <<y, x>> \in R}) = k - 1
         /\ \A x, y \in S : Cardinality({z \in S : <<z, x>> \in R}) = Cardinality({z \in S : <<z, y>> \in R})
                              => x = y
<1> DEFINE below(x) == {y \in S : <<y, x>> \in R}
           n == Cardinality(S)
           rank == [x \in S |-> Cardinality(below(x)) + 1]
<1>1. n \in Nat
  BY FS_CardinalityType
<1>2. ASSUME NEW x \in S
      PROVE  IsFiniteSet(below(x)) /\ Cardinality(below(x)) \in Nat /\ Cardinality(below(x)) <= n - 1
  <2>1. below(x) \in SUBSET (S \ {x})
    BY DEF Orders
  <2>2. IsFiniteSet(S \ {x}) /\ Cardinality(S \ {x}) = n - 1
    BY FS_RemoveElement
  <2> HIDE DEF below
  <2> QED
    BY <2>1, <2>2, FS_Subset, FS_CardinalityType
<1>3. ASSUME NEW x \in S, NEW y \in S, <<x, y>> \in R
      PROVE  Cardinality(below(x)) < Cardinality(below(y))
  <2>1. below(x) \in SUBSET (below(y) \ {x}) /\ x \in below(y)
    BY <1>3 DEF Orders
  <2>2. IsFiniteSet(below(y) \ {x}) /\ Cardinality(below(y) \ {x}) = Cardinality(below(y)) - 1
    <3> HIDE DEF below
    <3> QED
      BY <1>2, <2>1, FS_RemoveElement
  <2> HIDE DEF below
  <2>3. Cardinality(below(x)) <= Cardinality(below(y) \ {x})
    BY <2>1, <2>2, FS_Subset
  <2> QED
    BY <1>2, <2>2, <2>3
<1>4. ASSUME NEW x \in S, NEW y \in S, Cardinality(below(x)) = Cardinality(below(y))
      PROVE  x = y
  <2>1. ~ (Cardinality(below(x)) < Cardinality(below(y))) /\ ~ (Cardinality(below(y)) < Cardinality(below(x)))
    <3> HIDE DEF below
    <3> QED
      BY <1>2, <1>4
  <2>2. <<x, y>> \notin R /\ <<y, x>> \notin R
    <3> HIDE DEF below
    <3> QED
      BY <1>3, <2>1
  <2> QED
    BY <2>2 DEF Orders
<1>5. rank \in Injection(S, 1 .. n)
  <2>1. rank \in [S -> 1 .. n]
    <3> HIDE DEF below, n
    <3> QED
      BY <1>1, <1>2
  <2>2. \A x, y \in S : rank[x] = rank[y] => x = y
    <3> SUFFICES ASSUME NEW x \in S, NEW y \in S, rank[x] = rank[y] PROVE x = y
      OBVIOUS
    <3>1. Cardinality(below(x)) = Cardinality(below(y))
      <4> HIDE DEF below
      <4> QED
        BY <1>2
    <3> QED
      BY <1>4, <3>1
  <2> HIDE DEF rank, n
  <2> QED
    BY <2>1, <2>2 DEF Injection, IsInjective
<1>6. rank \in Surjection(S, 1 .. n)
  <2>1. IsFiniteSet(1 .. n) /\ Cardinality(1 .. n) = n
    <3> HIDE DEF n
    <3> QED
      BY <1>1, FS_Interval
  <2> HIDE DEF rank
  <2> QED
    BY <1>5, <2>1, FS_Injection
<1>7. ASSUME NEW k \in 1 .. n PROVE \E x \in S : Cardinality(below(x)) = k - 1
  <2>1. PICK x \in S : rank[x] = k
    <3> HIDE DEF rank, n
    <3> QED
      BY <1>6 DEF Surjection
  <2>2. Cardinality(below(x)) + 1 = k
    BY <2>1
  <2> HIDE DEF below, n
  <2>3. Cardinality(below(x)) = k - 1
    BY <1>1, <1>2, <2>2
  <2> QED
    BY <2>3
<1> QED
  BY <1>4, <1>7

\* The edges that leave a node, in no order.
EdgesFrom(tree, id) == {e \in ToSet(tree.edges) : e.parent = id}

\* There are finitely many elements in a sequence.
LEMMA FinitelyManyElements ==
  ASSUME NEW X, NEW s \in Seq(X) PROVE IsFiniteSet(ToSet(s))
<1> DEFINE f == [i \in 1 .. Len(s) |-> s[i]]
<1>1. Len(s) \in Nat /\ DOMAIN s = 1 .. Len(s)
  OBVIOUS
<1>2. f \in Surjection(1 .. Len(s), ToSet(s))
  BY <1>1, Zenon DEF Surjection, ToSet
<1>3. IsFiniteSet(1 .. Len(s))
  BY <1>1, FS_Interval
<1> QED
  BY <1>2, <1>3, FS_Surjection, Zenon

\* childEdges lists the edges that leave a node, each once.
LEMMA ChildEdgesList ==
  ASSUME NEW tree, IsTree(tree), NEW id
  PROVE  /\ childEdges(tree, id) \in Seq(EdgesFrom(tree, id))
         /\ \A e \in EdgesFrom(tree, id) : \E i \in DOMAIN childEdges(tree, id) : childEdges(tree, id)[i] = e
         /\ \A i, k \in DOMAIN childEdges(tree, id) :
              childEdges(tree, id)[i] = childEdges(tree, id)[k] => i = k
<1> DEFINE E == EdgesFrom(tree, id)
           R == {p \in E \X E : earlier(p[1], p[2])}
           below(e) == {f \in E : <<f, e>> \in R}
           n == Cardinality(E)
           s == childEdges(tree, id)
<1>1. IsFiniteSet(E) /\ n \in Nat
  <2>1. IsFiniteSet(ToSet(tree.edges))
    BY FinitelyManyElements DEF IsTree
  <2> QED
    BY <2>1, FS_Subset, FS_CardinalityType DEF EdgesFrom
<1>2. \A e \in E : e.index \in Nat /\ e.child \in Nat
  <2>1. DOMAIN tree.nodes \subseteq Nat
    BY DEF IsTree
  <2> QED
    BY <2>1 DEF IsTree, EdgesFrom
<1>3. \A e, f \in E : e.child = f.child => e = f
  BY DEF IsTree, EdgesFrom
<1>4. Orders(R, E)
  <2> HIDE DEF E
  <2>1. \A e \in E : <<e, e>> \notin R
    BY <1>2 DEF earlier
  <2>2. \A e, f, g \in E : <<e, f>> \in R /\ <<f, g>> \in R => <<e, g>> \in R
    BY <1>2 DEF earlier
  <2>3. \A e, f \in E : e # f => <<e, f>> \in R \/ <<f, e>> \in R
    BY <1>2, <1>3 DEF earlier
  <2> QED
    BY <2>1, <2>2, <2>3 DEF Orders
<1>5. /\ \A k \in 1 .. n : \E e \in E : Cardinality(below(e)) = k - 1
      /\ \A e, f \in E : Cardinality(below(e)) = Cardinality(below(f)) => e = f
  <2> HIDE DEF E, R
  <2> QED
    BY <1>1, <1>4, RanksNumber
<1>6. \A e \in E : below(e) = {f \in E : earlier(f, e)}
  <2> HIDE DEF E
  <2> QED
    OBVIOUS
<1>7. s = [k \in 1 .. n |-> CHOOSE e \in E : Cardinality({f \in E : earlier(f, e)}) = k - 1]
  BY Zenon DEF childEdges, EdgesFrom
<1> HIDE DEF E, R, n, s
<1>8. ASSUME NEW k \in 1 .. n
      PROVE  s[k] \in E /\ Cardinality(below(s[k])) = k - 1
  <2>1. s[k] = CHOOSE e \in E : Cardinality({f \in E : earlier(f, e)}) = k - 1
    BY <1>7
  <2>2. \E e \in E : Cardinality({f \in E : earlier(f, e)}) = k - 1
    BY <1>5, <1>6
  <2>3. s[k] \in E /\ Cardinality({f \in E : earlier(f, s[k])}) = k - 1
    BY <2>1, <2>2, Zenon
  <2> QED
    BY <1>6, <2>3
<1>9. s \in Seq(E) /\ DOMAIN s = 1 .. n
  <2>1. \A k \in 1 .. n : (CHOOSE e \in E : Cardinality({f \in E : earlier(f, e)}) = k - 1) \in E
    <3>1. \A k \in 1 .. n : s[k] = CHOOSE e \in E : Cardinality({f \in E : earlier(f, e)}) = k - 1
      BY <1>7, Zenon
    <3> QED
      BY <1>8, <3>1, Zenon
  <2>2. s \in [1 .. n -> E]
    BY <1>7, <2>1, Zenon
  <2> QED
    BY <1>1, <2>2
<1>10. ASSUME NEW e \in E PROVE \E i \in 1 .. n : s[i] = e
  <2>1. Cardinality(below(e)) \in 0 .. n - 1
    <3>1. below(e) \in SUBSET (E \ {e})
      BY <1>4 DEF Orders
    <3>2. IsFiniteSet(E \ {e}) /\ Cardinality(E \ {e}) = n - 1
      BY <1>1, FS_RemoveElement DEF n
    <3> HIDE DEF below
    <3> QED
      BY <3>1, <3>2, FS_Subset, FS_CardinalityType
  <2> HIDE DEF below
  <2>2. PICK k \in 1 .. n : Cardinality(below(e)) = k - 1
    <3>1. Cardinality(below(e)) + 1 \in 1 .. n
      BY <1>1, <2>1
    <3>2. Cardinality(below(e)) = (Cardinality(below(e)) + 1) - 1
      BY <2>1
    <3> QED
      BY <3>1, <3>2
  <2>3. s[k] = e
    BY <1>5, <1>8, <2>2
  <2> QED
    BY <2>3
<1>11. ASSUME NEW i \in 1 .. n, NEW k \in 1 .. n, s[i] = s[k] PROVE i = k
  <2>1. i - 1 = k - 1
    BY <1>8, <1>11
  <2> QED
    BY <1>1, <2>1
<1> QED
  BY <1>9, <1>10, <1>11 DEF E, s

-----------------------------------------------------------------------------
(* The places that are visited *)

\* What visitedPlaces defines by recursion.
PlacesAt(tree, f, depth) ==
  IF depth = 0 THEN rootPlaces(tree) ELSE rootPlaces(tree) \cup childPlaces(tree, f[depth - 1])

Visits(f, tree) == f = [depth \in 0 .. Len(tree.nodes) |-> PlacesAt(tree, f, depth)]

\* visitedPlaces is well defined.
LEMMA VisitExists ==
  ASSUME NEW tree, Len(tree.nodes) \in Nat
  PROVE  \E f : Visits(f, tree)
<1> DEFINE N == {n \in Nat : \E f : \A d \in 0 .. n : f[d] = PlacesAt(tree, f, d)}
<1>1. 0 \in N
  <2> DEFINE f == [d \in {0} |-> rootPlaces(tree)]
  <2>1. \A d \in 0 .. 0 : d = 0
    OBVIOUS
  <2>2. \A d \in 0 .. 0 : f[d] = PlacesAt(tree, f, d)
    BY <2>1, Zenon DEF PlacesAt
  <2> QED
    BY <2>2
<1>2. ASSUME NEW n \in Nat, n \in N PROVE n + 1 \in N
  <2>1. PICK f : \A d \in 0 .. n : f[d] = PlacesAt(tree, f, d)
    BY <1>2
  <2> DEFINE g == [d \in 0 .. n + 1 |-> PlacesAt(tree, f, d)]
  <2>2. \A d \in 0 .. n : d \in 0 .. n + 1
    OBVIOUS
  <2>3. \A d \in 0 .. n : g[d] = f[d]
    BY <2>1, <2>2, Zenon
  <2>4. \A d \in 0 .. n + 1 : d # 0 => d - 1 \in 0 .. n
    OBVIOUS
  <2>5. ASSUME NEW d \in 0 .. n + 1 PROVE g[d] = PlacesAt(tree, g, d)
    <3>1. g[d] = PlacesAt(tree, f, d)
      BY Zenon
    <3>2. d # 0 => g[d - 1] = f[d - 1]
      BY <2>3, <2>4, Zenon
    <3> HIDE DEF g
    <3> QED
      BY <3>1, <3>2, Zenon DEF PlacesAt
  <2> HIDE DEF g
  <2> QED
    BY <2>5
<1>3. \A n \in Nat : n \in N
  <2> HIDE DEF N
  <2> QED
    BY <1>1, <1>2, NaturalInduction
<1>4. PICK f : \A d \in 0 .. Len(tree.nodes) : f[d] = PlacesAt(tree, f, d)
  BY <1>3
<1> DEFINE h == [d \in 0 .. Len(tree.nodes) |-> f[d]]
<1>5. ASSUME NEW d \in 0 .. Len(tree.nodes) PROVE f[d] = PlacesAt(tree, h, d)
  <2>1. d # 0 => d - 1 \in 0 .. Len(tree.nodes)
    OBVIOUS
  <2>2. d # 0 => h[d - 1] = f[d - 1]
    BY <2>1, Zenon
  <2>3. f[d] = PlacesAt(tree, f, d)
    BY <1>4
  <2> HIDE DEF h
  <2> QED
    BY <2>2, <2>3, Zenon DEF PlacesAt
<1>6. Visits(h, tree)
  BY <1>5, Zenon DEF Visits
<1> QED
  BY <1>6

\* The only root is the first node.
LEMMA RootIsFirst ==
  ASSUME NEW tree, IsTree(tree) PROVE rootPlaces(tree) = {<< <<0>>, 1 >>}
<1>1. 1 \in DOMAIN tree.nodes /\ tree.nodes[1].id = 1 /\ DOMAIN tree.nodes \subseteq Nat
  BY DEF IsTree
<1>2. \A k \in DOMAIN tree.edges : tree.edges[k] \in ToSet(tree.edges)
  BY DEF ToSet
<1>3. \A k \in DOMAIN tree.edges : tree.edges[k].child # 1
  <2> SUFFICES ASSUME NEW k \in DOMAIN tree.edges PROVE tree.edges[k].child # 1
    OBVIOUS
  <2> PICK e : e = tree.edges[k]
    OBVIOUS
  <2>1. e \in ToSet(tree.edges)
    BY <1>2
  <2>2. e.parent \in DOMAIN tree.nodes /\ e.child \in DOMAIN tree.nodes /\ e.parent < e.child
    BY <2>1 DEF IsTree
  <2>3. e.parent \in Nat /\ e.parent # 0
    BY <2>2 DEF IsTree
  <2> QED
    BY <1>1, <2>2, <2>3
<1>4. \A i \in DOMAIN tree.nodes : i # 1 => \E k \in DOMAIN tree.edges : tree.edges[k].child = tree.nodes[i].id
  <2> SUFFICES ASSUME NEW i \in DOMAIN tree.nodes, i # 1
               PROVE  \E k \in DOMAIN tree.edges : tree.edges[k].child = tree.nodes[i].id
    OBVIOUS
  <2>1. tree.nodes[i].id = i
    BY DEF IsTree
  <2>2. PICK e \in ToSet(tree.edges) : e.child = i
    BY DEF IsTree
  <2>3. PICK k \in DOMAIN tree.edges : e = tree.edges[k]
    BY DEF ToSet
  <2> QED
    BY <2>1, <2>2, <2>3
<1>5. rootPositions(tree) = {1}
  <2> DEFINE roots == {i \in DOMAIN tree.nodes : \A k \in DOMAIN tree.edges : tree.edges[k].child # tree.nodes[i].id}
  <2>1. roots = {1}
    BY <1>1, <1>3, <1>4, Zenon
  <2>2. rootPositions(tree) = IF roots = {} THEN {1} \cap DOMAIN tree.nodes ELSE roots
    BY DEF rootPositions
  <2> QED
    BY <2>1, <2>2
<1>6. Cardinality({j \in {1} : j < 1}) = 0
  <2>1. {j \in {1} : j < 1} = {}
    OBVIOUS
  <2> QED
    BY <2>1, FS_EmptySet
<1>7. rootPlaces(tree) = {<< <<Cardinality({j \in {1} : j < i})>>, tree.nodes[i].id>> : i \in {1}}
  BY <1>5, Zenon DEF rootPlaces
<1> QED
  BY <1>1, <1>6, <1>7, Zenon

\* A place of a node: the i-th step leads to a node with an id of at least i.
IsPlaceIn(tree, p) ==
  /\ p \in (Seq(Nat) \ {<<>>}) \X DOMAIN tree.nodes
  /\ Len(p[1]) <= p[2]

\* The places right below p.
PlacesBelow(tree, p) ==
  {<<Append(p[1], i - 1), childEdges(tree, p[2])[i].child>> : i \in DOMAIN childEdges(tree, p[2])}

\* What is right below a place of a tree is a place, one level down, of a later node.
LEMMA BelowIsPlace ==
  ASSUME NEW tree, IsTree(tree), NEW p, IsPlaceIn(tree, p), NEW q \in PlacesBelow(tree, p)
  PROVE  IsPlaceIn(tree, q) /\ Len(q[1]) = Len(p[1]) + 1 /\ p[2] < q[2]
<1> PICK s : s = childEdges(tree, p[2])
  OBVIOUS
<1>s. s \in Seq(EdgesFrom(tree, p[2]))
  BY ChildEdgesList
<1>1. PICK i \in DOMAIN s : q = <<Append(p[1], i - 1), s[i].child>>
  BY DEF PlacesBelow
<1> PICK e : e = s[i]
  OBVIOUS
<1>2. i \in Nat /\ i # 0 /\ e \in EdgesFrom(tree, p[2])
  BY <1>s, ElementOfSeq
<1>3. e.parent = p[2] /\ e.child \in DOMAIN tree.nodes /\ e.parent < e.child
  BY <1>2 DEF EdgesFrom, IsTree
<1>4. p[1] \in Seq(Nat) /\ p[2] \in Nat /\ Len(p[1]) <= p[2] /\ DOMAIN tree.nodes \subseteq Nat
  BY DEF IsPlaceIn, IsTree
<1> PICK w : w = p[1]
  OBVIOUS
<1> PICK j \in Nat : j = i - 1
  BY <1>2
<1>5. Append(w, j) \in Seq(Nat) /\ Append(w, j) # <<>> /\ Len(Append(w, j)) = Len(w) + 1
  BY <1>4
<1>6. q[1] = Append(w, j) /\ q[2] = e.child /\ q = <<Append(w, j), e.child>>
  BY <1>1
<1>7. e.child \in Nat /\ Len(w) \in Nat /\ Len(w) + 1 <= e.child /\ p[2] < e.child
  BY <1>3, <1>4
<1> QED
  BY <1>3, <1>5, <1>6, <1>7 DEF IsPlaceIn

\* The places of a tree: the root, and what is right below a place, as deep as
\* the tree is.
ArePlacesOf(V, tree) ==
  /\ \A p \in V : IsPlaceIn(tree, p)
  /\ << <<0>>, 1 >> \in V
  /\ \A p \in V : \A q \in PlacesBelow(tree, p) : q \in V
  /\ \A q \in V : q = << <<0>>, 1 >> \/ \E p \in V : q \in PlacesBelow(tree, p)

\* visitedPlaces visits exactly the places of a tree.
LEMMA VisitsPlaces ==
  ASSUME NEW tree, IsTree(tree) PROVE ArePlacesOf(visitedPlaces(tree), tree)
<1> DEFINE n == Len(tree.nodes)
           root == << <<0>>, 1 >>
           f == CHOOSE g : Visits(g, tree)
<1>1. n \in Nat /\ n # 0 /\ DOMAIN tree.nodes = 1 .. n
  BY DEF IsTree
<1>2. visitedPlaces(tree) = f[n]
  BY Zenon DEF visitedPlaces, Visits, PlacesAt
<1>3. Visits(f, tree)
  BY <1>1, VisitExists
<1> HIDE DEF f
<1>4. rootPlaces(tree) = {root}
  BY RootIsFirst
<1>5. f[0] = {root}
  <2>1. 0 \in 0 .. n
    BY <1>1
  <2> QED
    BY <1>3, <1>4, <2>1, Zenon DEF Visits, PlacesAt
<1>6. ASSUME NEW d \in Nat, d + 1 <= n
      PROVE  f[d + 1] = {root} \cup (UNION {PlacesBelow(tree, p) : p \in f[d]})
  <2>1. d + 1 \in 0 .. n /\ d + 1 # 0 /\ (d + 1) - 1 = d
    BY <1>1, <1>6
  <2>2. f[d + 1] = PlacesAt(tree, f, d + 1)
    BY <1>3, <2>1, Zenon DEF Visits
  <2>3. PlacesAt(tree, f, d + 1) = rootPlaces(tree) \cup childPlaces(tree, f[d])
    BY <2>1, Zenon DEF PlacesAt
  <2>4. childPlaces(tree, f[d]) = UNION {PlacesBelow(tree, p) : p \in f[d]}
    BY Zenon DEF childPlaces, PlacesBelow
  <2> QED
    BY <1>4, <2>2, <2>3, <2>4, Zenon
<1> HIDE DEF n, root
<1>7. IsPlaceIn(tree, root)
  <2>1. <<0>> \in Seq(Nat) /\ <<0>> # <<>> /\ Len(<<0>>) = 1 /\ 1 \in DOMAIN tree.nodes
    BY <1>1
  <2>2. root \in (Seq(Nat) \ {<<>>}) \X DOMAIN tree.nodes
    BY <2>1, Zenon DEF root
  <2>3. root[1] = <<0>> /\ root[2] = 1
    BY DEF root
  <2>4. Len(root[1]) <= root[2]
    BY <2>1, <2>3
  <2> QED
    BY <2>2, <2>4 DEF IsPlaceIn
<1>8. ASSUME NEW m \in Nat PROVE m <= n => \A p \in f[m] : IsPlaceIn(tree, p)
  <2> DEFINE M == {m_1 \in Nat : m_1 <= n => \A p \in f[m_1] : IsPlaceIn(tree, p)}
  <2>1. 0 \in M
    BY <1>5, <1>7
  <2>2. ASSUME NEW d \in Nat, d \in M PROVE d + 1 \in M
    <3> SUFFICES ASSUME d + 1 <= n, NEW q \in f[d + 1] PROVE IsPlaceIn(tree, q)
      OBVIOUS
    <3>1. d <= n
      BY <1>1
    <3>2. \A p \in f[d] : IsPlaceIn(tree, p)
      BY <2>2, <3>1
    <3>3. f[d + 1] = {root} \cup (UNION {PlacesBelow(tree, p) : p \in f[d]})
      BY <1>6
    <3>4. q = root \/ \E p \in f[d] : q \in PlacesBelow(tree, p)
      BY <3>3, Zenon
    <3> QED
      BY <1>7, <3>2, <3>4, BelowIsPlace, Zenon
  <2> HIDE DEF M
  <2>3. \A d \in Nat : d \in M
    BY <2>1, <2>2, NaturalInduction
  <2> QED
    BY <2>3 DEF M
<1>9. ASSUME NEW m \in Nat PROVE m + 1 <= n => f[m] \subseteq f[m + 1]
  <2> DEFINE M == {m_1 \in Nat : m_1 + 1 <= n => f[m_1] \subseteq f[m_1 + 1]}
  <2>1. 0 \in M
    <3>1. 0 + 1 <= n => root \in f[0 + 1]
      BY <1>6
    <3> QED
      BY <1>5, <3>1
  <2>2. ASSUME NEW d \in Nat, d \in M PROVE d + 1 \in M
    <3> SUFFICES ASSUME (d + 1) + 1 <= n PROVE f[d + 1] \subseteq f[(d + 1) + 1]
      OBVIOUS
    <3>1. d + 1 <= n /\ d + 1 \in Nat
      BY <1>1
    <3>2. f[d] \subseteq f[d + 1]
      BY <2>2, <3>1
    <3>3. f[d + 1] = {root} \cup (UNION {PlacesBelow(tree, p) : p \in f[d]})
      BY <1>6, <3>1
    <3>4. f[(d + 1) + 1] = {root} \cup (UNION {PlacesBelow(tree, p) : p \in f[d + 1]})
      BY <1>6, <3>1
    <3> QED
      BY <3>2, <3>3, <3>4, Zenon
  <2> HIDE DEF M
  <2>3. \A d \in Nat : d \in M
    BY <2>1, <2>2, NaturalInduction
  <2> QED
    BY <2>3 DEF M
<1>10. ASSUME NEW m \in Nat
       PROVE  m + 1 <= n => \A p \in f[m + 1] : Len(p[1]) <= m + 1 => p \in f[m]
  <2> DEFINE M == {m_1 \in Nat : m_1 + 1 <= n => \A p \in f[m_1 + 1] : Len(p[1]) <= m_1 + 1 => p \in f[m_1]}
  <2>1. 0 \in M
    <3> SUFFICES ASSUME 0 + 1 <= n, NEW q \in f[0 + 1], Len(q[1]) <= 0 + 1 PROVE q \in f[0]
      OBVIOUS
    <3>0. f[0 + 1] = {root} \cup (UNION {PlacesBelow(tree, p) : p \in f[0]})
      BY <1>6
    <3>1. q = root \/ q \in PlacesBelow(tree, root)
      BY <1>5, <3>0, Zenon
    <3>2. Len(root[1]) = 1
      BY DEF root
    <3>3. q \notin PlacesBelow(tree, root)
      BY <1>7, <3>2, BelowIsPlace
    <3> QED
      BY <1>5, <3>1, <3>3
  <2>2. ASSUME NEW d \in Nat, d \in M PROVE d + 1 \in M
    <3> SUFFICES ASSUME (d + 1) + 1 <= n, NEW q \in f[(d + 1) + 1], Len(q[1]) <= (d + 1) + 1
                 PROVE  q \in f[d + 1]
      OBVIOUS
    <3>1. d + 1 <= n /\ d + 1 \in Nat
      BY <1>1
    <3>2. \A p \in f[d + 1] : Len(p[1]) <= d + 1 => p \in f[d]
      BY <2>2, <3>1
    <3>3. f[d + 1] = {root} \cup (UNION {PlacesBelow(tree, p) : p \in f[d]})
      BY <1>6, <3>1
    <3>4. CASE q = root
      BY <3>3, <3>4
    <3>5. CASE q # root
      <4>1. PICK p \in f[d + 1] : q \in PlacesBelow(tree, p)
        BY <1>6, <3>1, <3>5
      <4>2. IsPlaceIn(tree, p)
        BY <1>8, <3>1
      <4>3. Len(q[1]) = Len(p[1]) + 1 /\ Len(p[1]) \in Nat
        <5>1. Len(q[1]) = Len(p[1]) + 1
          BY <4>1, <4>2, BelowIsPlace
        <5>2. p[1] \in Seq(Nat)
          BY <4>2 DEF IsPlaceIn
        <5> QED
          BY <5>1, <5>2
      <4>4. Len(p[1]) <= d + 1
        BY <4>3
      <4> QED
        BY <3>2, <3>3, <4>1, <4>4
    <3> QED
      BY <3>4, <3>5
  <2> HIDE DEF M
  <2>3. \A d \in Nat : d \in M
    BY <2>1, <2>2, NaturalInduction
  <2> QED
    BY <2>3 DEF M
<1> PICK d \in Nat : d + 1 = n
  <2>1. n - 1 \in Nat /\ (n - 1) + 1 = n
    BY <1>1
  <2> QED
    BY <2>1
<1>11. f[n] = {root} \cup (UNION {PlacesBelow(tree, p) : p \in f[d]})
  BY <1>6
<1>12. f[d] \subseteq f[n]
  BY <1>9
<1>13. \A p \in f[n] : IsPlaceIn(tree, p)
  BY <1>1, <1>8
<1>14. ASSUME NEW p \in f[n], NEW q \in PlacesBelow(tree, p) PROVE q \in f[n]
  <2>1. IsPlaceIn(tree, p) /\ IsPlaceIn(tree, q) /\ Len(q[1]) = Len(p[1]) + 1
    BY <1>13, BelowIsPlace
  <2>2. q[2] \in 1 .. n /\ Len(q[1]) <= q[2] /\ p[1] \in Seq(Nat)
    BY <1>1, <2>1 DEF IsPlaceIn
  <2>3. Len(p[1]) <= d + 1
    BY <2>1, <2>2
  <2>4. p \in f[d]
    BY <1>1, <1>10, <2>3
  <2> QED
    BY <1>11, <2>4
<1>15. ASSUME NEW q \in f[n], q # root PROVE \E p \in f[n] : q \in PlacesBelow(tree, p)
  <2>1. PICK p \in f[d] : q \in PlacesBelow(tree, p)
    BY <1>11, <1>15
  <2> QED
    BY <1>12, <2>1
<1>16. root \in f[n]
  BY <1>11
<1>17. ArePlacesOf(f[n], tree)
  BY <1>13, <1>14, <1>15, <1>16, Zenon DEF ArePlacesOf, root
<1> QED
  BY <1>2, <1>17

\* A place right below p is reached along one of the edges that leave its node.
LEMMA BelowByEdge ==
  ASSUME NEW tree, IsTree(tree), NEW p, IsPlaceIn(tree, p), NEW q \in PlacesBelow(tree, p)
  PROVE  \E i \in DOMAIN childEdges(tree, p[2]), e \in EdgesFrom(tree, p[2]) :
           /\ e = childEdges(tree, p[2])[i] /\ i \in Nat /\ i # 0
           /\ q[1] = Append(p[1], i - 1) /\ q[2] = e.child /\ q = <<q[1], q[2]>>
<1> PICK s : s = childEdges(tree, p[2])
  OBVIOUS
<1>1. s \in Seq(EdgesFrom(tree, p[2]))
  BY ChildEdgesList
<1>2. PICK i \in DOMAIN s : q = <<Append(p[1], i - 1), s[i].child>>
  BY DEF PlacesBelow
<1>3. s[i] \in EdgesFrom(tree, p[2]) /\ i \in Nat /\ i # 0
  BY <1>1, ElementOfSeq
<1> QED
  BY <1>2, <1>3

\* A place is that of one node.
LEMMA PlaceHasOneNode ==
  ASSUME NEW tree, IsTree(tree), NEW V, ArePlacesOf(V, tree)
  PROVE  \A p, q \in V : p[1] = q[1] => p = q
<1> DEFINE root == << <<0>>, 1 >>
           M == {m \in Nat : \A p, q \in V : Len(p[1]) <= m /\ p[1] = q[1] => p = q}
<1>1. \A p \in V : IsPlaceIn(tree, p) /\ p[1] \in Seq(Nat) /\ Len(p[1]) \in Nat /\ Len(p[1]) # 0
  BY DEF ArePlacesOf, IsPlaceIn
<1>2. \A q \in V : q # root => \E p \in V : q \in PlacesBelow(tree, p)
  BY DEF ArePlacesOf
<1>3. ASSUME NEW p \in V, NEW q \in V, p = root, p[1] = q[1] PROVE q = root
  <2> SUFFICES ASSUME q # root PROVE FALSE
    OBVIOUS
  <2>1. PICK r \in V : q \in PlacesBelow(tree, r)
    BY <1>2
  <2>2. PICK n \in Nat : n # 0 /\ Len(q[1]) = n + 1
    <3>1. Len(q[1]) = Len(r[1]) + 1 /\ Len(r[1]) \in Nat /\ Len(r[1]) # 0
      BY <1>1, <2>1, BelowIsPlace
    <3> QED
      BY <3>1
  <2>3. Len(q[1]) = 1
    <3>1. root[1] = <<0>>
      OBVIOUS
    <3>2. q[1] = <<0>>
      BY <1>3, <3>1
    <3> QED
      BY <3>2
  <2>4. n + 1 = 1
    BY <2>2, <2>3, Zenon
  <2> QED
    BY <2>2, <2>4
<1> HIDE DEF root
<1>4. 0 \in M
  BY <1>1
<1>5. ASSUME NEW m \in Nat, m \in M PROVE m + 1 \in M
  <2> SUFFICES ASSUME NEW p \in V, NEW q \in V, Len(p[1]) <= m + 1, p[1] = q[1] PROVE p = q
    OBVIOUS
  <2>1. CASE p = root \/ q = root
    BY <1>3, <2>1
  <2>2. CASE p # root /\ q # root
    <3>1. PICK a \in V : p \in PlacesBelow(tree, a)
      BY <1>2, <2>2
    <3>2. PICK b \in V : q \in PlacesBelow(tree, b)
      BY <1>2, <2>2
    <3>3. PICK i \in DOMAIN childEdges(tree, a[2]), e \in EdgesFrom(tree, a[2]) :
            /\ e = childEdges(tree, a[2])[i] /\ i \in Nat /\ i # 0
            /\ p[1] = Append(a[1], i - 1) /\ p[2] = e.child /\ p = <<p[1], p[2]>>
      BY <1>1, <3>1, BelowByEdge
    <3>4. PICK k \in DOMAIN childEdges(tree, b[2]), g \in EdgesFrom(tree, b[2]) :
            /\ g = childEdges(tree, b[2])[k] /\ k \in Nat /\ k # 0
            /\ q[1] = Append(b[1], k - 1) /\ q[2] = g.child /\ q = <<q[1], q[2]>>
      BY <1>1, <3>2, BelowByEdge
    <3>5. /\ a[1] \in Seq(Nat) /\ b[1] \in Seq(Nat) /\ i \in Nat /\ k \in Nat /\ i # 0 /\ k # 0
          /\ Append(a[1], i - 1) = Append(b[1], k - 1)
      BY <1>1, <3>3, <3>4, Zenon
    <3>6. a[1] = b[1] /\ i = k
      <4>a. PICK w : w = a[1]
        OBVIOUS
      <4>b. PICK v : v = b[1]
        OBVIOUS
      <4>i. PICK x \in Nat : x = i - 1
        BY <3>5, i - 1 \in Nat
      <4>k. PICK y \in Nat : y = k - 1
        BY <3>5, k - 1 \in Nat
      <4>1. w \in Seq(Nat) /\ v \in Seq(Nat) /\ Append(w, x) = Append(v, y)
        BY <3>5, <4>a, <4>b, <4>i, <4>k
      <4>2. w = v /\ x = y
        BY <4>1, AppendInjective
      <4>3. i = k
        BY <3>5, <4>2, <4>i, <4>k
      <4> QED
        BY <4>2, <4>3, <4>a, <4>b
    <3>8. Len(p[1]) = Len(a[1]) + 1
      BY <1>1, <3>1, BelowIsPlace
    <3>9. Len(a[1]) <= m
      BY <1>1, <3>8
    <3>10. a = b
      BY <1>5, <3>6, <3>9
    <3> QED
      BY <3>3, <3>4, <3>6, <3>10
  <2> QED
    BY <2>1, <2>2
<1>6. \A m \in Nat : m \in M
  <2> HIDE DEF M
  <2> QED
    BY <1>4, <1>5, NaturalInduction
<1> QED
  BY <1>1, <1>6

\* A node has one place only.
LEMMA NodeHasOnePlace ==
  ASSUME NEW tree, IsTree(tree), NEW V, ArePlacesOf(V, tree)
  PROVE  \A p, q \in V : p[2] = q[2] => p = q
<1> DEFINE root == << <<0>>, 1 >>
           M == {m \in Nat : \A p, q \in V : p[2] <= m /\ p[2] = q[2] => p = q}
<1>1. \A p \in V : IsPlaceIn(tree, p) /\ p[2] \in Nat /\ p[2] # 0
  BY DEF ArePlacesOf, IsPlaceIn, IsTree
<1>2. \A q \in V : q # root => \E p \in V : q \in PlacesBelow(tree, p)
  BY DEF ArePlacesOf
<1>3. ASSUME NEW p \in V, NEW q \in V, p = root, p[2] = q[2] PROVE q = root
  <2> SUFFICES ASSUME q # root PROVE FALSE
    OBVIOUS
  <2>1. PICK r \in V : q \in PlacesBelow(tree, r)
    BY <1>2
  <2>2. r[2] < q[2] /\ r[2] \in Nat /\ r[2] # 0
    BY <1>1, <2>1, BelowIsPlace
  <2>3. q[2] = 1
    BY <1>3
  <2> QED
    BY <2>2, <2>3
<1> HIDE DEF root
<1>4. 0 \in M
  BY <1>1
<1>5. ASSUME NEW m \in Nat, m \in M PROVE m + 1 \in M
  <2> SUFFICES ASSUME NEW p \in V, NEW q \in V, p[2] <= m + 1, p[2] = q[2] PROVE p = q
    OBVIOUS
  <2>1. CASE p = root \/ q = root
    BY <1>3, <2>1
  <2>2. CASE p # root /\ q # root
    <3>1. PICK a \in V : p \in PlacesBelow(tree, a)
      BY <1>2, <2>2
    <3>2. PICK b \in V : q \in PlacesBelow(tree, b)
      BY <1>2, <2>2
    <3>3. PICK i \in DOMAIN childEdges(tree, a[2]), e \in EdgesFrom(tree, a[2]) :
            /\ e = childEdges(tree, a[2])[i] /\ i \in Nat /\ i # 0
            /\ p[1] = Append(a[1], i - 1) /\ p[2] = e.child /\ p = <<p[1], p[2]>>
      BY <1>1, <3>1, BelowByEdge
    <3>4. PICK k \in DOMAIN childEdges(tree, b[2]), g \in EdgesFrom(tree, b[2]) :
            /\ g = childEdges(tree, b[2])[k] /\ k \in Nat /\ k # 0
            /\ q[1] = Append(b[1], k - 1) /\ q[2] = g.child /\ q = <<q[1], q[2]>>
      BY <1>1, <3>2, BelowByEdge
    <3>5. e = g
      BY <3>3, <3>4 DEF EdgesFrom, IsTree
    <3>6. a[2] = b[2]
      BY <3>5 DEF EdgesFrom
    <3>7. a[2] < p[2]
      BY <1>1, <3>1, BelowIsPlace
    <3>8. a[2] <= m
      BY <1>1, <3>7
    <3>9. a = b
      BY <1>5, <3>6, <3>8
    <3>10. i = k
      <4>1. childEdges(tree, a[2])[i] = childEdges(tree, a[2])[k] /\ k \in DOMAIN childEdges(tree, a[2])
        BY <3>3, <3>4, <3>5, <3>9, Zenon
      <4>2. \A x, y \in DOMAIN childEdges(tree, a[2]) :
              childEdges(tree, a[2])[x] = childEdges(tree, a[2])[y] => x = y
        BY ChildEdgesList
      <4> QED
        BY <4>1, <4>2, Zenon
    <3> QED
      BY <3>3, <3>4, <3>5, <3>9, <3>10
  <2> QED
    BY <2>1, <2>2
<1>6. \A m \in Nat : m \in M
  <2> HIDE DEF M
  <2> QED
    BY <1>4, <1>5, NaturalInduction
<1> QED
  BY <1>1, <1>6

\* Every node has a place.
LEMMA NodeHasPlace ==
  ASSUME NEW tree, IsTree(tree), NEW V, ArePlacesOf(V, tree)
  PROVE  \A id \in DOMAIN tree.nodes : \E p \in V : p[2] = id
<1> DEFINE M == {m \in Nat : \A id \in DOMAIN tree.nodes : id <= m => \E p \in V : p[2] = id}
<1>1. \A id \in DOMAIN tree.nodes : id \in Nat /\ id # 0
  BY DEF IsTree
<1>2. 0 \in M
  BY <1>1
<1>3. ASSUME NEW m \in Nat, m \in M PROVE m + 1 \in M
  <2> SUFFICES ASSUME NEW id \in DOMAIN tree.nodes, id <= m + 1 PROVE \E p \in V : p[2] = id
    OBVIOUS
  <2>1. CASE id = 1
    <3>1. << <<0>>, 1 >> \in V
      BY DEF ArePlacesOf
    <3> QED
      BY <2>1, <3>1
  <2>2. CASE id # 1
    <3>1. PICK e \in ToSet(tree.edges) : e.child = id
      BY <2>2 DEF IsTree
    <3>2. e.parent \in DOMAIN tree.nodes /\ e.parent < id
      BY <3>1 DEF IsTree
    <3>3. e.parent <= m
      BY <1>1, <3>2
    <3>4. PICK p \in V : p[2] = e.parent
      BY <1>3, <3>2, <3>3
    <3>5. e \in EdgesFrom(tree, p[2])
      BY <3>4 DEF EdgesFrom
    <3>6. PICK i \in DOMAIN childEdges(tree, p[2]) : childEdges(tree, p[2])[i] = e
      BY <3>5, ChildEdgesList
    <3>7. <<Append(p[1], i - 1), e.child>> \in PlacesBelow(tree, p)
      BY <3>6 DEF PlacesBelow
    <3>8. <<Append(p[1], i - 1), e.child>> \in V
      BY <3>7 DEF ArePlacesOf
    <3> QED
      BY <3>1, <3>8
  <2> QED
    BY <2>1, <2>2
<1>4. \A m \in Nat : m \in M
  <2> HIDE DEF M
  <2> QED
    BY <1>2, <1>3, NaturalInduction
<1> QED
  BY <1>1, <1>4

-----------------------------------------------------------------------------
(* The path map of a tree *)

\* What a path map says of a place: the node of a tree that is there.
LEMMA MapAtPlace ==
  ASSUME NEW tree, IsTree(tree), NEW p \in visitedPlaces(tree)
  PROVE  LET node == toPathMap(tree)[p[1]]
         IN  /\ p[1] \in DOMAIN toPathMap(tree)
             /\ node.id = p[2] /\ node.path = p[1] /\ labelFor(node) = labelFor(tree.nodes[p[2]])
             /\ node.children = [i \in DOMAIN childEdges(tree, p[2]) |->
                                   labelFor(tree.nodes[childEdges(tree, p[2])[i].child])]
<1>V. PICK V : V = visitedPlaces(tree)
  OBVIOUS
<1> DEFINE at(path) == nodeById(tree, (CHOOSE r \in V : r[1] = path)[2])
           labels(id) == [i \in DOMAIN childEdges(tree, id) |->
                            labelFor(nodeById(tree, childEdges(tree, id)[i].child))]
           map == toPathMap(tree)
<1>1. ArePlacesOf(V, tree) /\ p \in V
  BY <1>V, VisitsPlaces
<1>2. \A id \in DOMAIN tree.nodes : nodeById(tree, id) = tree.nodes[id] /\ tree.nodes[id].id = id
  <2>1. \A i \in DOMAIN tree.nodes : tree.nodes[i].id = i
    BY DEF IsTree
  <2> SUFFICES ASSUME NEW id \in DOMAIN tree.nodes PROVE nodeById(tree, id) = tree.nodes[id]
    BY <2>1
  <2>2. (CHOOSE i \in DOMAIN tree.nodes : tree.nodes[i].id = id) = id
    BY <2>1
  <2> QED
    BY <2>2 DEF nodeById
<1>3. map = [path \in {r[1] : r \in V} |->
               [id |-> at(path).id, path |-> path, kind |-> at(path).kind, name |-> at(path).name,
                children |-> labels(at(path).id)]]
  BY <1>V, Zenon DEF toPathMap
<1>4. p[2] \in DOMAIN tree.nodes
  BY <1>1 DEF ArePlacesOf, IsPlaceIn
<1>5. at(p[1]) = tree.nodes[p[2]]
  <2>1. \A r \in V : r[1] = p[1] => r = p
    BY <1>1, PlaceHasOneNode, Zenon
  <2>2. (CHOOSE r \in V : r[1] = p[1]) = p
    BY <1>1, <2>1
  <2> QED
    BY <1>2, <1>4, <2>2
<1>6. labels(p[2]) = [i \in DOMAIN childEdges(tree, p[2]) |->
                        labelFor(tree.nodes[childEdges(tree, p[2])[i].child])]
  <2>1. ASSUME NEW i \in DOMAIN childEdges(tree, p[2])
        PROVE  nodeById(tree, childEdges(tree, p[2])[i].child) = tree.nodes[childEdges(tree, p[2])[i].child]
    <3>1. childEdges(tree, p[2])[i] \in EdgesFrom(tree, p[2])
      BY ChildEdgesList, ElementOfSeq
    <3>2. childEdges(tree, p[2])[i].child \in DOMAIN tree.nodes
      BY <3>1 DEF EdgesFrom, IsTree
    <3> QED
      BY <1>2, <3>2
  <2> QED
    BY <2>1, Zenon
<1> HIDE DEF at, labels, map
<1>7. p[1] \in DOMAIN map
  BY <1>1, <1>3
<1>8. map[p[1]] = [id |-> at(p[1]).id, path |-> p[1], kind |-> at(p[1]).kind, name |-> at(p[1]).name,
                   children |-> labels(at(p[1]).id)]
  BY <1>1, <1>3, Zenon
<1>9. map[p[1]] = [id |-> p[2], path |-> p[1], kind |-> tree.nodes[p[2]].kind, name |-> tree.nodes[p[2]].name,
                   children |-> labels(p[2])]
  BY <1>2, <1>4, <1>5, <1>8, Zenon
<1>10. labelFor(map[p[1]]) = labelFor(tree.nodes[p[2]])
  BY <1>9 DEF labelFor
<1>11. map[p[1]].id = p[2] /\ map[p[1]].path = p[1] /\ map[p[1]].children = labels(p[2])
  BY <1>9
<1> QED
  BY <1>6, <1>7, <1>10, <1>11, Zenon DEF map

\* There are as many places as nodes.
LEMMA AsManyPlacesAsNodes ==
  ASSUME NEW tree, IsTree(tree)
  PROVE  IsFiniteSet(DOMAIN toPathMap(tree)) /\ Cardinality(DOMAIN toPathMap(tree)) = Len(tree.nodes)
<1>V. PICK V : V = visitedPlaces(tree)
  OBVIOUS
<1>n. PICK n \in Nat : n = Len(tree.nodes) /\ DOMAIN tree.nodes = 1 .. n
  BY DEF IsTree
<1>1. ArePlacesOf(V, tree)
  BY <1>V, VisitsPlaces
<1> DEFINE node == [p \in V |-> p[2]]
           path == [p \in V |-> p[1]]
<1>2. node \in Injection(V, 1 .. n)
  <2>1. \A p \in V : p[2] \in 1 .. n
    BY <1>1, <1>n DEF ArePlacesOf, IsPlaceIn
  <2>2. \A p, q \in V : node[p] = node[q] => p = q
    BY <1>1, NodeHasOnePlace
  <2> QED
    BY <2>1, <2>2 DEF Injection, IsInjective
<1>3. node \in Surjection(V, 1 .. n)
  <2>1. \A id \in 1 .. n : \E p \in V : p[2] = id
    <3>1. \A id \in DOMAIN tree.nodes : \E p \in V : p[2] = id
      BY <1>1, NodeHasPlace
    <3> QED
      BY <1>n, <3>1
  <2>2. node \in [V -> 1 .. n]
    BY <1>2 DEF Injection
  <2>3. \A id \in 1 .. n : \E p \in V : node[p] = id
    BY <2>1
  <2> HIDE DEF node
  <2> QED
    BY <2>2, <2>3 DEF Surjection
<1> HIDE DEF node
<1>4. IsFiniteSet(1 .. n) /\ Cardinality(1 .. n) = n
  BY FS_Interval
<1>5. IsFiniteSet(V) /\ Cardinality(V) = n
  BY <1>2, <1>3, <1>4, FS_Injection
<1>6. DOMAIN toPathMap(tree) = {p[1] : p \in V}
  BY <1>V, Zenon DEF toPathMap
<1>7. path \in Surjection(V, {p[1] : p \in V})
  <2>1. path \in [V -> {p[1] : p \in V}]
    OBVIOUS
  <2>2. \A x \in {p[1] : p \in V} : \E p \in V : path[p] = x
    OBVIOUS
  <2> HIDE DEF path
  <2> QED
    BY <2>1, <2>2 DEF Surjection
<1>8. path \in Injection(V, {p[1] : p \in V})
  <2>1. \A p, q \in V : path[p] = path[q] => p = q
    BY <1>1, PlaceHasOneNode
  <2>2. path \in [V -> {p[1] : p \in V}]
    OBVIOUS
  <2> HIDE DEF path
  <2> QED
    BY <2>1, <2>2 DEF Injection, IsInjective
<1> HIDE DEF path
<1>9. IsFiniteSet({p[1] : p \in V}) /\ Cardinality({p[1] : p \in V}) = Cardinality(V)
  BY <1>5, <1>7, <1>8, FS_Surjection
<1> QED
  BY <1>5, <1>6, <1>9, <1>n

\* The path map of a tree, whatever the tree, is a path map with a place for each
\* of its nodes: the children of a node are the nodes below it, in the order of
\* their edges, and every place but the root is below one (toPathMap).
THEOREM PathMapsAreMaps ==
  ASSUME NEW tree, IsTree(tree)
  PROVE  IsPathMap(toPathMap(tree)) /\ Cardinality(DOMAIN toPathMap(tree)) = Len(tree.nodes)
<1>V. PICK V : V = visitedPlaces(tree)
  OBVIOUS
<1>m. PICK map : map = toPathMap(tree)
  OBVIOUS
<1>1. ArePlacesOf(V, tree)
  BY <1>V, VisitsPlaces
<1>2. DOMAIN map = {p[1] : p \in V}
  BY <1>V, <1>m, Zenon DEF toPathMap
<1>3. \A p \in V :
        /\ p[1] \in DOMAIN map /\ map[p[1]].path = p[1]
        /\ labelFor(map[p[1]]) = labelFor(tree.nodes[p[2]])
        /\ map[p[1]].children = [i \in DOMAIN childEdges(tree, p[2]) |->
                                   labelFor(tree.nodes[childEdges(tree, p[2])[i].child])]
  BY <1>V, <1>m, MapAtPlace
<1>4. \A p \in V : IsPlaceIn(tree, p) /\ p[1] \in Seq(Nat) /\ p[1] # <<>>
  BY <1>1 DEF ArePlacesOf, IsPlaceIn
<1>5. ASSUME NEW p \in V, NEW i \in DOMAIN map[p[1]].children
      PROVE  /\ i \in Nat /\ Append(p[1], i - 1) \in DOMAIN map
             /\ map[p[1]].children[i] = labelFor(map[Append(p[1], i - 1)])
  <2>s. PICK s : s = childEdges(tree, p[2])
    OBVIOUS
  <2>1. i \in DOMAIN s /\ map[p[1]].children[i] = labelFor(tree.nodes[s[i].child])
    BY <1>3, <2>s
  <2>2. s \in Seq(EdgesFrom(tree, p[2]))
    BY <2>s, ChildEdgesList
  <2>3. i \in Nat
    BY <2>1, <2>2
  <2>q. PICK q : q = <<Append(p[1], i - 1), s[i].child>>
    OBVIOUS
  <2>4. q \in PlacesBelow(tree, p)
    BY <2>1, <2>q, <2>s DEF PlacesBelow
  <2>5. q \in V
    BY <1>1, <2>4 DEF ArePlacesOf
  <2>6. q[1] = Append(p[1], i - 1) /\ q[2] = s[i].child
    BY <2>q
  <2> QED
    BY <1>3, <2>1, <2>3, <2>5, <2>6
<1>6. ASSUME NEW p \in V PROVE map[p[1]].children \in Seq({labelFor(map[r]) : r \in DOMAIN map})
  <2>s. PICK s : s = childEdges(tree, p[2])
    OBVIOUS
  <2>c. PICK c : c = map[p[1]].children
    OBVIOUS
  <2>1. s \in Seq(EdgesFrom(tree, p[2]))
    BY <2>s, ChildEdgesList
  <2>2. c = [i \in DOMAIN s |-> labelFor(tree.nodes[s[i].child])]
    BY <1>3, <2>c, <2>s
  <2>3. DOMAIN c = 1 .. Len(s) /\ Len(s) \in Nat
    BY <2>1, <2>2
  <2>4. \A i \in DOMAIN c : c[i] \in {labelFor(map[r]) : r \in DOMAIN map}
    BY <1>5, <2>c
  <2>5. c \in [1 .. Len(s) -> {labelFor(map[r]) : r \in DOMAIN map}]
    BY <2>2, <2>3, <2>4, Zenon
  <2> QED
    BY <2>3, <2>5, <2>c
<1>7. ASSUME NEW q \in V, Len(q[1]) > 1
      PROVE  Front(q[1]) \in DOMAIN map /\ Last(q[1]) < Len(map[Front(q[1])].children)
  <2>1. q # << <<0>>, 1 >>
    <3>1. Len(<<0>>) = 1 /\ << <<0>>, 1 >>[1] = <<0>>
      OBVIOUS
    <3>2. q = << <<0>>, 1 >> => Len(q[1]) = 1
      BY <3>1, Zenon
    <3> QED
      BY <1>7, <3>2
  <2>2. PICK p \in V : q \in PlacesBelow(tree, p)
    BY <1>1, <2>1 DEF ArePlacesOf
  <2>3. PICK i \in DOMAIN childEdges(tree, p[2]), e \in EdgesFrom(tree, p[2]) :
          /\ e = childEdges(tree, p[2])[i] /\ i \in Nat /\ i # 0
          /\ q[1] = Append(p[1], i - 1) /\ q[2] = e.child /\ q = <<q[1], q[2]>>
    BY <1>4, <2>2, BelowByEdge
  <2>k. PICK k \in Nat : k = i - 1
    BY <2>3, i - 1 \in Nat
  <2>4. Front(q[1]) = p[1] /\ Last(q[1]) = k
    BY <1>4, <2>3, <2>k, FrontOfAppend
  <2>s. PICK s : s = childEdges(tree, p[2])
    OBVIOUS
  <2>c. PICK c : c = map[p[1]].children
    OBVIOUS
  <2>5. s \in Seq(EdgesFrom(tree, p[2])) /\ DOMAIN s = 1 .. Len(s) /\ Len(s) \in Nat
    BY <2>s, ChildEdgesList
  <2>6. DOMAIN c = 1 .. Len(s)
    BY <1>3, <2>5, <2>c, <2>s
  <2>7. c \in Seq({labelFor(map[r]) : r \in DOMAIN map})
    BY <1>6, <2>c
  <2>8. Len(c) = Len(s)
    BY <2>5, <2>6, <2>7
  <2>9. i <= Len(s)
    BY <2>3, <2>5, <2>s
  <2>10. k < Len(c)
    BY <2>3, <2>5, <2>8, <2>9, <2>k
  <2> QED
    BY <1>3, <2>4, <2>10, <2>c
<1>8. IsFiniteSet(DOMAIN map) /\ Cardinality(DOMAIN map) = Len(tree.nodes)
  BY <1>m, AsManyPlacesAsNodes
<1>9. ASSUME NEW path \in DOMAIN map
      PROVE  /\ path \in Seq(Nat) \ {<<>>} /\ map[path].path = path
             /\ map[path].children \in Seq({labelFor(map[r]) : r \in DOMAIN map})
             /\ \A i \in DOMAIN map[path].children :
                  Append(path, i - 1) \in DOMAIN map /\ map[path].children[i] = labelFor(map[Append(path, i - 1)])
             /\ Len(path) > 1 => Front(path) \in DOMAIN map /\ Last(path) < Len(map[Front(path)].children)
  <2>1. PICK p \in V : path = p[1]
    BY <1>2
  <2>2. path \in Seq(Nat) \ {<<>>} /\ map[path].path = path
    BY <1>3, <1>4, <2>1
  <2>3. map[path].children \in Seq({labelFor(map[r]) : r \in DOMAIN map})
    BY <1>6, <2>1
  <2>4. \A i \in DOMAIN map[path].children :
          Append(path, i - 1) \in DOMAIN map /\ map[path].children[i] = labelFor(map[Append(path, i - 1)])
    BY <1>5, <2>1
  <2>5. Len(path) > 1 => Front(path) \in DOMAIN map /\ Last(path) < Len(map[Front(path)].children)
    BY <1>7, <2>1
  <2> QED
    BY <2>2, <2>3, <2>4, <2>5
<1>10. IsPathMap(map)
  BY <1>8, <1>9, Zenon DEF IsPathMap
<1> QED
  BY <1>8, <1>10, <1>m

-----------------------------------------------------------------------------
(* What the compiler makes of an expression *)

\* Nodes and edges of a tree that is not yet complete.
GrowsTo(nodes, edges) ==
  LET ids == DOMAIN nodes
  IN  /\ nodes \in Seq(ToSet(nodes)) /\ edges \in Seq(ToSet(edges))
      /\ \A i \in ids : nodes[i].id = i
      /\ \A e \in ToSet(edges) : e \in [parent : ids, child : ids, index : Nat] /\ e.parent < e.child
      /\ \A i \in ids \ {1} : \E e \in ToSet(edges) : e.child = i
      /\ \A e, f \in ToSet(edges) : e.child = f.child => e = f

\* What appending an element adds.
LEMMA OneMoreElement ==
  ASSUME NEW s, s \in Seq(ToSet(s)), NEW x
  PROVE  /\ Append(s, x) \in Seq(ToSet(Append(s, x))) /\ ToSet(Append(s, x)) = ToSet(s) \cup {x}
         /\ DOMAIN Append(s, x) = 1 .. Len(s) + 1 /\ Append(s, x)[Len(s) + 1] = x
         /\ \A i \in 1 .. Len(s) : Append(s, x)[i] = s[i]
<1>X. PICK X : X = ToSet(s) \cup {x}
  OBVIOUS
<1>t. PICK t : t = Append(s, x)
  OBVIOUS
<1>n. PICK n \in Nat : n = Len(s) /\ DOMAIN s = 1 .. n
  OBVIOUS
<1>1. s \in Seq(X) /\ x \in X
  <2>1. \A i \in 1 .. n : s[i] \in ToSet(s)
    BY <1>n DEF ToSet
  <2>2. s \in Seq(ToSet(s) \cup {x})
    BY <1>n, <2>1
  <2> QED
    BY <1>X, <2>2
<1>2. t \in Seq(X) /\ Len(t) = n + 1 /\ t[n + 1] = x /\ \A i \in 1 .. n : t[i] = s[i]
  BY <1>1, <1>t, <1>n, AppendProperties
<1>3. DOMAIN t = 1 .. n + 1
  BY <1>2
<1>4. ToSet(t) = X
  <2>1. ToSet(t) = {t[i] : i \in 1 .. n + 1} /\ ToSet(s) = {s[i] : i \in 1 .. n}
    BY <1>3, <1>n DEF ToSet
  <2>2. ASSUME NEW y \in ToSet(t) PROVE y \in X
    <3>1. PICK i \in 1 .. n + 1 : y = t[i]
      BY <2>1
    <3> QED
      BY <1>2, <3>1, ElementOfSeq
  <2>3. ASSUME NEW y \in X PROVE y \in ToSet(t)
    <3>1. CASE y = x
      <4>1. n + 1 \in 1 .. n + 1
        OBVIOUS
      <4> QED
        BY <1>2, <2>1, <3>1, <4>1
    <3>2. CASE y # x
      <4>1. PICK i \in 1 .. n : y = s[i]
        BY <1>X, <2>1, <3>2
      <4>2. i \in 1 .. n + 1
        OBVIOUS
      <4> QED
        BY <1>2, <2>1, <4>1, <4>2
    <3> QED
      BY <3>1, <3>2
  <2> QED
    BY <2>2, <2>3
<1> QED
  BY <1>2, <1>3, <1>4, <1>X, <1>n, <1>t

\* The first node needs no edge.
LEMMA FirstNodeGrows ==
  ASSUME NEW node, node.id = 1, NEW edges, GrowsTo(<<>>, edges)
  PROVE  GrowsTo(Append(<<>>, node), edges)
<1>t. PICK t : t = Append(<<>>, node)
  OBVIOUS
<1>1. t = <<node>> /\ t \in Seq({node}) /\ DOMAIN t = {1} /\ t[1] = node
  BY <1>t
<1>2. ToSet(t) = {node}
  BY <1>1 DEF ToSet
<1>3. ToSet(edges) = {}
  BY DEF GrowsTo
<1>4. edges \in Seq(ToSet(edges))
  BY DEF GrowsTo
<1> QED
  BY <1>1, <1>2, <1>3, <1>4, <1>t DEF GrowsTo

\* Another node with an edge from one of those before.
LEMMA NextNodeGrows ==
  ASSUME NEW nodes, NEW edges, GrowsTo(nodes, edges), NEW node, node.id = Len(nodes) + 1,
         NEW edge \in [parent : DOMAIN nodes, child : {Len(nodes) + 1}, index : Nat]
  PROVE  GrowsTo(Append(nodes, node), Append(edges, edge))
<1>n. PICK n \in Nat : n = Len(nodes) /\ DOMAIN nodes = 1 .. n
  BY DEF GrowsTo
<1>t. PICK t : t = Append(nodes, node)
  OBVIOUS
<1>u. PICK u : u = Append(edges, edge)
  OBVIOUS
<1>1. /\ t \in Seq(ToSet(t)) /\ DOMAIN t = 1 .. n + 1 /\ t[n + 1] = node /\ \A i \in 1 .. n : t[i] = nodes[i]
  BY <1>n, <1>t, OneMoreElement DEF GrowsTo
<1>2. u \in Seq(ToSet(u)) /\ ToSet(u) = ToSet(edges) \cup {edge}
  BY <1>u, OneMoreElement DEF GrowsTo
<1>3. edge.parent \in 1 .. n /\ edge.child = n + 1 /\ edge.index \in Nat
      /\ edge \in [parent : 1 .. n + 1, child : 1 .. n + 1, index : Nat]
  <2>1. edge \in [parent : 1 .. n, child : {n + 1}, index : Nat]
    BY <1>n
  <2>2. 1 .. n \subseteq 1 .. n + 1 /\ {n + 1} \subseteq 1 .. n + 1
    OBVIOUS
  <2> QED
    BY <2>1, <2>2
<1>4. \A e \in ToSet(edges) : /\ e \in [parent : 1 .. n, child : 1 .. n, index : Nat]
                              /\ e.parent < e.child
  BY <1>n DEF GrowsTo
<1>5. \A i \in 1 .. n + 1 : t[i].id = i
  <2>1. \A i \in 1 .. n : nodes[i].id = i
    BY <1>n DEF GrowsTo
  <2> SUFFICES ASSUME NEW i \in 1 .. n + 1 PROVE t[i].id = i
    OBVIOUS
  <2>2. i \in 1 .. n \/ i = n + 1
    OBVIOUS
  <2> QED
    BY <1>1, <1>n, <2>1, <2>2
<1>6. ASSUME NEW e \in ToSet(u)
      PROVE  e \in [parent : 1 .. n + 1, child : 1 .. n + 1, index : Nat] /\ e.parent < e.child
  <2>1. CASE e \in ToSet(edges)
    <3>1. 1 .. n \subseteq 1 .. n + 1
      OBVIOUS
    <3> QED
      BY <1>4, <2>1, <3>1
  <2>2. CASE e = edge
    <3>1. edge.parent < edge.child
      BY <1>3
    <3> QED
      BY <1>3, <2>2, <3>1
  <2> QED
    BY <1>2, <2>1, <2>2
<1>7. ASSUME NEW i \in (1 .. n + 1) \ {1} PROVE \E e \in ToSet(u) : e.child = i
  <2>1. i \in 1 .. n \/ i = n + 1
    OBVIOUS
  <2>2. \A k \in 1 .. n : k # 1 => \E e \in ToSet(edges) : e.child = k
    BY <1>n DEF GrowsTo
  <2> QED
    BY <1>2, <1>3, <2>1, <2>2
<1>8. ASSUME NEW e \in ToSet(u), NEW f \in ToSet(u), e.child = f.child PROVE e = f
  <2>1. \A g \in ToSet(edges) : g.child \in 1 .. n
    BY <1>4
  <2>2. n + 1 \notin 1 .. n
    OBVIOUS
  <2>3. \A g, h \in ToSet(edges) : g.child = h.child => g = h
    BY DEF GrowsTo
  <2> QED
    BY <1>2, <1>3, <1>8, <2>1, <2>2, <2>3
<1> QED
  <2>1. \A i \in DOMAIN t : t[i].id = i
    BY <1>1, <1>5
  <2>2. \A e \in ToSet(u) : e \in [parent : DOMAIN t, child : DOMAIN t, index : Nat] /\ e.parent < e.child
    BY <1>1, <1>6
  <2>3. \A i \in DOMAIN t \ {1} : \E e \in ToSet(u) : e.child = i
    BY <1>1, <1>7
  <2>4. GrowsTo(t, u)
    BY <1>1, <1>2, <1>8, <2>1, <2>2, <2>3, Zenon DEF GrowsTo
  <2> QED
    BY <2>4, <1>t, <1>u

\* A set of expressions with all that they hold.
AreExpressions(X) == \A x \in X : x.items \in Seq(X)

\* What holds between two visits: nodes and edges are those of a tree as far as it
\* is compiled, and what is still to do hangs from nodes that are there.
InProgress(done, X) ==
  /\ GrowsTo(done.nodes, done.edges)
  /\ done.todo \in Seq([expr : X, parent : Nat, index : Nat])
  /\ done.nodes = <<>> => Len(done.todo) <= 1 /\ \A i \in DOMAIN done.todo : done.todo[i].parent = 0
  /\ done.nodes # <<>> => \A i \in DOMAIN done.todo : done.todo[i].parent \in DOMAIN done.nodes

\* With nothing compiled, there are no nodes and no edges.
LEMMA NothingInProgress == GrowsTo(<<>>, <<>>) /\ \A S : <<>> \in Seq(S) /\ DOMAIN <<>> = {} /\ Len(<<>>) = 0
<1>1. ToSet(<<>>) = {}
  BY DEF ToSet
<1>2. \A S : <<>> \in Seq(S) /\ DOMAIN <<>> = {} /\ Len(<<>>) = 0
  OBVIOUS
<1> QED
  BY <1>1, <1>2 DEF GrowsTo

\* Compiling starts in progress.
LEMMA StartIsInProgress ==
  ASSUME NEW X, NEW root \in X
  PROVE  InProgress(StartingWith(root), X)
<1>s. PICK s : s = StartingWith(root)
  OBVIOUS
<1>1. s.nodes = <<>> /\ s.edges = <<>> /\ s.todo = <<Pending(root, 0, 0)>>
  BY <1>s DEF StartingWith
<1>2. Pending(root, 0, 0) \in [expr : X, parent : Nat, index : Nat] /\ Pending(root, 0, 0).parent = 0
  BY DEF Pending
<1>3. GrowsTo(<<>>, <<>>)
  BY NothingInProgress
<1>p. PICK p : p = Pending(root, 0, 0)
  OBVIOUS
<1>4. <<p>> \in Seq([expr : X, parent : Nat, index : Nat]) /\ Len(<<p>>) = 1 /\ DOMAIN <<p>> = {1} /\ <<p>>[1] = p
  BY <1>2, <1>p
<1>5. \A i \in DOMAIN <<p>> : <<p>>[i].parent = 0
  BY <1>2, <1>4, <1>p
<1> QED
  <2>1. s.todo = <<p>>
    BY <1>1, <1>p
  <2>2. InProgress(s, X)
    BY <1>1, <1>3, <1>4, <1>5, <2>1 DEF InProgress
  <2> QED
    BY <2>2, <1>s

\* A visit goes on with a tree, whatever expression it is given.
LEMMA VisitGoesOn ==
  ASSUME NEW X, AreExpressions(X), NEW done, InProgress(done, X), done.todo # <<>>
  PROVE  /\ InProgress(visit(done), X)
         /\ visit(done).error = "none" => visit(done).nodes # <<>>
<1>a. PICK at : at = Head(done.todo)
  OBVIOUS
<1>r. PICK rest : rest = Tail(done.todo)
  OBVIOUS
<1>e. PICK expr : expr = at.expr
  OBVIOUS
<1>n. PICK n \in Nat : n = Len(done.nodes) /\ DOMAIN done.nodes = 1 .. n
  BY DEF InProgress, GrowsTo
<1> DEFINE P == [expr : X, parent : Nat, index : Nat]
           id == n + 1
           isAtom == expr.type = "atom"
           kind == IF isAtom THEN "sym" ELSE expr.items[1].symbol
           name == IF isAtom THEN expr.symbol ELSE displayName(expr)
           isParent == ~isAtom /\ kind \in Composites
           edge == [parent |-> at.parent, child |-> id, index |-> at.index]
           children == IF isParent
                       THEN [i \in 1 .. Len(expr.items) - 1 |-> Pending(expr.items[i + 1], id, i - 1)]
                       ELSE <<>>
           error == NodeError(expr, at.parent = 0)
           node == [id |-> id, kind |-> kind, name |-> name]
           after == visit(done)
<1>1. at \in P /\ rest \in Seq(P) /\ Len(rest) = Len(done.todo) - 1 /\ Len(done.todo) \in Nat
      /\ at = done.todo[1] /\ 1 \in DOMAIN done.todo
      /\ \A i \in 1 .. Len(rest) : i + 1 \in DOMAIN done.todo /\ rest[i] = done.todo[i + 1]
  <2>q. PICK q : q = done.todo
    OBVIOUS
  <2>1. q \in Seq(P) /\ q # <<>>
    BY <2>q DEF InProgress
  <2>2. Len(q) \in Nat /\ Len(q) > 0
    BY <2>1
  <2> HIDE DEF P
  <2>3. at \in P /\ at = q[1] /\ 1 \in DOMAIN q
    BY <1>a, <2>1, <2>2, <2>q
  <2>4. rest \in Seq(P) /\ Len(rest) = Len(q) - 1 /\ \A i \in 1 .. Len(rest) : rest[i] = q[i + 1]
    BY <1>r, <2>1, <2>2, <2>q
  <2>5. \A i \in 1 .. Len(rest) : i + 1 \in DOMAIN q
    BY <2>1, <2>2, <2>4
  <2> QED
    BY <2>2, <2>3, <2>4, <2>5, <2>q
<1>2. expr \in X /\ at.parent \in Nat /\ at.index \in Nat
  BY <1>1, <1>e
<1>3. children \in Seq(P) /\ \A i \in DOMAIN children : children[i].parent = id
  <2>1. CASE ~isParent
    BY <2>1
  <2>2. CASE isParent
    <3>i. PICK items : items = expr.items
      OBVIOUS
    <3>1. items \in Seq(X) /\ Len(items) \in Nat
      BY <1>2, <3>i DEF AreExpressions
    <3>c. PICK c : c = [i \in 1 .. Len(items) - 1 |-> Pending(items[i + 1], id, i - 1)]
      OBVIOUS
    <3>2. ASSUME NEW i \in 1 .. Len(items) - 1
          PROVE  Pending(items[i + 1], id, i - 1) \in P /\ Pending(items[i + 1], id, i - 1).parent = id
      <4>1. i + 1 \in 1 .. Len(items) /\ i - 1 \in Nat /\ id \in Nat
        BY <3>1
      <4>2. items[i + 1] \in X
        BY <3>1, <4>1
      <4> QED
        BY <4>1, <4>2 DEF Pending
    <3> HIDE DEF P, id
    <3>3. c \in [1 .. Len(items) - 1 -> P] /\ DOMAIN c = 1 .. Len(items) - 1
      BY <3>2, <3>c, Zenon
    <3>4. \A i \in DOMAIN c : c[i].parent = id
      BY <3>2, <3>3, <3>c
    <3>5. c \in Seq(P)
      <4>1. CASE Len(items) = 0
        <5>1. 1 .. Len(items) - 1 = 1 .. 0
          BY <4>1
        <5> QED
          BY <3>3, <5>1
      <4>2. CASE Len(items) # 0
        <5>1. Len(items) - 1 \in Nat
          BY <3>1, <4>2
        <5> QED
          BY <3>3, <5>1
      <4> QED
        BY <4>1, <4>2
    <3>6. children = c
      BY <2>2, <3>c, <3>i
    <3> QED
      BY <3>4, <3>5, <3>6
  <2> QED
    BY <2>1, <2>2
<1>4. CASE error # "none"
  <2>x. PICK x : x = Rejected(error)
    OBVIOUS
  <2>1. after = x
    BY <1>4, <1>a, <1>e, <2>x, Zenon DEF visit
  <2> HIDE DEF error
  <2>2. x.nodes = <<>> /\ x.edges = <<>> /\ x.todo = <<>> /\ x.error # "none"
    BY <1>4, <2>x DEF Rejected
  <2>3. InProgress(x, X)
    BY <2>2, NothingInProgress DEF InProgress
  <2> HIDE DEF after
  <2> QED
    BY <2>1, <2>2, <2>3 DEF after
<1>5. CASE error = "none"
  <2>g. PICK edges : edges = IF at.parent = 0 THEN <<>> ELSE <<edge>>
    OBVIOUS
  <2>1. /\ after.nodes = Append(done.nodes, node) /\ after.edges = done.edges \o edges
        /\ after.todo = children \o rest
    BY <1>5, <1>a, <1>e, <1>n, <1>r, <2>g DEF visit
  <2>2. /\ GrowsTo(done.nodes, done.edges)
        /\ done.nodes = <<>> => Len(done.todo) <= 1 /\ \A i \in DOMAIN done.todo : done.todo[i].parent = 0
        /\ done.nodes # <<>> => \A i \in DOMAIN done.todo : done.todo[i].parent \in 1 .. n
    BY <1>n DEF InProgress
  <2>3. node.id = n + 1
    OBVIOUS
  <2>t. PICK t : t = Append(done.nodes, node)
    OBVIOUS
  <2>4. DOMAIN t = 1 .. n + 1 /\ t # <<>> /\ (done.nodes = <<>> <=> n = 0)
    <3>1. done.nodes \in Seq(ToSet(done.nodes))
      BY <2>2 DEF GrowsTo
    <3>2. DOMAIN t = 1 .. n + 1
      BY <1>n, <2>t, <3>1, OneMoreElement
    <3> HIDE DEF node
    <3>3. t # <<>>
      BY <3>2
    <3> QED
      BY <1>n, <3>1, <3>2, <3>3
  <2> HIDE DEF node, children, P
  <2>5. GrowsTo(t, done.edges \o edges)
    <3>1. CASE n = 0
      <4>1. at.parent = 0
        BY <1>1, <2>2, <2>4, <3>1
      <4>2. done.edges \o edges = done.edges
        BY <2>2, <2>g, <4>1 DEF GrowsTo
      <4>3. GrowsTo(<<>>, done.edges) /\ node.id = 1 /\ done.nodes = <<>>
        BY <2>2, <2>3, <2>4, <3>1
      <4> QED
        BY <2>t, <4>2, <4>3, FirstNodeGrows
    <3>2. CASE n # 0
      <4>1. at.parent \in 1 .. n
        BY <1>1, <2>2, <2>4, <3>2
      <4>2. edges = <<edge>>
        BY <2>g, <4>1
      <4>3. edge \in [parent : 1 .. n, child : {n + 1}, index : Nat]
        BY <1>2, <4>1
      <4>4. done.edges \o <<edge>> = Append(done.edges, edge)
        <5> HIDE DEF edge
        <5> QED
          BY <2>2, AppendIsConcat DEF GrowsTo
      <4> HIDE DEF edge
      <4>5. GrowsTo(t, Append(done.edges, edge))
        BY <1>n, <2>2, <2>3, <2>t, <4>3, NextNodeGrows
      <4> QED
        BY <4>2, <4>4, <4>5
    <3> QED
      BY <3>1, <3>2
  <2>6. children \o rest \in Seq(P)
    BY <1>1, <1>3
  <2>7. ASSUME NEW i \in DOMAIN (children \o rest) PROVE (children \o rest)[i].parent \in 1 .. n + 1
    <3>1. \A k \in 1 .. Len(rest) : rest[k].parent \in 1 .. n + 1
      <4> SUFFICES ASSUME NEW k \in 1 .. Len(rest) PROVE rest[k].parent \in 1 .. n + 1
        OBVIOUS
      <4>1. k + 1 \in DOMAIN done.todo /\ rest[k] = done.todo[k + 1]
        BY <1>1
      <4>2. CASE n = 0
        <5>1. Len(rest) <= 0
          BY <1>1, <2>2, <2>4, <4>2
        <5> QED
          BY <1>1, <5>1
      <4>3. CASE n # 0
        <5>1. rest[k].parent \in 1 .. n
          BY <2>2, <2>4, <4>1, <4>3
        <5> QED
          BY <5>1
      <4> QED
        BY <4>2, <4>3
    <3>2. i \in 1 .. Len(children) + Len(rest) /\ Len(children) \in Nat /\ Len(rest) \in Nat
      BY <1>1, <1>3
    <3>3. CASE i <= Len(children)
      <4>1. (children \o rest)[i] = children[i] /\ i \in DOMAIN children
        BY <1>1, <1>3, <3>2, <3>3
      <4> QED
        BY <1>3, <4>1
    <3>4. CASE i > Len(children)
      <4>1. (children \o rest)[i] = rest[i - Len(children)] /\ i - Len(children) \in 1 .. Len(rest)
        BY <1>1, <1>3, <3>2, <3>4
      <4> QED
        BY <3>1, <4>1
    <3> QED
      BY <3>2, <3>3, <3>4
  <2>8. /\ after.nodes = t /\ after.edges = done.edges \o edges /\ after.todo = children \o rest
    BY <2>1, <2>t
  <2> HIDE DEF after
  <2>9. InProgress(after, X)
    BY <2>4, <2>5, <2>6, <2>7, <2>8 DEF InProgress, P
  <2> QED
    BY <2>4, <2>8, <2>9 DEF after
<1> QED
  BY <1>4, <1>5

\* What compileTree defines by recursion.
CompiledAt(root, f, n) ==
  IF n = 0 THEN StartingWith(root)
  ELSE LET done == f[n - 1] IN IF done.todo = <<>> THEN done ELSE visit(done)

Compiling(f, root, size) == f = [n \in 0 .. size |-> CompiledAt(root, f, n)]

\* compileTree is well defined.
LEMMA CompilingExists ==
  ASSUME NEW root, NEW size \in Nat
  PROVE  \E f : Compiling(f, root, size)
<1> DEFINE N == {n \in Nat : \E f : \A d \in 0 .. n : f[d] = CompiledAt(root, f, d)}
<1>1. 0 \in N
  <2> DEFINE f == [d \in {0} |-> StartingWith(root)]
  <2>1. \A d \in 0 .. 0 : d = 0
    OBVIOUS
  <2>2. \A d \in 0 .. 0 : f[d] = CompiledAt(root, f, d)
    BY <2>1, Zenon DEF CompiledAt
  <2> QED
    BY <2>2
<1>2. ASSUME NEW n \in Nat, n \in N PROVE n + 1 \in N
  <2>1. PICK f : \A d \in 0 .. n : f[d] = CompiledAt(root, f, d)
    BY <1>2
  <2> DEFINE g == [d \in 0 .. n + 1 |-> CompiledAt(root, f, d)]
  <2>2. \A d \in 0 .. n : d \in 0 .. n + 1
    OBVIOUS
  <2>3. \A d \in 0 .. n : g[d] = f[d]
    BY <2>1, <2>2, Zenon
  <2>4. \A d \in 0 .. n + 1 : d # 0 => d - 1 \in 0 .. n
    OBVIOUS
  <2>5. ASSUME NEW d \in 0 .. n + 1 PROVE g[d] = CompiledAt(root, g, d)
    <3>1. g[d] = CompiledAt(root, f, d)
      BY Zenon
    <3>2. d # 0 => g[d - 1] = f[d - 1]
      BY <2>3, <2>4, Zenon
    <3> HIDE DEF g
    <3> QED
      BY <3>1, <3>2, Zenon DEF CompiledAt
  <2> HIDE DEF g
  <2> QED
    BY <2>5
<1>3. \A n \in Nat : n \in N
  <2> HIDE DEF N
  <2> QED
    BY <1>1, <1>2, NaturalInduction
<1>4. PICK f : \A d \in 0 .. size : f[d] = CompiledAt(root, f, d)
  BY <1>3
<1> DEFINE h == [d \in 0 .. size |-> f[d]]
<1>5. ASSUME NEW d \in 0 .. size PROVE f[d] = CompiledAt(root, h, d)
  <2>1. d # 0 => d - 1 \in 0 .. size
    OBVIOUS
  <2>2. d # 0 => h[d - 1] = f[d - 1]
    BY <2>1, Zenon
  <2>3. f[d] = CompiledAt(root, f, d)
    BY <1>4
  <2> HIDE DEF h
  <2> QED
    BY <2>2, <2>3, Zenon DEF CompiledAt
<1>6. Compiling(h, root, size)
  BY <1>5, Zenon DEF Compiling
<1> QED
  BY <1>6

\* Whatever expression is compiled, as long as none is rejected the nodes and edges
\* are those of a tree: ids in the order of the text, one parent for each node but
\* the first, and no id that is used twice or missing (visit in compileBtDsl).
THEOREM CompiledAreTrees ==
  ASSUME NEW X, AreExpressions(X), NEW root \in X, NEW size \in Nat \ {0},
         compileTree(root, size).error = "none"
  PROVE  IsTree(definitionOf(compileTree(root, size)))
<1> DEFINE f == CHOOSE g : Compiling(g, root, size)
           Fine(done) == InProgress(done, X) /\ (done.error = "none" => done.nodes # <<>>)
           M == {m \in Nat : m + 1 <= size => Fine(f[m + 1])}
<1>1. compileTree(root, size) = f[size]
  BY Zenon DEF compileTree, Compiling, CompiledAt
<1>2. Compiling(f, root, size)
  BY CompilingExists
<1> HIDE DEF f
<1>3. f[0] = StartingWith(root)
  <2>1. 0 \in 0 .. size
    OBVIOUS
  <2> QED
    BY <1>2, <2>1, Zenon DEF Compiling, CompiledAt
<1>4. ASSUME NEW n \in Nat, n + 1 <= size
      PROVE  f[n + 1] = IF f[n].todo = <<>> THEN f[n] ELSE visit(f[n])
  <2>1. n + 1 \in 0 .. size /\ n + 1 # 0 /\ (n + 1) - 1 = n
    BY <1>4
  <2>2. f[n + 1] = CompiledAt(root, f, n + 1)
    BY <1>2, <2>1, Zenon DEF Compiling
  <2> QED
    BY <2>1, <2>2, Zenon DEF CompiledAt
<1>5. 0 \in M
  <2>1. f[0].todo # <<>>
    BY <1>3 DEF StartingWith
  <2>2. InProgress(f[0], X)
    BY <1>3, StartIsInProgress
  <2>3. f[0 + 1] = visit(f[0])
    BY <1>4, <2>1
  <2> QED
    BY <2>1, <2>2, <2>3, VisitGoesOn
<1>6. ASSUME NEW m \in Nat, m \in M PROVE m + 1 \in M
  <2> SUFFICES ASSUME (m + 1) + 1 <= size PROVE Fine(f[(m + 1) + 1])
    OBVIOUS
  <2>1. m + 1 \in Nat /\ m + 1 <= size
    OBVIOUS
  <2>2. Fine(f[m + 1])
    BY <1>6, <2>1
  <2>3. f[(m + 1) + 1] = IF f[m + 1].todo = <<>> THEN f[m + 1] ELSE visit(f[m + 1])
    BY <1>4, <2>1
  <2> QED
    BY <2>2, <2>3, VisitGoesOn
<1>7. \A m \in Nat : m \in M
  <2> HIDE DEF M
  <2> QED
    BY <1>5, <1>6, NaturalInduction
<1>8. Fine(f[size])
  <2>1. size - 1 \in Nat /\ (size - 1) + 1 = size
    OBVIOUS
  <2>2. size - 1 \in M
    BY <1>7, <2>1
  <2> HIDE DEF Fine
  <2> QED
    BY <2>1, <2>2
<1>d. PICK tree : tree = definitionOf(f[size])
  OBVIOUS
<1>9. tree.nodes = f[size].nodes /\ tree.edges = f[size].edges
  BY <1>d DEF definitionOf
<1>10. GrowsTo(tree.nodes, tree.edges) /\ tree.nodes # <<>>
  BY <1>1, <1>8, <1>9 DEF InProgress
<1>11. IsTree(tree)
  BY <1>10, Zenon DEF IsTree, GrowsTo
<1> QED
  BY <1>1, <1>11, <1>d

-----------------------------------------------------------------------------
(* What a visit adds *)

\* A form with children.
IsParent(expr) == expr.type = "list" /\ expr.items[1].symbol \in Composites

\* A set of expressions, with all that they hold, that are atoms or lists.
AreForms(X) == AreExpressions(X) /\ \A x \in X : x.type \in {"atom", "list"}

\* How many children a form has.
ChildCount(expr) == IF IsParent(expr) THEN Len(expr.items) - 1 ELSE 0

\* The node of the first form to be visited, the edge to it, and its children, which
\* are to be visited next.
Adds(done, after, at, n, c) ==
  /\ n = Len(done.nodes) /\ at = done.todo[1] /\ 1 \in DOMAIN done.todo /\ c = ChildCount(at.expr)
  /\ DOMAIN after.nodes = 1 .. n + 1
  /\ labelFor(after.nodes[n + 1]) = formLabel(at.expr)
  /\ \A i \in 1 .. n : after.nodes[i] = done.nodes[i]
  /\ after.edges = IF at.parent = 0 THEN done.edges
                   ELSE Append(done.edges, [parent |-> at.parent, child |-> n + 1, index |-> at.index])
  /\ \A i \in DOMAIN after.todo :
       \/ i \in 1 .. c /\ after.todo[i] = Pending(at.expr.items[i + 1], n + 1, i - 1)
       \/ \E j \in DOMAIN done.todo : j # 1 /\ i = c + j - 1 /\ after.todo[i] = done.todo[j]
  /\ \A i \in 1 .. c : /\ i \in DOMAIN after.todo
                       /\ after.todo[i] = Pending(at.expr.items[i + 1], n + 1, i - 1)
  /\ \A j \in DOMAIN done.todo :
       j # 1 => c + j - 1 \in DOMAIN after.todo /\ after.todo[c + j - 1] = done.todo[j]

\* That is what a visit adds.
LEMMA VisitAdds ==
  ASSUME NEW X, AreForms(X), NEW done, InProgress(done, X), done.todo # <<>>,
         visit(done).error = "none"
  PROVE  \E at \in [expr : X, parent : Nat, index : Nat], n, c \in Nat :
           Adds(done, visit(done), at, n, c)
<1>a. PICK at : at = Head(done.todo)
  OBVIOUS
<1>r. PICK rest : rest = Tail(done.todo)
  OBVIOUS
<1>e. PICK expr : expr = at.expr
  OBVIOUS
<1>n. PICK n \in Nat : n = Len(done.nodes) /\ DOMAIN done.nodes = 1 .. n
  BY DEF InProgress, GrowsTo
<1>q. PICK q : q = done.todo
  OBVIOUS
<1> DEFINE P == [expr : X, parent : Nat, index : Nat]
           id == n + 1
           isAtom == expr.type = "atom"
           kind == IF isAtom THEN "sym" ELSE expr.items[1].symbol
           name == IF isAtom THEN expr.symbol ELSE displayName(expr)
           isParent == ~isAtom /\ kind \in Composites
           edge == [parent |-> at.parent, child |-> id, index |-> at.index]
           children == IF isParent
                       THEN [i \in 1 .. Len(expr.items) - 1 |-> Pending(expr.items[i + 1], id, i - 1)]
                       ELSE <<>>
           error == NodeError(expr, at.parent = 0)
           node == [id |-> id, kind |-> kind, name |-> name]
           c == ChildCount(expr)
<1>1. error = "none"
  <2>1. CASE error # "none"
    <3>1. visit(done) = Rejected(error)
      BY <1>a, <1>e, <2>1, Zenon DEF visit
    <3> HIDE DEF error
    <3>2. visit(done).error = error
      BY <3>1 DEF Rejected
    <3> QED
      BY <2>1, <3>2
  <2> QED
    BY <2>1
<1>g. PICK edges : edges = IF at.parent = 0 THEN <<>> ELSE <<edge>>
  OBVIOUS
<1>2. /\ visit(done).nodes = Append(done.nodes, node) /\ visit(done).edges = done.edges \o edges
      /\ visit(done).todo = children \o rest
  BY <1>1, <1>a, <1>e, <1>n, <1>r, <1>g DEF visit
<1>3. q \in Seq(P) /\ q # <<>>
  BY <1>q DEF InProgress
<1>4. Len(q) \in Nat /\ Len(q) > 0 /\ DOMAIN q = 1 .. Len(q)
  BY <1>3
<1>5. at \in P /\ at = q[1] /\ 1 \in DOMAIN q
  <2> HIDE DEF P
  <2> QED
    BY <1>a, <1>3, <1>4, <1>q
<1>6. rest \in Seq(P) /\ Len(rest) = Len(q) - 1 /\ \A i \in 1 .. Len(rest) : rest[i] = q[i + 1]
  <2> HIDE DEF P
  <2> QED
    BY <1>r, <1>3, <1>4, <1>q
<1>7. expr \in X /\ expr.items \in Seq(X) /\ expr.type \in {"atom", "list"}
  BY <1>5, <1>e DEF AreForms, AreExpressions
<1>8. isParent <=> IsParent(expr)
  BY <1>7 DEF IsParent
<1>9. IsParent(expr) => expr.items # <<>>
  BY <1>1 DEF NodeError, IsParent
<1>10. c \in Nat
  <2>1. IsParent(expr) => Len(expr.items) \in Nat /\ Len(expr.items) # 0
    BY <1>7, <1>9
  <2> QED
    BY <2>1 DEF ChildCount
<1>11. /\ children \in Seq(P) /\ Len(children) = c
       /\ \A i \in 1 .. c : children[i] = Pending(expr.items[i + 1], id, i - 1)
  <2>1. CASE ~IsParent(expr)
    BY <1>8, <2>1 DEF ChildCount
  <2>2. CASE IsParent(expr)
    <3>i. PICK items : items = expr.items
      OBVIOUS
    <3>m. PICK m : m = Len(items) - 1
      OBVIOUS
    <3>1. items \in Seq(X) /\ Len(items) \in Nat /\ m \in Nat /\ c = m
      BY <1>7, <1>10, <2>2, <3>i, <3>m DEF ChildCount
    <3>d. PICK d : d = [i \in 1 .. m |-> Pending(items[i + 1], id, i - 1)]
      OBVIOUS
    <3>2. ASSUME NEW i \in 1 .. m
          PROVE  Pending(items[i + 1], id, i - 1) \in P
      <4>1. i + 1 \in 1 .. Len(items) /\ i - 1 \in Nat /\ id \in Nat
        BY <3>1, <3>m
      <4>2. items[i + 1] \in X
        BY <3>1, <4>1
      <4> QED
        BY <4>1, <4>2 DEF Pending
    <3>6. children = d
      BY <1>8, <2>2, <3>d, <3>i, <3>m
    <3> HIDE DEF P, id, children, c
    <3>3. d \in [1 .. m -> P]
      BY <3>2, <3>d, Zenon
    <3>5. d \in Seq(P) /\ Len(d) = m
      BY <3>1, <3>3
    <3>7. \A i \in 1 .. m : d[i] = Pending(items[i + 1], id, i - 1)
      BY <3>d, Zenon
    <3> QED
      BY <3>1, <3>5, <3>6, <3>7, <3>i
  <2> QED
    BY <2>1, <2>2
<1>t. PICK t : t = Append(done.nodes, node)
  OBVIOUS
<1>12. DOMAIN t = 1 .. n + 1 /\ t[n + 1] = node /\ \A i \in 1 .. n : t[i] = done.nodes[i]
  <2>1. done.nodes \in Seq(ToSet(done.nodes))
    BY DEF InProgress, GrowsTo
  <2> QED
    BY <1>n, <1>t, <2>1, OneMoreElement
<1>13. labelFor(node) = formLabel(expr)
  BY DEF labelFor, formLabel
<1>14. done.edges \o edges = IF at.parent = 0 THEN done.edges ELSE Append(done.edges, edge)
  <2>1. done.edges \in Seq(ToSet(done.edges))
    BY DEF InProgress, GrowsTo
  <2>e. PICK e : e = edge
    OBVIOUS
  <2>2. done.edges \o <<e>> = Append(done.edges, e) /\ done.edges \o <<>> = done.edges
    BY <2>1, AppendIsConcat
  <2>3. edges = IF at.parent = 0 THEN <<>> ELSE <<e>>
    BY <1>g, <2>e
  <2>4. done.edges \o edges = IF at.parent = 0 THEN done.edges ELSE Append(done.edges, e)
    BY <2>2, <2>3
  <2> QED
    BY <2>4, <2>e
<1>u. PICK u : u = children \o rest
  OBVIOUS
<1>15. /\ DOMAIN u = 1 .. c + Len(rest) /\ Len(rest) \in Nat
       /\ \A i \in 1 .. c : u[i] = children[i]
       /\ \A i \in 1 .. Len(rest) : u[c + i] = rest[i]
  <2> HIDE DEF P, children, c
  <2>1. u \in Seq(P) /\ Len(u) = Len(children) + Len(rest) /\ Len(rest) \in Nat
    BY <1>6, <1>11, <1>u
  <2>2. \A i \in 1 .. c : u[i] = children[i]
    BY <1>6, <1>10, <1>11, <1>u
  <2>3. ASSUME NEW i \in 1 .. Len(rest) PROVE u[c + i] = rest[i]
    BY <1>6, <1>10, <1>11, <1>u, <2>1
  <2> QED
    BY <1>10, <1>11, <2>1, <2>2, <2>3
<1> HIDE DEF children, c, node, error
<1>16. ASSUME NEW i \in DOMAIN u
       PROVE  \/ i \in 1 .. c /\ u[i] = Pending(expr.items[i + 1], n + 1, i - 1)
              \/ \E j \in DOMAIN q : j # 1 /\ i = c + j - 1 /\ u[i] = q[j]
  <2>1. CASE i <= c
    BY <1>10, <1>11, <1>15, <2>1
  <2>2. CASE i > c
    <3>k. PICK k \in Nat : k = i - c
      BY <1>10, <1>15, <2>2
    <3>1. k \in 1 .. Len(rest) /\ i = c + k
      BY <1>10, <1>15, <2>2, <3>k
    <3>2. u[c + k] = q[k + 1] /\ k + 1 \in DOMAIN q
      BY <1>4, <1>6, <1>15, <3>1
    <3>3. k + 1 # 1 /\ i = c + (k + 1) - 1 /\ u[i] = q[k + 1]
      BY <1>10, <3>1, <3>2
    <3> QED
      BY <3>2, <3>3
  <2> QED
    BY <1>10, <1>15, <2>1, <2>2
<1>17. \A i \in 1 .. c : i \in DOMAIN u /\ u[i] = Pending(expr.items[i + 1], n + 1, i - 1)
  <2>1. \A i \in 1 .. c : i \in DOMAIN u
    BY <1>10, <1>15
  <2> QED
    BY <1>11, <1>15, <2>1
<1>18. ASSUME NEW j \in DOMAIN q, j # 1
       PROVE  c + j - 1 \in DOMAIN u /\ u[c + j - 1] = q[j]
  <2>k. PICK k \in Nat : k = j - 1
    BY <1>4, <1>18
  <2>1. k \in 1 .. Len(rest) /\ j = k + 1 /\ c + j - 1 = c + k
    BY <1>4, <1>6, <1>10, <1>18, <2>k
  <2>2. c + k \in DOMAIN u
    BY <1>10, <1>15, <2>1
  <2>3. u[c + k] = q[k + 1]
    BY <1>6, <1>15, <2>1
  <2> QED
    BY <2>1, <2>2, <2>3
<1>v. PICK v : v = visit(done)
  OBVIOUS
<1>19. v.nodes = t /\ v.todo = u /\ v.edges = IF at.parent = 0 THEN done.edges ELSE Append(done.edges, edge)
  BY <1>2, <1>14, <1>t, <1>u, <1>v
<1>20. /\ n = Len(done.nodes) /\ at = q[1] /\ 1 \in DOMAIN q /\ c = ChildCount(at.expr)
       /\ DOMAIN v.nodes = 1 .. n + 1 /\ labelFor(v.nodes[n + 1]) = formLabel(at.expr)
       /\ \A i \in 1 .. n : v.nodes[i] = done.nodes[i]
  BY <1>n, <1>5, <1>12, <1>13, <1>19, <1>e DEF c
<1>21. /\ \A i \in DOMAIN v.todo :
                \/ i \in 1 .. c /\ v.todo[i] = Pending(at.expr.items[i + 1], n + 1, i - 1)
                \/ \E j \in DOMAIN q : j # 1 /\ i = c + j - 1 /\ v.todo[i] = q[j]
       /\ \A i \in 1 .. c : i \in DOMAIN v.todo /\ v.todo[i] = Pending(at.expr.items[i + 1], n + 1, i - 1)
       /\ \A j \in DOMAIN q : j # 1 => c + j - 1 \in DOMAIN v.todo /\ v.todo[c + j - 1] = q[j]
  BY <1>16, <1>17, <1>18, <1>19, <1>e
<1> at \in [expr : X, parent : Nat, index : Nat] /\ c \in Nat
  BY <1>5, <1>10
<1> WITNESS at \in [expr : X, parent : Nat, index : Nat], n \in Nat, c \in Nat
<1>22. v.edges = IF at.parent = 0 THEN done.edges
                ELSE Append(done.edges, [parent |-> at.parent, child |-> n + 1, index |-> at.index])
  BY <1>19
<1>23. Adds(done, v, at, n, c)
  BY <1>20, <1>21, <1>22, <1>q, Zenon DEF Adds
<1> QED
  BY <1>23, <1>v

-----------------------------------------------------------------------------
(* Where the forms of an expression go *)

\* An expression is written in the form of its parent, at its index.
WrittenAt(forms, x, expr) ==
  /\ x.parent \in DOMAIN forms /\ IsParent(forms[x.parent])
  /\ x.index \in 0 .. Len(forms[x.parent].items) - 2
  /\ expr = forms[x.parent].items[x.index + 2]

SameSlot(x, y) == x.parent = y.parent /\ x.index = y.index

\* forms holds the form of each node: an edge leads to the form written at its
\* index, and every form within one with a node has an edge, or is still to be
\* visited, once.
Follows(nodes, edges, todo, forms, root, X) ==
  /\ forms \in Seq(X) /\ Len(forms) = Len(nodes)
  /\ \A i \in DOMAIN forms : labelFor(nodes[i]) = formLabel(forms[i]) /\ ChildCount(forms[i]) \in Nat
  /\ forms = <<>> => edges = {} /\ todo = <<Pending(root, 0, 0)>>
  /\ forms # <<>> => /\ forms[1] = root
                     /\ \A i \in DOMAIN todo : WrittenAt(forms, todo[i], todo[i].expr)
  /\ \A e \in edges : WrittenAt(forms, e, forms[e.child])
  /\ \A p \in DOMAIN forms : IsParent(forms[p]) =>
       \A k \in 0 .. Len(forms[p].items) - 2 :
         \/ \E e \in edges : e.parent = p /\ e.index = k
         \/ \E i \in DOMAIN todo : todo[i].parent = p /\ todo[i].index = k
  /\ \A e, f \in edges : SameSlot(e, f) => e = f
  /\ \A i, j \in DOMAIN todo : SameSlot(todo[i], todo[j]) => i = j
  /\ \A e \in edges, i \in DOMAIN todo : ~SameSlot(e, todo[i])

Following(done, forms, root, X) == Follows(done.nodes, ToSet(done.edges), done.todo, forms, root, X)

\* A visit gives its node the form that was to be visited.
LEMMA VisitFollows ==
  ASSUME NEW X, AreForms(X), NEW root \in X, NEW done, InProgress(done, X), done.todo # <<>>,
         visit(done).error = "none", NEW forms, Following(done, forms, root, X)
  PROVE  /\ Following(visit(done), Append(forms, done.todo[1].expr), root, X)
         /\ Len(visit(done).nodes) = Len(done.nodes) + 1
<1>q. PICK q : q = done.todo
  OBVIOUS
<1>v. PICK v : v = visit(done)
  OBVIOUS
<1>u. PICK u : u = v.todo
  OBVIOUS
<1>a. PICK at \in [expr : X, parent : Nat, index : Nat], n \in Nat, c \in Nat : Adds(done, v, at, n, c)
  BY <1>v, VisitAdds
<1>0. /\ n = Len(done.nodes) /\ at = q[1] /\ 1 \in DOMAIN q /\ c = ChildCount(at.expr)
      /\ DOMAIN v.nodes = 1 .. n + 1
      /\ labelFor(v.nodes[n + 1]) = formLabel(at.expr)
      /\ \A i \in 1 .. n : v.nodes[i] = done.nodes[i]
      /\ v.edges = IF at.parent = 0 THEN done.edges
                   ELSE Append(done.edges, [parent |-> at.parent, child |-> n + 1, index |-> at.index])
      /\ \A i \in DOMAIN u :
           \/ i \in 1 .. c /\ u[i] = Pending(at.expr.items[i + 1], n + 1, i - 1)
           \/ \E j \in DOMAIN q : j # 1 /\ i = c + j - 1 /\ u[i] = q[j]
      /\ \A i \in 1 .. c : i \in DOMAIN u /\ u[i] = Pending(at.expr.items[i + 1], n + 1, i - 1)
      /\ \A j \in DOMAIN q : j # 1 => c + j - 1 \in DOMAIN u /\ u[c + j - 1] = q[j]
  BY <1>a, <1>q, <1>u, Zenon DEF Adds
<1>1. DOMAIN q \subseteq Nat /\ q \in Seq([expr : X, parent : Nat, index : Nat])
  <2>1. q \in Seq([expr : X, parent : Nat, index : Nat])
    BY <1>q DEF InProgress
  <2> QED
    BY <2>1
<1>g. PICK g : g = Append(forms, at.expr)
  OBVIOUS
<1>2. /\ forms \in Seq(X) /\ DOMAIN forms = 1 .. n /\ Len(forms) = n
      /\ g \in Seq(X) /\ DOMAIN g = 1 .. n + 1 /\ Len(g) = n + 1
      /\ g[n + 1] = at.expr /\ \A i \in 1 .. n : g[i] = forms[i]
  <2>1. forms \in Seq(X) /\ Len(forms) = n /\ at.expr \in X
    BY <1>0 DEF Following, Follows
  <2>2. g \in Seq(X) /\ Len(g) = n + 1 /\ g[n + 1] = at.expr /\ \A i \in 1 .. n : g[i] = forms[i]
    BY <2>1, <1>g, AppendProperties
  <2> QED
    BY <2>1, <2>2
<1>E. PICK E : E = ToSet(done.edges)
  OBVIOUS
<1>F. PICK F : F = ToSet(v.edges)
  OBVIOUS
<1>d. PICK edge : edge = [parent |-> at.parent, child |-> n + 1, index |-> at.index]
  OBVIOUS
<1>3. F = IF at.parent = 0 THEN E ELSE E \cup {edge}
  <2>1. done.edges \in Seq(ToSet(done.edges))
    BY DEF InProgress, GrowsTo
  <2>2. ToSet(Append(done.edges, edge)) = ToSet(done.edges) \cup {edge}
    BY <2>1, OneMoreElement
  <2>3. v.edges = IF at.parent = 0 THEN done.edges ELSE Append(done.edges, edge)
    BY <1>0, <1>d
  <2> QED
    BY <2>2, <2>3, <1>E, <1>F
<1>4. \A e \in E : e.parent \in 1 .. n /\ e.child \in 1 .. n
  <2>1. DOMAIN done.nodes = 1 .. n
    BY <1>0 DEF InProgress, GrowsTo
  <2> QED
    BY <1>E, <2>1 DEF InProgress, GrowsTo
<1>5. /\ \A i \in 1 .. n : labelFor(done.nodes[i]) = formLabel(forms[i]) /\ ChildCount(forms[i]) \in Nat
      /\ forms = <<>> => E = {} /\ q = <<Pending(root, 0, 0)>>
      /\ forms # <<>> => /\ forms[1] = root
                         /\ \A i \in DOMAIN q : WrittenAt(forms, q[i], q[i].expr)
      /\ \A e \in E : WrittenAt(forms, e, forms[e.child])
      /\ \A p \in 1 .. n : IsParent(forms[p]) =>
           \A k \in 0 .. Len(forms[p].items) - 2 :
             \/ \E e \in E : e.parent = p /\ e.index = k
             \/ \E i \in DOMAIN q : q[i].parent = p /\ q[i].index = k
      /\ \A e, f \in E : SameSlot(e, f) => e = f
      /\ \A i, j \in DOMAIN q : SameSlot(q[i], q[j]) => i = j
      /\ \A e \in E, i \in DOMAIN q : ~SameSlot(e, q[i])
  <2>1. Follows(done.nodes, E, q, forms, root, X)
    BY <1>E, <1>q DEF Following
  <2> QED
    BY <1>2, <2>1, Zenon DEF Follows
<1>6. ASSUME NEW x, NEW expr, WrittenAt(forms, x, expr)
      PROVE  WrittenAt(g, x, expr) /\ x.parent \in 1 .. n
  <2>1. x.parent \in 1 .. n /\ x.parent \in 1 .. n + 1
    BY <1>2, <1>6 DEF WrittenAt
  <2>2. g[x.parent] = forms[x.parent]
    BY <1>2, <2>1
  <2> QED
    BY <1>2, <1>6, <2>1, <2>2 DEF WrittenAt
<1>7. (n = 0 <=> forms = <<>>) /\ (n = 0 <=> at.parent = 0)
  <2>1. n = 0 <=> forms = <<>>
    BY <1>2
  <2>2. CASE n = 0
    <3>1. q = <<Pending(root, 0, 0)>>
      BY <1>5, <2>1, <2>2
    <3>2. at = Pending(root, 0, 0)
      BY <1>0, <3>1
    <3> QED
      BY <2>1, <2>2, <3>2 DEF Pending
  <2>3. CASE n # 0
    <3>1. WrittenAt(forms, at, at.expr)
      BY <1>0, <1>5, <2>1, <2>3
    <3>2. at.parent \in 1 .. n
      BY <1>6, <3>1
    <3> QED
      BY <2>1, <2>3, <3>2
  <2> QED
    BY <2>2, <2>3
<1>8. n = 0 => DOMAIN q = {1} /\ at.expr = root /\ E = {}
  <2> SUFFICES ASSUME n = 0 PROVE DOMAIN q = {1} /\ at.expr = root /\ E = {}
    OBVIOUS
  <2>p. PICK p : p = Pending(root, 0, 0)
    OBVIOUS
  <2>1. q = <<p>> /\ E = {}
    BY <1>5, <1>7, <2>p
  <2>2. DOMAIN q = {1} /\ q[1] = p
    BY <2>1
  <2> QED
    BY <1>0, <2>1, <2>2, <2>p DEF Pending
\* What is to be visited now: the children of the form, and what was left.
<1>9. c # 0 => IsParent(at.expr) /\ c = Len(at.expr.items) - 1
  BY <1>0 DEF ChildCount
<1>10. ASSUME NEW i \in 1 .. c
       PROVE  /\ i \in DOMAIN u /\ u[i].parent = n + 1 /\ u[i].index = i - 1
              /\ WrittenAt(g, u[i], u[i].expr)
  <2>1. i \in DOMAIN u /\ u[i] = Pending(at.expr.items[i + 1], n + 1, i - 1)
    BY <1>0
  <2>2. u[i].parent = n + 1 /\ u[i].index = i - 1 /\ u[i].expr = at.expr.items[i + 1]
    BY <2>1 DEF Pending
  <2>3. (i - 1) + 2 = i + 1 /\ IsParent(at.expr) /\ i - 1 \in 0 .. Len(at.expr.items) - 2 /\ n + 1 \in 1 .. n + 1
    BY <1>9
  <2> QED
    BY <1>2, <2>1, <2>2, <2>3 DEF WrittenAt
<1>11. ASSUME NEW j \in DOMAIN q, j # 1
       PROVE  /\ c + j - 1 \in DOMAIN u /\ u[c + j - 1] = q[j]
              /\ n # 0 /\ q[j].parent \in 1 .. n /\ WrittenAt(g, q[j], q[j].expr)
  <2>1. n # 0
    BY <1>8, <1>11
  <2>2. WrittenAt(forms, q[j], q[j].expr)
    BY <1>5, <1>7, <2>1
  <2> QED
    BY <1>0, <1>6, <1>11, <2>1, <2>2
<1>12. ASSUME NEW i \in DOMAIN u
       PROVE  \/ i \in 1 .. c
              \/ \E j \in DOMAIN q : j # 1 /\ i = c + j - 1 /\ u[i] = q[j]
  BY <1>0
\* The edge to the node.
<1>13. at.parent # 0 => /\ WrittenAt(g, edge, at.expr) /\ edge.parent \in 1 .. n /\ edge.index = at.index
                        /\ edge.parent = at.parent /\ edge.child = n + 1
  <2> SUFFICES ASSUME at.parent # 0
               PROVE  /\ WrittenAt(g, edge, at.expr) /\ edge.parent \in 1 .. n /\ edge.index = at.index
                      /\ edge.parent = at.parent /\ edge.child = n + 1
    OBVIOUS
  <2>1. edge.index = at.index /\ edge.parent = at.parent /\ edge.child = n + 1
    BY <1>d
  <2>2. WrittenAt(forms, at, at.expr)
    BY <1>0, <1>5, <1>7
  <2>3. WrittenAt(g, at, at.expr) /\ at.parent \in 1 .. n
    BY <1>6, <2>2
  <2> QED
    BY <2>1, <2>3 DEF WrittenAt
<1>14. \A i \in 1 .. n + 1 : labelFor(v.nodes[i]) = formLabel(g[i]) /\ ChildCount(g[i]) \in Nat
  <2> SUFFICES ASSUME NEW i \in 1 .. n + 1
               PROVE labelFor(v.nodes[i]) = formLabel(g[i]) /\ ChildCount(g[i]) \in Nat
    OBVIOUS
  <2>1. i \in 1 .. n \/ i = n + 1
    OBVIOUS
  <2> QED
    BY <1>0, <1>2, <1>5, <2>1
<1>15. g # <<>> /\ g[1] = root
  <2>1. CASE n = 0
    BY <1>2, <1>8, <2>1
  <2>2. CASE n # 0
    BY <1>2, <1>5, <1>7, <2>2
  <2> QED
    BY <1>2, <2>1, <2>2
<1>16. \A i \in DOMAIN u : WrittenAt(g, u[i], u[i].expr)
  BY <1>10, <1>11, <1>12
<1>17. \A e \in F : WrittenAt(g, e, g[e.child])
  <2> SUFFICES ASSUME NEW e \in F PROVE WrittenAt(g, e, g[e.child])
    OBVIOUS
  <2>1. CASE e \in E
    <3>1. WrittenAt(g, e, forms[e.child])
      BY <1>5, <1>6, <2>1
    <3> QED
      BY <1>2, <1>4, <2>1, <3>1
  <2>2. CASE e \notin E
    <3>1. e = edge /\ at.parent # 0
      BY <1>3, <2>2
    <3> QED
      BY <1>2, <1>13, <3>1
  <2> QED
    BY <2>1, <2>2
<1>18. ASSUME NEW p \in 1 .. n + 1, IsParent(g[p]), NEW k \in 0 .. Len(g[p].items) - 2
       PROVE  \/ \E e \in F : e.parent = p /\ e.index = k
              \/ \E i \in DOMAIN u : u[i].parent = p /\ u[i].index = k
  <2>1. CASE p = n + 1
    <3>1. g[p] = at.expr
      BY <1>2, <2>1
    <3>2. c = Len(at.expr.items) - 1
      BY <1>0, <1>18, <3>1 DEF ChildCount
    <3>3. k + 1 \in 1 .. c /\ (k + 1) - 1 = k
      BY <3>1, <3>2
    <3> QED
      BY <1>10, <2>1, <3>3
  <2>2. CASE p # n + 1
    <3>1. p \in 1 .. n /\ g[p] = forms[p]
      BY <1>2, <2>2
    <3>2. \/ \E e \in E : e.parent = p /\ e.index = k
          \/ \E i \in DOMAIN q : q[i].parent = p /\ q[i].index = k
      BY <1>5, <1>18, <3>1
    <3>3. CASE \E e \in E : e.parent = p /\ e.index = k
      BY <1>3, <3>3
    <3>4. CASE \E i \in DOMAIN q : q[i].parent = p /\ q[i].index = k
      <4>1. PICK i \in DOMAIN q : q[i].parent = p /\ q[i].index = k
        BY <3>4
      <4>2. CASE i = 1
        <5>1. at.parent = p /\ at.index = k /\ at.parent # 0
          BY <1>0, <3>1, <4>1, <4>2
        <5> QED
          BY <1>3, <1>13, <5>1
      <4>3. CASE i # 1
        BY <1>11, <4>1, <4>3
      <4> QED
        BY <4>2, <4>3
    <3> QED
      BY <3>2, <3>3, <3>4
  <2> QED
    BY <2>1, <2>2
<1>19. at.parent # 0 => \A e \in E : ~SameSlot(e, edge)
  <2> SUFFICES ASSUME at.parent # 0, NEW e \in E PROVE ~SameSlot(e, edge)
    OBVIOUS
  <2>1. ~SameSlot(e, at)
    BY <1>0, <1>5
  <2> QED
    BY <1>13, <2>1 DEF SameSlot
<1>20. \A e, f \in F : SameSlot(e, f) => e = f
  <2>1. \A e, f \in E : SameSlot(e, f) => e = f
    BY <1>5
  <2>2. at.parent # 0 => \A e \in E : ~SameSlot(e, edge) /\ ~SameSlot(edge, e)
    BY <1>19 DEF SameSlot
  <2> QED
    BY <1>3, <2>1, <2>2
<1>21. ASSUME NEW i \in DOMAIN u, NEW j \in DOMAIN u, SameSlot(u[i], u[j]) PROVE i = j
  <2>1. u[i].parent = u[j].parent /\ u[i].index = u[j].index
    BY <1>21 DEF SameSlot
  <2>2. CASE i \in 1 .. c /\ j \in 1 .. c
    <3>1. i - 1 = j - 1
      BY <1>10, <2>1, <2>2
    <3> QED
      BY <2>2, <3>1
  <2>3. CASE i \in 1 .. c /\ j \notin 1 .. c
    BY <1>10, <1>11, <1>12, <2>1, <2>3
  <2>4. CASE i \notin 1 .. c /\ j \in 1 .. c
    BY <1>10, <1>11, <1>12, <2>1, <2>4
  <2>5. CASE i \notin 1 .. c /\ j \notin 1 .. c
    <3>1. PICK k \in DOMAIN q : k # 1 /\ i = c + k - 1 /\ u[i] = q[k]
      BY <1>12, <2>5
    <3>2. PICK l \in DOMAIN q : l # 1 /\ j = c + l - 1 /\ u[j] = q[l]
      BY <1>12, <2>5
    <3>3. k = l
      BY <1>5, <1>21, <3>1, <3>2
    <3> QED
      BY <3>1, <3>2, <3>3
  <2> QED
    BY <2>2, <2>3, <2>4, <2>5
<1>22. ASSUME NEW e \in F, NEW i \in DOMAIN u, SameSlot(e, u[i]) PROVE FALSE
  <2>1. e.parent = u[i].parent /\ e.index = u[i].index
    BY <1>22 DEF SameSlot
  <2>2. e.parent \in 1 .. n
    BY <1>3, <1>4, <1>13
  <2>3. i \notin 1 .. c
    BY <1>10, <2>1, <2>2
  <2>4. PICK k \in DOMAIN q : k # 1 /\ i = c + k - 1 /\ u[i] = q[k]
    BY <1>12, <2>3
  <2>5. CASE e \in E
    BY <1>5, <1>22, <2>4, <2>5
  <2>6. CASE e \notin E
    <3>1. e = edge /\ at.parent # 0
      BY <1>3, <2>6
    <3>2. SameSlot(q[1], q[k])
      BY <1>0, <1>13, <2>1, <2>4, <3>1 DEF SameSlot
    <3> QED
      BY <1>0, <1>5, <2>4, <3>2
  <2> QED
    BY <2>5, <2>6
<1>23. v.nodes \in Seq(ToSet(v.nodes)) /\ Len(v.nodes) = n + 1
  <2>1. InProgress(v, X)
    BY <1>v, VisitGoesOn DEF AreForms
  <2>2. v.nodes \in Seq(ToSet(v.nodes))
    BY <2>1 DEF InProgress, GrowsTo
  <2>3. Len(v.nodes) \in Nat /\ DOMAIN v.nodes = 1 .. Len(v.nodes)
    BY <2>2
  <2> QED
    BY <1>0, <2>2, <2>3
<1>24. Follows(v.nodes, F, u, g, root, X)
  BY <1>2, <1>14, <1>15, <1>16, <1>17, <1>18, <1>20, <1>21, <1>22, <1>23, Zenon DEF Follows
<1>25. Following(v, g, root, X)
  BY <1>24, <1>F, <1>u DEF Following
<1> QED
  BY <1>0, <1>23, <1>25, <1>g, <1>q, <1>v

\* Before the first visit there is no form yet.
LEMMA StartFollows ==
  ASSUME NEW X, NEW root
  PROVE  Following(StartingWith(root), <<>>, root, X)
<1>s. PICK s : s = StartingWith(root)
  OBVIOUS
<1>1. s.nodes = <<>> /\ s.edges = <<>> /\ s.todo = <<Pending(root, 0, 0)>>
  BY <1>s DEF StartingWith
<1>p. PICK p : p = Pending(root, 0, 0)
  OBVIOUS
<1>2. DOMAIN <<p>> = {1} /\ <<>> \in Seq(X) /\ Len(<<>>) = 0 /\ DOMAIN <<>> = {}
  OBVIOUS
<1>3. ToSet(<<>>) = {}
  BY DEF ToSet
<1>4. Follows(<<>>, {}, <<p>>, <<>>, root, X)
  BY <1>2, <1>p DEF Follows
<1> QED
  BY <1>1, <1>3, <1>4, <1>p, <1>s DEF Following

\* compileTree visits one form after the other.
LEMMA CompileSteps ==
  ASSUME NEW root, NEW size \in Nat
  PROVE  \E f : /\ compileTree(root, size) = f[size] /\ f[0] = StartingWith(root)
               /\ \A n \in Nat : n < size =>
                    f[n + 1] = IF f[n].todo = <<>> THEN f[n] ELSE visit(f[n])
<1> DEFINE f == CHOOSE g : Compiling(g, root, size)
<1>1. compileTree(root, size) = f[size]
  BY Zenon DEF compileTree, Compiling, CompiledAt
<1>2. Compiling(f, root, size)
  BY CompilingExists
<1> HIDE DEF f
<1>3. f[0] = StartingWith(root)
  <2>1. 0 \in 0 .. size
    OBVIOUS
  <2> QED
    BY <1>2, <2>1, Zenon DEF Compiling, CompiledAt
<1>4. ASSUME NEW n \in Nat, n < size
      PROVE  f[n + 1] = IF f[n].todo = <<>> THEN f[n] ELSE visit(f[n])
  <2>1. n + 1 \in 0 .. size /\ n + 1 # 0 /\ (n + 1) - 1 = n
    BY <1>4
  <2>2. f[n + 1] = CompiledAt(root, f, n + 1)
    BY <1>2, <2>1, Zenon DEF Compiling
  <2> QED
    BY <2>1, <2>2, Zenon DEF CompiledAt
<1> QED
  BY <1>1, <1>3, <1>4

\* After so many visits: either all is visited, or each visit made a node; and as
\* long as nothing is rejected, each node has its form.
AfterVisits(done, n, root, X) ==
  /\ InProgress(done, X)
  /\ Len(done.nodes) <= n
  /\ done.todo # <<>> => done.error = "none" /\ Len(done.nodes) = n
  /\ done.error = "none" => \E forms : Following(done, forms, root, X)

\* So it is, as compileTree makes its visits.
LEMMA VisitsFollow ==
  ASSUME NEW X, AreForms(X), NEW root \in X, NEW f, NEW size \in Nat, f[0] = StartingWith(root),
         \A n \in Nat : n < size => f[n + 1] = IF f[n].todo = <<>> THEN f[n] ELSE visit(f[n])
  PROVE  \A n \in Nat : n <= size => AfterVisits(f[n], n, root, X)
<1> DEFINE M == {m \in Nat : m <= size => AfterVisits(f[m], m, root, X)}
<1>1. 0 \in M
  <2>1. InProgress(StartingWith(root), X) /\ Following(StartingWith(root), <<>>, root, X)
    BY StartIsInProgress, StartFollows
  <2>2. StartingWith(root).error = "none" /\ Len(StartingWith(root).nodes) = 0
    BY DEF StartingWith
  <2>3. AfterVisits(StartingWith(root), 0, root, X)
    BY <2>1, <2>2 DEF AfterVisits
  <2> QED
    BY <2>3
<1>2. ASSUME NEW m \in Nat, m \in M PROVE m + 1 \in M
  <2> SUFFICES ASSUME m + 1 <= size PROVE AfterVisits(f[m + 1], m + 1, root, X)
    OBVIOUS
  <2>d. PICK done : done = f[m]
    OBVIOUS
  <2>1. AfterVisits(done, m, root, X) /\ f[m + 1] = IF done.todo = <<>> THEN done ELSE visit(done)
    BY <1>2, <2>d
  <2>2. Len(done.nodes) \in Nat
    BY <2>1 DEF AfterVisits, InProgress, GrowsTo
  <2>3. CASE done.todo = <<>>
    BY <2>1, <2>2, <2>3 DEF AfterVisits
  <2>4. CASE done.todo # <<>>
    <3>1. InProgress(visit(done), X)
      BY <2>1, <2>4, VisitGoesOn DEF AfterVisits, AreForms
    <3>2. CASE visit(done).error = "none"
      <4>1. PICK forms : Following(done, forms, root, X)
        BY <2>1, <2>4 DEF AfterVisits
      <4>2. \E g : Following(visit(done), g, root, X)
        BY <2>1, <2>4, <3>2, <4>1, VisitFollows DEF AfterVisits
      <4>3. Len(visit(done).nodes) = m + 1
        BY <2>1, <2>4, <3>2, <4>1, VisitFollows DEF AfterVisits
      <4> QED
        BY <2>1, <2>4, <3>1, <3>2, <4>2, <4>3 DEF AfterVisits
    <3>3. CASE visit(done).error # "none"
      <4>r. PICK error : visit(done) = Rejected(error)
        <5>1. CASE NodeError(Head(done.todo).expr, Head(done.todo).parent = 0) # "none"
          BY <5>1, Zenon DEF visit
        <5>2. CASE NodeError(Head(done.todo).expr, Head(done.todo).parent = 0) = "none"
          BY <3>3, <5>2 DEF visit
        <5> QED
          BY <5>1, <5>2
      <4>1. visit(done).nodes = <<>> /\ visit(done).todo = <<>>
        BY <4>r DEF Rejected
      <4>2. Len(visit(done).nodes) <= m + 1
        BY <4>1
      <4> QED
        BY <2>1, <2>4, <3>1, <3>3, <4>1, <4>2 DEF AfterVisits
    <3> QED
      BY <3>2, <3>3
  <2> QED
    BY <2>3, <2>4
<1>3. \A m \in Nat : m \in M
  <2> HIDE DEF M
  <2> QED
    BY <1>1, <1>2, NaturalInduction
<1> QED
  BY <1>3

-----------------------------------------------------------------------------
(* Every form is at its place *)

\* When the edges of a node have the indexes from 0 on, each once, there are as
\* many below an index as it says.
LEMMA IndexesCount ==
  ASSUME NEW E, IsFiniteSet(E), NEW m \in Nat,
         \A e \in E : e.index \in 0 .. m - 1,
         \A k \in 0 .. m - 1 : \E e \in E : e.index = k,
         \A e, f \in E : e.index = f.index => e = f,
         NEW j \in 0 .. m
  PROVE  Cardinality({e \in E : e.index < j}) = j
<1> DEFINE S == {e \in E : e.index < j}
           T == 0 .. j - 1
           index == [e \in S |-> e.index]
<1>1. IsFiniteSet(S)
  BY FS_Subset
<1>2. IsFiniteSet(T) /\ Cardinality(T) = j
  <2>1. 0 \in Int /\ j - 1 \in Int /\ (0 > j - 1 <=> j = 0) /\ j - 1 - 0 + 1 = j
    OBVIOUS
  <2>2. IsFiniteSet(T) /\ Cardinality(T) = IF 0 > j - 1 THEN 0 ELSE j - 1 - 0 + 1
    BY <2>1, FS_Interval, Zenon
  <2> QED
    BY <2>1, <2>2
<1>3. index \in Bijection(S, T)
  <2>1. \A e \in S : e.index \in T
    OBVIOUS
  <2>2. \A e, f \in S : e.index = f.index => e = f
    OBVIOUS
  <2>3. \A k \in T : \E e \in S : e.index = k
    <3> SUFFICES ASSUME NEW k \in T PROVE \E e \in S : e.index = k
      OBVIOUS
    <3>1. k \in 0 .. m - 1 /\ k < j
      OBVIOUS
    <3>2. PICK e \in E : e.index = k
      BY <3>1
    <3> QED
      BY <3>1, <3>2
  <2> HIDE DEF S, T
  <2>4. index \in [S -> T] /\ DOMAIN index = S /\ \A e \in S : index[e] = e.index
    BY <2>1
  <2> HIDE DEF index
  <2>5. index \in Injection(S, T)
    BY <2>2, <2>4 DEF Injection, IsInjective
  <2>6. index \in Surjection(S, T)
    BY <2>3, <2>4 DEF Surjection
  <2> QED
    BY <2>5, <2>6 DEF Bijection
<1> QED
  <2> HIDE DEF S, T, index
  <2>1. ExistsBijection(S, T)
    BY <1>3 DEF ExistsBijection
  <2>2. Cardinality(T) = Cardinality(S)
    BY <1>1, <2>1, FS_Bijection
  <2> QED
    BY <1>2, <2>2 DEF S

\* Then childEdges lists them by their index.
LEMMA IndexesOrder ==
  ASSUME NEW tree, IsTree(tree), NEW id, NEW m \in Nat,
         \A e \in EdgesFrom(tree, id) : e.index \in 0 .. m - 1,
         \A k \in 0 .. m - 1 : \E e \in EdgesFrom(tree, id) : e.index = k,
         \A e, f \in EdgesFrom(tree, id) : e.index = f.index => e = f
  PROVE  /\ DOMAIN childEdges(tree, id) = 1 .. m
         /\ \A k \in 1 .. m : /\ childEdges(tree, id)[k] \in EdgesFrom(tree, id)
                              /\ childEdges(tree, id)[k].index = k - 1
<1> DEFINE E == EdgesFrom(tree, id)
           s == childEdges(tree, id)
<1>0. s = [k \in 1 .. Cardinality(E) |-> CHOOSE e \in E : Cardinality({f \in E : earlier(f, e)}) = k - 1]
  BY Zenon DEF childEdges, EdgesFrom
<1>1. IsFiniteSet(E)
  <2>1. IsFiniteSet(ToSet(tree.edges))
    BY FinitelyManyElements DEF IsTree
  <2> QED
    BY <2>1, FS_Subset DEF EdgesFrom
<1>2. /\ \A e \in E : e.index \in 0 .. m - 1
      /\ \A k \in 0 .. m - 1 : \E e \in E : e.index = k
      /\ \A e, f \in E : e.index = f.index => e = f
  OBVIOUS
<1>3. \A e \in E : e.child \in Nat
  <2>1. DOMAIN tree.nodes \subseteq Nat
    BY DEF IsTree
  <2> QED
    BY <2>1 DEF EdgesFrom, IsTree
<1> HIDE DEF E, s
<1>4. \A j \in 0 .. m : Cardinality({e \in E : e.index < j}) = j
  BY <1>1, <1>2, IndexesCount
<1>5. ASSUME NEW e \in E PROVE Cardinality({f \in E : earlier(f, e)}) = e.index
  <2>1. {f \in E : earlier(f, e)} = {f \in E : f.index < e.index}
    <3>1. \A f \in E : earlier(f, e) <=> f.index < e.index
      BY <1>2, <1>3 DEF earlier
    <3> QED
      BY <3>1
  <2>j. PICK j : j = e.index
    OBVIOUS
  <2>2. j \in 0 .. m
    BY <1>2, <2>j
  <2>3. Cardinality({f \in E : f.index < j}) = j
    BY <1>4, <2>2
  <2> QED
    BY <2>1, <2>3, <2>j
<1>6. Cardinality(E) = m
  <2>1. {e \in E : e.index < m} = E
    BY <1>2
  <2>2. Cardinality({e \in E : e.index < m}) = m
    BY <1>4
  <2> QED
    BY <2>1, <2>2
<1>7. s = [k \in 1 .. m |-> CHOOSE e \in E : Cardinality({f \in E : earlier(f, e)}) = k - 1]
  BY <1>0, <1>6, Zenon
<1>8. ASSUME NEW k \in 1 .. m PROVE s[k] \in E /\ s[k].index = k - 1
  <2>1. s[k] = CHOOSE e \in E : Cardinality({f \in E : earlier(f, e)}) = k - 1
    BY <1>7, Zenon
  <2>2. k - 1 \in 0 .. m - 1
    OBVIOUS
  <2>3. \E e \in E : Cardinality({f \in E : earlier(f, e)}) = k - 1
    <3>1. PICK e \in E : e.index = k - 1
      BY <1>2, <2>2
    <3> QED
      BY <1>5, <3>1
  <2>4. s[k] \in E /\ Cardinality({f \in E : earlier(f, s[k])}) = k - 1
    BY <2>1, <2>3, Zenon
  <2> QED
    BY <1>5, <2>4
<1>9. DOMAIN s = 1 .. m
  BY <1>7, Zenon
<1> QED
  BY <1>8, <1>9 DEF E, s

\* The edges of a node lead to the forms in its own, in the order they are written.
ChildrenOf(tree, forms, id) ==
  /\ DOMAIN childEdges(tree, id) = 1 .. ChildCount(forms[id])
  /\ \A k \in 1 .. ChildCount(forms[id]) :
       /\ IsParent(forms[id])
       /\ forms[childEdges(tree, id)[k].child] = forms[id].items[k + 1]

\* That is so when all is visited.
LEMMA ChildrenAreForms ==
  ASSUME NEW tree, IsTree(tree), NEW X, AreForms(X), NEW root, NEW forms,
         Follows(tree.nodes, ToSet(tree.edges), <<>>, forms, root, X), NEW id \in DOMAIN forms
  PROVE  ChildrenOf(tree, forms, id)
<1>m. PICK m \in Nat : m = ChildCount(forms[id])
  BY DEF Follows
<1>E. PICK E : E = EdgesFrom(tree, id)
  OBVIOUS
<1>1. /\ \A e \in E : e \in ToSet(tree.edges) /\ e.parent = id
      /\ \A e \in ToSet(tree.edges) : e.parent = id => e \in E
  BY <1>E DEF EdgesFrom
<1>2. \A e \in E : WrittenAt(forms, e, forms[e.child])
  BY <1>1 DEF Follows
<1>3. \A e \in E : IsParent(forms[id]) /\ e.index \in 0 .. Len(forms[id].items) - 2
                  /\ forms[e.child] = forms[id].items[e.index + 2]
  BY <1>1, <1>2 DEF WrittenAt
<1>4. IsParent(forms[id]) => m = Len(forms[id].items) - 1 /\ Len(forms[id].items) \in Nat
  <2>1. forms[id].items \in Seq(X)
    <3>1. forms[id] \in X
      <4>1. forms \in Seq(X)
        BY DEF Follows
      <4> QED
        BY <4>1, ElementOfSeq
    <3> QED
      BY <3>1 DEF AreForms, AreExpressions
  <2> QED
    BY <1>m, <2>1 DEF ChildCount
<1>5. \A e \in E : e.index \in 0 .. m - 1
  BY <1>3, <1>4
<1>6. ASSUME NEW k \in 0 .. m - 1 PROVE \E e \in E : e.index = k
  <2>1. IsParent(forms[id])
    BY <1>m DEF ChildCount
  <2>2. k \in 0 .. Len(forms[id].items) - 2
    BY <1>4, <2>1
  <2>3. DOMAIN <<>> = {}
    OBVIOUS
  <2>4. \E e \in ToSet(tree.edges) : e.parent = id /\ e.index = k
    BY <2>1, <2>2, <2>3 DEF Follows
  <2> QED
    BY <1>1, <2>4
<1>7. \A e, f \in E : e.index = f.index => e = f
  <2>1. \A e, f \in ToSet(tree.edges) : SameSlot(e, f) => e = f
    BY DEF Follows
  <2> QED
    BY <1>1, <2>1 DEF SameSlot
<1>s. PICK s : s = childEdges(tree, id)
  OBVIOUS
<1>8. DOMAIN s = 1 .. m /\ \A k \in 1 .. m : s[k] \in E /\ s[k].index = k - 1
  BY <1>5, <1>6, <1>7, <1>E, <1>s, IndexesOrder
<1>9. ASSUME NEW k \in 1 .. m
      PROVE  IsParent(forms[id]) /\ forms[s[k].child] = forms[id].items[k + 1]
  <2>1. s[k] \in E /\ s[k].index = k - 1
    BY <1>8
  <2>2. (k - 1) + 2 = k + 1
    OBVIOUS
  <2> QED
    BY <1>3, <2>1, <2>2
<1> QED
  BY <1>8, <1>9, <1>m, <1>s DEF ChildrenOf

\* What formsIn defines by recursion.
FormsAt(root, f, d) ==
  IF d = 0 THEN {<< <<0>>, root>>} ELSE LET above == f[d - 1] IN above \cup formsBelow(above)

Forms(f, root, depth) == f = [d \in 0 .. depth |-> FormsAt(root, f, d)]

\* formsIn is well defined.
LEMMA FormsExist ==
  ASSUME NEW root, NEW depth \in Nat
  PROVE  \E f : Forms(f, root, depth)
<1> DEFINE N == {n \in Nat : \E f : \A d \in 0 .. n : f[d] = FormsAt(root, f, d)}
<1>1. 0 \in N
  <2> DEFINE f == [d \in {0} |-> {<< <<0>>, root>>}]
  <2>1. \A d \in 0 .. 0 : d = 0
    OBVIOUS
  <2>2. \A d \in 0 .. 0 : f[d] = FormsAt(root, f, d)
    BY <2>1, Zenon DEF FormsAt
  <2> QED
    BY <2>2
<1>2. ASSUME NEW n \in Nat, n \in N PROVE n + 1 \in N
  <2>1. PICK f : \A d \in 0 .. n : f[d] = FormsAt(root, f, d)
    BY <1>2
  <2> DEFINE g == [d \in 0 .. n + 1 |-> FormsAt(root, f, d)]
  <2>2. \A d \in 0 .. n : d \in 0 .. n + 1
    OBVIOUS
  <2>3. \A d \in 0 .. n : g[d] = f[d]
    BY <2>1, <2>2, Zenon
  <2>4. \A d \in 0 .. n + 1 : d # 0 => d - 1 \in 0 .. n
    OBVIOUS
  <2>5. ASSUME NEW d \in 0 .. n + 1 PROVE g[d] = FormsAt(root, g, d)
    <3>1. g[d] = FormsAt(root, f, d)
      BY Zenon
    <3>2. d # 0 => g[d - 1] = f[d - 1]
      BY <2>3, <2>4, Zenon
    <3> HIDE DEF g
    <3> QED
      BY <3>1, <3>2, Zenon DEF FormsAt
  <2> HIDE DEF g
  <2> QED
    BY <2>5
<1>3. \A n \in Nat : n \in N
  <2> HIDE DEF N
  <2> QED
    BY <1>1, <1>2, NaturalInduction
<1>4. PICK f : \A d \in 0 .. depth : f[d] = FormsAt(root, f, d)
  BY <1>3
<1> DEFINE h == [d \in 0 .. depth |-> f[d]]
<1>5. ASSUME NEW d \in 0 .. depth PROVE f[d] = FormsAt(root, h, d)
  <2>1. d # 0 => d - 1 \in 0 .. depth
    OBVIOUS
  <2>2. d # 0 => h[d - 1] = f[d - 1]
    BY <2>1, Zenon
  <2>3. f[d] = FormsAt(root, f, d)
    BY <1>4
  <2> HIDE DEF h
  <2> QED
    BY <2>2, <2>3, Zenon DEF FormsAt
<1>6. Forms(h, root, depth)
  BY <1>5, Zenon DEF Forms
<1> QED
  BY <1>6

\* The forms down to each level.
LevelsTo(f, root, depth) ==
  /\ formsIn(root, depth) = f[depth] /\ f[0] = {<< <<0>>, root>>}
  /\ \A d \in Nat : d < depth => f[d + 1] = f[d] \cup formsBelow(f[d])

\* formsIn goes down level by level.
LEMMA FormsSteps ==
  ASSUME NEW root, NEW depth \in Nat
  PROVE  \E f : LevelsTo(f, root, depth)
<1> DEFINE f == CHOOSE g : Forms(g, root, depth)
<1>1. formsIn(root, depth) = f[depth]
  BY Zenon DEF formsIn, Forms, FormsAt
<1>2. Forms(f, root, depth)
  BY FormsExist
<1> HIDE DEF f
<1>3. f[0] = {<< <<0>>, root>>}
  <2>1. 0 \in 0 .. depth
    OBVIOUS
  <2> QED
    BY <1>2, <2>1, Zenon DEF Forms, FormsAt
<1>4. ASSUME NEW d \in Nat, d < depth PROVE f[d + 1] = f[d] \cup formsBelow(f[d])
  <2>1. d + 1 \in 0 .. depth /\ d + 1 # 0 /\ (d + 1) - 1 = d
    BY <1>4
  <2>2. f[d + 1] = FormsAt(root, f, d + 1)
    BY <1>2, <2>1, Zenon DEF Forms
  <2> QED
    BY <2>1, <2>2, Zenon DEF FormsAt
<1> QED
  BY <1>1, <1>3, <1>4 DEF LevelsTo

\* When all is visited, the path map of the tree has a node at the place of every form
\* and nowhere else, with the kind and the name written there.
LEMMA PlacesOfForms ==
  ASSUME NEW tree, IsTree(tree), NEW X, AreForms(X), NEW root, NEW forms,
         Follows(tree.nodes, ToSet(tree.edges), <<>>, forms, root, X),
         NEW size \in Nat, Len(tree.nodes) <= size
  PROVE  LET map == toPathMap(tree)
         IN  {<<path, labelFor(map[path])>> : path \in DOMAIN map}
               = {<<f[1], formLabel(f[2])>> : f \in formsIn(root, size)}
<1>n. PICK n \in Nat : n = Len(tree.nodes) /\ DOMAIN tree.nodes = 1 .. n /\ n # 0 /\ n <= size
  BY DEF IsTree
<1>1. DOMAIN forms = 1 .. n /\ forms # <<>> /\ forms[1] = root
      /\ \A i \in 1 .. n : labelFor(tree.nodes[i]) = formLabel(forms[i])
  <2>1. forms \in Seq(X) /\ Len(forms) = n
    BY <1>n DEF Follows
  <2>2. DOMAIN forms = 1 .. n /\ forms # <<>>
    BY <1>n, <2>1
  <2> QED
    BY <2>2 DEF Follows
<1>V. PICK V : V = visitedPlaces(tree)
  OBVIOUS
<1>m. PICK map : map = toPathMap(tree)
  OBVIOUS
<1>2. ArePlacesOf(V, tree)
  BY <1>V, VisitsPlaces
<1>3. DOMAIN map = {p[1] : p \in V}
  BY <1>V, <1>m, Zenon DEF toPathMap
<1>4. \A p \in V : p[2] \in 1 .. n /\ labelFor(map[p[1]]) = formLabel(forms[p[2]])
  <2> SUFFICES ASSUME NEW p \in V PROVE p[2] \in 1 .. n /\ labelFor(map[p[1]]) = formLabel(forms[p[2]])
    OBVIOUS
  <2>1. p[2] \in 1 .. n
    BY <1>2, <1>n DEF ArePlacesOf, IsPlaceIn
  <2>2. labelFor(map[p[1]]) = labelFor(tree.nodes[p[2]])
    BY <1>V, <1>m, MapAtPlace
  <2> QED
    BY <1>1, <2>1, <2>2
<1>5. \A p \in V : /\ IsPlaceIn(tree, p) /\ Len(p[1]) \in Nat /\ Len(p[1]) # 0 /\ Len(p[1]) <= n
  <2> SUFFICES ASSUME NEW p \in V
               PROVE  IsPlaceIn(tree, p) /\ Len(p[1]) \in Nat /\ Len(p[1]) # 0 /\ Len(p[1]) <= n
    OBVIOUS
  <2>1. IsPlaceIn(tree, p)
    BY <1>2 DEF ArePlacesOf
  <2>2. p[1] \in Seq(Nat) /\ p[1] # <<>> /\ p[2] \in 1 .. n /\ Len(p[1]) <= p[2]
    BY <1>n, <2>1 DEF IsPlaceIn
  <2> QED
    BY <2>1, <2>2
\* The children of a node that has a place are right below it.
<1>6. ASSUME NEW p \in V, NEW c, c = ChildCount(forms[p[2]]), NEW s, s = childEdges(tree, p[2])
      PROVE  /\ DOMAIN s = 1 .. c
             /\ \A k \in 1 .. c : IsParent(forms[p[2]]) /\ forms[s[k].child] = forms[p[2]].items[k + 1]
  <2>1. p[2] \in DOMAIN forms
    BY <1>1, <1>4
  <2>i. PICK id \in DOMAIN forms : id = p[2]
    BY <2>1
  <2>2. ChildrenOf(tree, forms, id)
    BY ChildrenAreForms
  <2> QED
    BY <1>6, <2>2, <2>i DEF ChildrenOf
<1>l. PICK g : LevelsTo(g, root, size)
  BY FormsSteps
<1>g. /\ formsIn(root, size) = g[size] /\ g[0] = {<< <<0>>, root>>}
      /\ \A d \in Nat : d < size => g[d + 1] = g[d] \cup formsBelow(g[d])
  BY <1>l DEF LevelsTo
<1>7. ASSUME NEW p \in V, NEW k \in Nat, NEW s, s = childEdges(tree, p[2]), k + 1 \in DOMAIN s,
             NEW q, q = <<Append(p[1], k), s[k + 1].child>>, NEW W, <<p[1], forms[p[2]]>> \in W
      PROVE  <<q[1], forms[q[2]]>> \in formsBelow(W)
  <2>w. PICK w : w = <<p[1], forms[p[2]]>>
    OBVIOUS
  <2>c. PICK c : c = ChildCount(forms[p[2]])
    OBVIOUS
  <2>1. k + 1 \in 1 .. c /\ IsParent(forms[p[2]]) /\ forms[s[k + 1].child] = forms[p[2]].items[(k + 1) + 1]
    BY <1>6, <1>7, <2>c
  <2>2. w \in W /\ w[1] = p[1] /\ w[2] = forms[p[2]]
    BY <1>7, <2>w
  <2>i. PICK i \in Nat : i = k + 2
    OBVIOUS
  <2>3. i \in 2 .. Len(w[2].items) /\ i - 2 = k /\ (k + 1) + 1 = i
    BY <2>1, <2>2, <2>c, <2>i DEF ChildCount
  <2>4. w \in {v \in W : v[2].type = "list" /\ v[2].items[1].symbol \in Composites}
    BY <2>1, <2>2 DEF IsParent
  <2>5. <<Append(w[1], i - 2), w[2].items[i]>> \in formsBelow(W)
    <3>1. <<Append(w[1], i - 2), w[2].items[i]>>
            \in {<<Append(w[1], j - 2), w[2].items[j]>> : j \in 2 .. Len(w[2].items)}
      BY <2>3, Zenon
    <3> QED
      BY <2>4, <3>1, Zenon DEF formsBelow
  <2>6. Append(w[1], i - 2) = q[1] /\ w[2].items[i] = forms[q[2]]
    BY <1>7, <2>1, <2>2, <2>3
  <2> QED
    BY <2>5, <2>6
\* A place so far down is that of a form.
<1>8. ASSUME NEW m \in Nat
      PROVE  m <= size => \A p \in V : Len(p[1]) <= m + 1 => <<p[1], forms[p[2]]>> \in g[m]
  <2> DEFINE M == {d \in Nat : d <= size => \A p \in V : Len(p[1]) <= d + 1 => <<p[1], forms[p[2]]>> \in g[d]}
             r == << <<0>>, 1 >>
  <2>1. ASSUME NEW p \in V, p # r
        PROVE  \E o \in V, k \in Nat :
                 LET s == childEdges(tree, o[2])
                 IN  k + 1 \in DOMAIN s /\ p = <<Append(o[1], k), s[k + 1].child>> /\ Len(p[1]) = Len(o[1]) + 1
    <3>1. PICK o \in V : p \in PlacesBelow(tree, o)
      BY <1>2, <2>1 DEF ArePlacesOf
    <3>s. PICK s : s = childEdges(tree, o[2])
      OBVIOUS
    <3>2. PICK i \in DOMAIN s : p = <<Append(o[1], i - 1), s[i].child>>
      BY <3>1, <3>s DEF PlacesBelow
    <3>3. s \in Seq(EdgesFrom(tree, o[2]))
      BY <3>s, ChildEdgesList
    <3>k. PICK k \in Nat : k = i - 1 /\ i = k + 1
      BY <3>3
    <3>4. Len(p[1]) = Len(o[1]) + 1
      BY <1>5, <3>1, BelowIsPlace
    <3>5. p = <<Append(o[1], k), s[k + 1].child>> /\ k + 1 \in DOMAIN s
      BY <3>2, <3>k
    <3> QED
      BY <3>4, <3>5, <3>s
  <2>2. 0 \in M
    <3> SUFFICES ASSUME NEW p \in V, Len(p[1]) <= 1 PROVE <<p[1], forms[p[2]]>> \in g[0]
      OBVIOUS
    <3>1. p = r
      <4> SUFFICES ASSUME p # r PROVE FALSE
        OBVIOUS
      <4>1. PICK o \in V : Len(p[1]) = Len(o[1]) + 1
        BY <2>1
      <4> QED
        BY <1>5, <4>1
    <3>2. p[1] = <<0>> /\ p[2] = 1
      BY <3>1
    <3> QED
      BY <1>1, <1>g, <3>2
  <2>3. ASSUME NEW d \in Nat, d \in M PROVE d + 1 \in M
    <3> SUFFICES ASSUME d + 1 <= size, NEW p \in V, Len(p[1]) <= (d + 1) + 1
                 PROVE  <<p[1], forms[p[2]]>> \in g[d + 1]
      OBVIOUS
    <3>1. g[d + 1] = g[d] \cup formsBelow(g[d])
      BY <1>g
    <3>2. \A o \in V : Len(o[1]) <= d + 1 => <<o[1], forms[o[2]]>> \in g[d]
      BY <2>3
    <3>3. CASE p = r
      <4>1. Len(p[1]) = 1
        BY <3>3
      <4>2. Len(p[1]) <= d + 1
        BY <4>1
      <4>3. <<p[1], forms[p[2]]>> \in g[d]
        BY <3>2, <4>2, Zenon
      <4> QED
        BY <3>1, <4>3, Zenon
    <3>4. CASE p # r
      <4>o. PICK o \in V, k \in Nat :
              LET t == childEdges(tree, o[2])
              IN  k + 1 \in DOMAIN t /\ p = <<Append(o[1], k), t[k + 1].child>> /\ Len(p[1]) = Len(o[1]) + 1
        BY <2>1, <3>4
      <4>s. PICK s : s = childEdges(tree, o[2])
        OBVIOUS
      <4>1. /\ s = childEdges(tree, o[2]) /\ k + 1 \in DOMAIN s
            /\ p = <<Append(o[1], k), s[k + 1].child>> /\ Len(p[1]) = Len(o[1]) + 1
        BY <4>o, <4>s
      <4>2. <<o[1], forms[o[2]]>> \in g[d]
        BY <1>5, <3>2, <4>1
      <4>3. <<p[1], forms[p[2]]>> \in formsBelow(g[d])
        BY <1>7, <4>1, <4>2
      <4> QED
        BY <3>1, <4>3, Zenon
    <3> QED
      BY <3>3, <3>4
  <2> HIDE DEF M
  <2>4. \A d \in Nat : d \in M
    BY <2>2, <2>3, NaturalInduction
  <2> QED
    BY <2>4 DEF M
\* A form is at a place of the tree.
<1>9. ASSUME NEW m \in Nat
      PROVE  m <= size => \A w \in g[m] : \E p \in V : w = <<p[1], forms[p[2]]>>
  <2> DEFINE M == {d \in Nat : d <= size => \A w \in g[d] : \E p \in V : w = <<p[1], forms[p[2]]>>}
  <2>1. 0 \in M
    <3>r. PICK r \in V : r = << <<0>>, 1 >>
      BY <1>2 DEF ArePlacesOf
    <3>1. r[1] = <<0>> /\ r[2] = 1
      BY <3>r
    <3> QED
      BY <1>1, <1>g, <3>1
  <2>2. ASSUME NEW d \in Nat, d \in M PROVE d + 1 \in M
    <3> SUFFICES ASSUME d + 1 <= size, NEW w \in g[d + 1] PROVE \E p \in V : w = <<p[1], forms[p[2]]>>
      OBVIOUS
    <3>1. w \in g[d] \/ w \in formsBelow(g[d])
      BY <1>g
    <3>2. \A v \in g[d] : \E p \in V : v = <<p[1], forms[p[2]]>>
      BY <2>2
    <3>3. CASE w \in g[d]
      BY <3>2, <3>3
    <3>4. CASE w \in formsBelow(g[d])
      <4>1. PICK v \in g[d] : \E i \in 2 .. Len(v[2].items) :
               /\ v[2].type = "list" /\ v[2].items[1].symbol \in Composites
               /\ w = <<Append(v[1], i - 2), v[2].items[i]>>
        BY <3>4, Zenon DEF formsBelow
      <4>i. PICK i \in 2 .. Len(v[2].items) :
               /\ v[2].type = "list" /\ v[2].items[1].symbol \in Composites
               /\ w = <<Append(v[1], i - 2), v[2].items[i]>>
        BY <4>1
      <4>2. PICK o \in V : v = <<o[1], forms[o[2]]>>
        BY <3>2
      <4>3. v[1] = o[1] /\ v[2] = forms[o[2]]
        BY <4>2
      <4>c. PICK c : c = ChildCount(forms[o[2]])
        OBVIOUS
      <4>s. PICK s : s = childEdges(tree, o[2])
        OBVIOUS
      <4>k. PICK k \in Nat : k = i - 1
        OBVIOUS
      <4>4. k \in 1 .. c /\ k + 1 = i /\ k - 1 = i - 2
        BY <4>i, <4>3, <4>c, <4>k DEF ChildCount, IsParent
      <4>5. k \in DOMAIN s /\ forms[s[k].child] = forms[o[2]].items[k + 1]
        BY <1>6, <4>4, <4>c, <4>s
      <4>p. PICK p : p = <<Append(o[1], k - 1), s[k].child>>
        OBVIOUS
      <4>6. p \in PlacesBelow(tree, o)
        BY <4>5, <4>p, <4>s, Zenon DEF PlacesBelow
      <4>7. p \in V
        BY <1>2, <4>6 DEF ArePlacesOf
      <4>8. p[1] = Append(o[1], k - 1) /\ p[2] = s[k].child
        BY <4>p
      <4>9. w = <<p[1], forms[p[2]]>>
        BY <4>i, <4>3, <4>4, <4>5, <4>8
      <4> QED
        BY <4>7, <4>9
    <3> QED
      BY <3>1, <3>3, <3>4
  <2> HIDE DEF M
  <2>3. \A d \in Nat : d \in M
    BY <2>1, <2>2, NaturalInduction
  <2> QED
    BY <2>3 DEF M
<1>W. PICK W : W = formsIn(root, size)
  OBVIOUS
<1>10. W = {<<p[1], forms[p[2]]>> : p \in V}
  <2>1. \A p \in V : <<p[1], forms[p[2]]>> \in W
    BY <1>5, <1>8, <1>g, <1>n, <1>W
  <2>2. \A w \in W : \E p \in V : w = <<p[1], forms[p[2]]>>
    BY <1>9, <1>g, <1>W
  <2> QED
    BY <2>1, <2>2
<1>11. {<<path, labelFor(map[path])>> : path \in DOMAIN map} = {<<p[1], formLabel(forms[p[2]])>> : p \in V}
  <2>1. {<<path, labelFor(map[path])>> : path \in DOMAIN map} = {<<p[1], labelFor(map[p[1]])>> : p \in V}
    BY <1>3
  <2> QED
    BY <1>4, <2>1
<1>12. {<<f[1], formLabel(f[2])>> : f \in W} = {<<p[1], formLabel(forms[p[2]])>> : p \in V}
  <2>1. ASSUME NEW f \in W PROVE \E p \in V : f[1] = p[1] /\ f[2] = forms[p[2]]
    <3>1. PICK p \in V : f = <<p[1], forms[p[2]]>>
      BY <1>10
    <3> QED
      BY <3>1
  <2>2. ASSUME NEW p \in V PROVE \E f \in W : f[1] = p[1] /\ f[2] = forms[p[2]]
    <3>f. PICK f : f = <<p[1], forms[p[2]]>>
      OBVIOUS
    <3>1. f \in W
      BY <1>10, <3>f
    <3> QED
      BY <3>1, <3>f
  <2> QED
    BY <2>1, <2>2
<1> QED
  BY <1>11, <1>12, <1>m, <1>W

\* A tree has the forms of an expression at their places, and nothing else.
InPlace(tree, root, depth) ==
  LET map == toPathMap(tree)
  IN  {<<path, labelFor(map[path])>> : path \in DOMAIN map}
        = {<<f[1], formLabel(f[2])>> : f \in formsIn(root, depth)}

\* When all is visited, the path map of what is compiled has a node at the place of
\* every form of the expression and nowhere else, with the kind and the name written
\* there: ids, edges, child indexes and paths agree (visit, toPathMap).
LEMMA FormsAreInPlace ==
  ASSUME NEW X, AreForms(X), NEW root \in X, NEW size \in Nat \ {0},
         compileTree(root, size).error = "none", compileTree(root, size).todo = <<>>
  PROVE  InPlace(definitionOf(compileTree(root, size)), root, size)
<1>c. PICK done : done = compileTree(root, size)
  OBVIOUS
<1>t. PICK tree : tree = definitionOf(done)
  OBVIOUS
<1>1. tree.nodes = done.nodes /\ tree.edges = done.edges
  BY <1>t DEF definitionOf
<1>2. IsTree(tree)
  BY <1>c, <1>t, CompiledAreTrees DEF AreForms
<1>3. AfterVisits(done, size, root, X)
  <2>1. PICK f : /\ compileTree(root, size) = f[size] /\ f[0] = StartingWith(root)
                 /\ \A n \in Nat : n < size => f[n + 1] = IF f[n].todo = <<>> THEN f[n] ELSE visit(f[n])
    BY CompileSteps
  <2>2. \A n \in Nat : n <= size => AfterVisits(f[n], n, root, X)
    BY <2>1, VisitsFollow
  <2> QED
    BY <1>c, <2>1, <2>2
<1>4. PICK forms : Following(done, forms, root, X)
  BY <1>3, <1>c DEF AfterVisits
<1>5. Follows(tree.nodes, ToSet(tree.edges), <<>>, forms, root, X)
  BY <1>1, <1>4, <1>c, Zenon DEF Following
<1>6. Len(tree.nodes) <= size
  BY <1>1, <1>3 DEF AfterVisits
<1>7. InPlace(tree, root, size)
  BY <1>2, <1>5, <1>6, PlacesOfForms DEF InPlace
<1> QED
  BY <1>7, <1>t, <1>c

-----------------------------------------------------------------------------
(* What parseSExpr reads *)

\* The expression at a position, from what is read of the later ones.
OneAt(tokens, from, at) ==
  LET isEnd == at = Len(tokens) + 1
      list == from[at + 1].items
  IN  CASE isEnd \/ tokens[at] = ")" -> SyntaxError
        [] ~isEnd /\ tokens[at] = "(" ->
             IF list.error # "none" THEN list ELSE Read(<<ListOf(list.exprs)>>, list.next)
        [] OTHER -> Read(<<Atom(tokens[at])>>, at + 1)

\* All that is read from a position on.
ParsedAt(tokens, from, at) ==
  LET isEnd == at = Len(tokens) + 1
      one == OneAt(tokens, from, at)
      rest == from[one.next]
  IN  [one |-> one,
       items |-> IF ~isEnd /\ tokens[at] = ")" THEN Read(<<>>, at + 1)
                 ELSE andThen(one, rest.items),
       all |-> IF isEnd THEN Read(<<>>, at) ELSE andThen(one, rest.all)]

\* What parseSExpr defines by recursion.
Parsing(from, tokens) == from = [at \in 1 .. Len(tokens) + 1 |-> ParsedAt(tokens, from, at)]

\* Something is read and what follows comes later, or nothing is read.
GoesOn(read, at, end) == read.error = "none" => read.next \in at + 1 .. end

\* The expression at a position is what comes next in the text, or a list whose items
\* were read before.
OneIs(one, list, word, at, end) ==
  \/ one = SyntaxError
  \/ at # end /\ list.error # "none" /\ one = list
  \/ at # end /\ list.error = "none" /\ one = Read(<<ListOf(list.exprs)>>, list.next)
  \/ at # end /\ one = Read(<<Atom(word)>>, at + 1)

\* So says parseOne.
LEMMA OneCases ==
  ASSUME NEW tokens, NEW from, NEW at
  PROVE  OneIs(OneAt(tokens, from, at), from[at + 1].items, tokens[at], at, Len(tokens) + 1)
<1> DEFINE isEnd == at = Len(tokens) + 1
<1>1. CASE isEnd \/ tokens[at] = ")"
  BY <1>1, Zenon DEF OneAt, OneIs
<1>2. CASE ~isEnd /\ tokens[at] # ")" /\ tokens[at] = "("
  BY <1>2, Zenon DEF OneAt, OneIs
<1>3. CASE ~isEnd /\ tokens[at] # ")" /\ tokens[at] # "("
  BY <1>3, Zenon DEF OneAt, OneIs
<1> QED
  BY <1>1, <1>2, <1>3

\* Its next position is a later one.
LEMMA OneGoesOn ==
  ASSUME NEW tokens, NEW n \in Nat, n = Len(tokens), NEW from, NEW at \in 1 .. n + 1,
         \A d \in at + 1 .. n + 1 : GoesOn(from[d].items, d, n + 1)
  PROVE  GoesOn(OneAt(tokens, from, at), at, n + 1)
<1>o. PICK one : one = OneAt(tokens, from, at)
  OBVIOUS
<1>r. PICK list : list = from[at + 1].items
  OBVIOUS
<1>1. at # n + 1 => at + 1 \in at + 1 .. n + 1 /\ at + 1 \in Nat
  OBVIOUS
<1>2. at # n + 1 => GoesOn(list, at + 1, n + 1)
  BY <1>1, <1>r
<1>i. OneIs(one, list, tokens[at], at, n + 1)
  BY <1>o, <1>r, OneCases, Zenon
<1>3. \/ one = SyntaxError
      \/ at # n + 1 /\ list.error # "none" /\ one = list
      \/ at # n + 1 /\ list.error = "none" /\ one = Read(<<ListOf(list.exprs)>>, list.next)
      \/ at # n + 1 /\ one = Read(<<Atom(tokens[at])>>, at + 1)
  BY <1>i DEF OneIs
<1>4. CASE one = SyntaxError
  BY <1>4, <1>o DEF GoesOn, SyntaxError
<1>5. CASE list.error # "none" /\ one = list
  BY <1>5, <1>o DEF GoesOn
<1>6. CASE at # n + 1 /\ list.error = "none" /\ one = Read(<<ListOf(list.exprs)>>, list.next)
  <2>1. list.next \in at + 1 + 1 .. n + 1
    BY <1>2, <1>6 DEF GoesOn
  <2>2. one.next = list.next
    BY <1>6 DEF Read
  <2> QED
    BY <1>o, <2>1, <2>2 DEF GoesOn
<1>7. CASE at # n + 1 /\ one = Read(<<Atom(tokens[at])>>, at + 1)
  <2>1. one.next = at + 1
    BY <1>7 DEF Read
  <2> QED
    BY <1>7, <1>o, <2>1 DEF GoesOn
<1> QED
  BY <1>3, <1>4, <1>5, <1>6, <1>7

\* What is read from a position on depends on the later ones only.
LEMMA OnlyLater ==
  ASSUME NEW tokens, NEW n \in Nat, n = Len(tokens), NEW f, NEW g, NEW at \in 1 .. n + 1,
         \A d \in at + 1 .. n + 1 : f[d] = g[d] /\ GoesOn(f[d].items, d, n + 1)
  PROVE  /\ ParsedAt(tokens, f, at) = ParsedAt(tokens, g, at)
         /\ GoesOn(ParsedAt(tokens, f, at).items, at, n + 1)
<1>1. at # n + 1 => f[at + 1] = g[at + 1]
  <2>1. at # n + 1 => at + 1 \in at + 1 .. n + 1
    OBVIOUS
  <2> QED
    BY <2>1
<1>2. OneAt(tokens, f, at) = OneAt(tokens, g, at)
  <2>1. CASE at = n + 1
    BY <2>1, Zenon DEF OneAt
  <2>2. CASE at # n + 1
    BY <1>1, <2>2, Zenon DEF OneAt
  <2> QED
    BY <2>1, <2>2
<1>o. PICK one : one = OneAt(tokens, f, at)
  OBVIOUS
<1>3. GoesOn(one, at, n + 1)
  BY <1>o, OneGoesOn
<1>4. one.error = "none" => f[one.next] = g[one.next] /\ GoesOn(f[one.next].items, one.next, n + 1)
                            /\ one.next \in at + 1 .. n + 1
  BY <1>3 DEF GoesOn
<1>5. andThen(one, f[one.next].items) = andThen(one, g[one.next].items)
      /\ andThen(one, f[one.next].all) = andThen(one, g[one.next].all)
  <2>1. CASE one.error # "none"
    BY <2>1, Zenon DEF andThen
  <2>2. CASE one.error = "none"
    BY <1>4, <2>2, Zenon
  <2> QED
    BY <2>1, <2>2
<1>6. ParsedAt(tokens, f, at) = ParsedAt(tokens, g, at)
  BY <1>2, <1>5, <1>o, Zenon DEF ParsedAt
<1>7. GoesOn(andThen(one, f[one.next].items), at, n + 1)
  <2>m. PICK more : more = f[one.next].items
    OBVIOUS
  <2>1. CASE one.error # "none"
    BY <2>1, <1>3 DEF andThen
  <2>2. CASE one.error = "none" /\ more.error # "none"
    BY <2>2, <2>m DEF andThen, GoesOn
  <2>3. CASE one.error = "none" /\ more.error = "none"
    <3>1. andThen(one, more).next = more.next
      BY <2>3 DEF andThen, Read
    <3>2. more.next \in one.next + 1 .. n + 1
      BY <1>4, <2>3, <2>m DEF GoesOn
    <3> QED
      BY <1>4, <2>3, <2>m, <3>1, <3>2 DEF GoesOn
  <2> QED
    BY <2>1, <2>2, <2>3, <2>m DEF GoesOn
<1>8. CASE at # n + 1 /\ tokens[at] = ")"
  <2>1. ParsedAt(tokens, f, at).items = Read(<<>>, at + 1)
    BY <1>8 DEF ParsedAt
  <2> QED
    BY <1>6, <1>8, <2>1 DEF GoesOn, Read
<1>9. CASE ~(at # n + 1 /\ tokens[at] = ")")
  <2>1. ParsedAt(tokens, f, at).items = andThen(one, f[one.next].items)
    BY <1>9, <1>o DEF ParsedAt
  <2> QED
    BY <1>6, <1>7, <2>1
<1> QED
  BY <1>8, <1>9

\* parseSExpr is well defined.
LEMMA ParsingExists ==
  ASSUME NEW tokens, NEW n \in Nat, n = Len(tokens)
  PROVE  \E f : Parsing(f, tokens)
<1> DEFINE Fits(f, d) == f[d] = ParsedAt(tokens, f, d) /\ GoesOn(f[d].items, d, n + 1)
           K == {k \in Nat : k <= n => \E f : \A d \in (n + 1) - k .. n + 1 : Fits(f, d)}
\* What is read at one more position.
<1>0. ASSUME NEW at \in 1 .. n + 1, NEW f, \A d \in at + 1 .. n + 1 : Fits(f, d)
      PROVE  \E g : \A d \in at .. n + 1 : Fits(g, d)
  <2> DEFINE g == [d \in at .. n + 1 |-> IF d = at THEN ParsedAt(tokens, f, at) ELSE f[d]]
  <2>1. \A d \in at + 1 .. n + 1 : d \in at .. n + 1 /\ d # at
    OBVIOUS
  <2>2. \A d \in at + 1 .. n + 1 : g[d] = f[d]
    BY <2>1, Zenon
  <2>3. g[at] = ParsedAt(tokens, f, at)
    <3>1. at \in at .. n + 1
      OBVIOUS
    <3> QED
      BY <3>1, Zenon
  <2> HIDE DEF g
  <2>4. ASSUME NEW d \in at .. n + 1 PROVE Fits(g, d)
    <3>d. d \in 1 .. n + 1
      OBVIOUS
    <3>1. \A c \in d + 1 .. n + 1 : c \in at + 1 .. n + 1
      OBVIOUS
    <3>2. \A c \in d + 1 .. n + 1 : f[c] = g[c] /\ GoesOn(f[c].items, c, n + 1)
      BY <1>0, <2>2, <3>1
    <3>3. ParsedAt(tokens, f, d) = ParsedAt(tokens, g, d) /\ GoesOn(ParsedAt(tokens, f, d).items, d, n + 1)
      BY <3>d, <3>2, OnlyLater
    <3>4. g[d] = ParsedAt(tokens, f, d)
      <4>1. CASE d = at
        BY <2>3, <4>1
      <4>2. CASE d # at
        <5>1. d \in at + 1 .. n + 1
          BY <4>2
        <5> QED
          BY <1>0, <2>2, <5>1
      <4> QED
        BY <4>1, <4>2
    <3> QED
      BY <3>3, <3>4
  <2> QED
    BY <2>4
<1>1. 0 \in K
  <2>1. PICK f : f = <<>>
    OBVIOUS
  <2>2. n + 1 \in 1 .. n + 1 /\ \A d \in (n + 1) + 1 .. n + 1 : Fits(f, d)
    OBVIOUS
  <2>3. \E g : \A d \in n + 1 .. n + 1 : Fits(g, d)
    BY <1>0, <2>2
  <2>4. (n + 1) - 0 = n + 1
    OBVIOUS
  <2> QED
    BY <2>3, <2>4
<1>2. ASSUME NEW k \in Nat, k \in K PROVE k + 1 \in K
  <2> SUFFICES ASSUME k + 1 <= n
               PROVE  \E f : \A d \in (n + 1) - (k + 1) .. n + 1 : Fits(f, d)
    OBVIOUS
  <2>1. PICK f : \A d \in (n + 1) - k .. n + 1 : Fits(f, d)
    BY <1>2
  <2>a. PICK at \in 1 .. n + 1 : at = (n + 1) - (k + 1) /\ at + 1 = (n + 1) - k
    OBVIOUS
  <2>2. \A d \in at + 1 .. n + 1 : Fits(f, d)
    BY <2>1, <2>a
  <2>3. \E g : \A d \in at .. n + 1 : Fits(g, d)
    BY <1>0, <2>2
  <2> QED
    BY <2>3, <2>a
<1>3. \A k \in Nat : k \in K
  <2> HIDE DEF K
  <2> QED
    BY <1>1, <1>2, NaturalInduction
<1>4. \E f : \A d \in 1 .. n + 1 : Fits(f, d)
  <2>1. n \in K /\ (n + 1) - n = 1
    BY <1>3
  <2> QED
    BY <2>1
<1>5. PICK f : \A d \in 1 .. n + 1 : Fits(f, d)
  BY <1>4
<1> DEFINE h == [d \in 1 .. n + 1 |-> f[d]]
<1>6. \A d \in 1 .. n + 1 : h[d] = f[d]
  BY Zenon
<1>7. ASSUME NEW d \in 1 .. n + 1 PROVE f[d] = ParsedAt(tokens, h, d)
  <2>1. \A c \in d + 1 .. n + 1 : c \in 1 .. n + 1
    OBVIOUS
  <2> HIDE DEF h
  <2>2. \A c \in d + 1 .. n + 1 : f[c] = h[c] /\ GoesOn(f[c].items, c, n + 1)
    BY <1>5, <1>6, <2>1
  <2>3. ParsedAt(tokens, f, d) = ParsedAt(tokens, h, d)
    BY <2>2, OnlyLater
  <2> QED
    BY <1>5, <2>3
<1>8. Parsing(h, tokens)
  BY <1>7, Zenon DEF Parsing
<1> QED
  BY <1>8

\* What follows what is read comes later, whichever function is chosen.
LEMMA ParsedGoesOn ==
  ASSUME NEW tokens, NEW n \in Nat, n = Len(tokens), NEW from, Parsing(from, tokens)
  PROVE  \A d \in 1 .. n + 1 : GoesOn(from[d].items, d, n + 1)
<1>1. ASSUME NEW at \in 1 .. n + 1, \A d \in at + 1 .. n + 1 : GoesOn(from[d].items, d, n + 1)
      PROVE  GoesOn(from[at].items, at, n + 1)
  <2>1. GoesOn(ParsedAt(tokens, from, at).items, at, n + 1)
    BY <1>1, OnlyLater
  <2>2. from[at] = ParsedAt(tokens, from, at)
    BY Zenon DEF Parsing
  <2> QED
    BY <2>1, <2>2
<1> DEFINE K == {k \in Nat : k <= n => \A d \in (n + 1) - k .. n + 1 : GoesOn(from[d].items, d, n + 1)}
<1>2. 0 \in K
  <2>1. \A d \in (n + 1) - 0 .. n + 1 : d \in 1 .. n + 1 /\ \A c \in d + 1 .. n + 1 : FALSE
    OBVIOUS
  <2>2. \A d \in (n + 1) - 0 .. n + 1 : GoesOn(from[d].items, d, n + 1)
    BY <1>1, <2>1
  <2> QED
    BY <2>2
<1>3. ASSUME NEW k \in Nat, k \in K PROVE k + 1 \in K
  <2> SUFFICES ASSUME k + 1 <= n, NEW d \in (n + 1) - (k + 1) .. n + 1
               PROVE  GoesOn(from[d].items, d, n + 1)
    OBVIOUS
  <2>1. \A c \in (n + 1) - k .. n + 1 : GoesOn(from[c].items, c, n + 1)
    BY <1>3
  <2>2. d \in 1 .. n + 1 /\ \A c \in d + 1 .. n + 1 : c \in (n + 1) - k .. n + 1
    OBVIOUS
  <2> QED
    BY <1>1, <2>1, <2>2
<1>4. \A k \in Nat : k \in K
  <2> HIDE DEF K
  <2> QED
    BY <1>2, <1>3, NaturalInduction
<1>5. n \in K /\ (n + 1) - n = 1
  BY <1>4
<1> QED
  BY <1>5

-----------------------------------------------------------------------------
(* What is read lies in the order of the text *)

\* The expression read at a position.
ReadAt(from, e, p) == from[p].one.error = "none" /\ from[p].one.exprs = <<e>>

\* All expressions that are read somewhere among the tokens.
Written(from, n) == {from[p].one.exprs[1] : p \in {q \in 1 .. n : from[q].one.error = "none"}}

\* Expressions that were read one behind the other, between two positions.
Spread(from, n, s, lo, hi) ==
  \E t \in [DOMAIN s -> 1 .. n] :
    /\ \A i \in DOMAIN s : ReadAt(from, s[i], t[i]) /\ lo <= t[i] /\ from[t[i]].one.next <= hi
    /\ \A i, j \in DOMAIN s : i < j => from[t[i]].one.next <= t[j]

\* A list of such expressions.
Laid(from, n, s, lo, hi) == s \in Seq(Written(from, n)) /\ Spread(from, n, s, lo, hi)

\* No expressions need no place.
LEMMA NoneLaid == ASSUME NEW from, NEW n, NEW lo, NEW hi PROVE Laid(from, n, <<>>, lo, hi)
<1>1. <<>> \in Seq(Written(from, n)) /\ DOMAIN <<>> = {} /\ <<>> \in [{} -> 1 .. n]
  OBVIOUS
<1> QED
  BY <1>1 DEF Laid, Spread

\* One expression and those behind it.
LEMMA OneMoreLaid ==
  ASSUME NEW from, NEW n \in Nat, NEW e, NEW p \in 1 .. n, ReadAt(from, e, p),
         NEW next \in Nat, next = from[p].one.next, p < next, NEW hi \in Nat, next <= hi,
         NEW s, Laid(from, n, s, next, hi)
  PROVE  Laid(from, n, <<e>> \o s, p, hi)
<1>W. PICK W : W = Written(from, n)
  OBVIOUS
<1>1. e \in W
  <2>1. from[p].one.exprs[1] = e /\ p \in {q \in 1 .. n : from[q].one.error = "none"}
    BY DEF ReadAt
  <2> QED
    BY <1>W, <2>1 DEF Written
<1>2. s \in Seq(W) /\ Spread(from, n, s, next, hi)
  BY <1>W DEF Laid
<1>l. PICK l \in Nat : l = Len(s) /\ DOMAIN s = 1 .. l
  BY <1>2
<1>r. PICK r : r = <<e>> \o s
  OBVIOUS
<1>3. r \in Seq(W) /\ DOMAIN r = 1 .. l + 1 /\ r[1] = e /\ \A i \in 2 .. l + 1 : r[i] = s[i - 1]
  BY <1>1, <1>2, <1>l, <1>r
<1>4. PICK u \in [1 .. l -> 1 .. n] :
        /\ \A i \in 1 .. l : ReadAt(from, s[i], u[i]) /\ next <= u[i] /\ from[u[i]].one.next <= hi
        /\ \A i, j \in 1 .. l : i < j => from[u[i]].one.next <= u[j]
  BY <1>2, <1>l DEF Spread
<1> DEFINE t == [i \in 1 .. l + 1 |-> IF i = 1 THEN p ELSE u[i - 1]]
<1>5. t \in [1 .. l + 1 -> 1 .. n] /\ t[1] = p /\ \A i \in 2 .. l + 1 : t[i] = u[i - 1]
  <2>1. \A i \in 2 .. l + 1 : i - 1 \in 1 .. l /\ i # 1 /\ i \in 1 .. l + 1
    OBVIOUS
  <2>2. 1 \in 1 .. l + 1 /\ \A i \in 1 .. l + 1 : i # 1 => i \in 2 .. l + 1
    OBVIOUS
  <2>3. t[1] = p
    BY <2>2, Zenon
  <2>4. \A i \in 2 .. l + 1 : t[i] = u[i - 1]
    BY <2>1, Zenon
  <2>5. \A i \in 2 .. l + 1 : u[i - 1] \in 1 .. n
    BY <2>1
  <2>6. \A i \in 1 .. l + 1 : (IF i = 1 THEN p ELSE u[i - 1]) \in 1 .. n
    BY <2>2, <2>5
  <2>7. t \in [1 .. l + 1 -> 1 .. n]
    BY <2>6
  <2> QED
    BY <2>3, <2>4, <2>7
<1> HIDE DEF t
<1>6. ASSUME NEW i \in 1 .. l + 1
      PROVE  ReadAt(from, r[i], t[i]) /\ p <= t[i] /\ from[t[i]].one.next <= hi
  <2>1. CASE i = 1
    BY <1>3, <1>5, <2>1
  <2>2. CASE i # 1
    <3>k. PICK k \in 1 .. l : k = i - 1
      BY <2>2
    <3>1. i \in 2 .. l + 1
      BY <2>2
    <3>2. r[i] = s[k] /\ t[i] = u[k]
      BY <1>3, <1>5, <3>1, <3>k
    <3>3. ReadAt(from, s[k], u[k]) /\ next <= u[k] /\ from[u[k]].one.next <= hi /\ u[k] \in 1 .. n
      BY <1>4
    <3> QED
      BY <3>2, <3>3
  <2> QED
    BY <2>1, <2>2
<1>7. ASSUME NEW i \in 1 .. l + 1, NEW j \in 1 .. l + 1, i < j
      PROVE  from[t[i]].one.next <= t[j]
  <2>k. PICK k \in 1 .. l : k = j - 1
    BY <1>7
  <2>1. t[j] = u[k] /\ next <= u[k]
    <3>1. j \in 2 .. l + 1
      BY <1>7
    <3> QED
      BY <1>4, <1>5, <2>k, <3>1
  <2>2. CASE i = 1
    BY <1>5, <2>1, <2>2
  <2>3. CASE i # 1
    <3>m. PICK m \in 1 .. l : m = i - 1
      BY <2>3
    <3>1. i \in 2 .. l + 1 /\ m < k
      BY <1>7, <2>3, <2>k, <3>m
    <3> QED
      BY <1>4, <1>5, <2>1, <3>1, <3>m
  <2> QED
    BY <2>2, <2>3
<1>8. Spread(from, n, r, p, hi)
  BY <1>3, <1>5, <1>6, <1>7 DEF Spread
<1> QED
  BY <1>3, <1>8, <1>W, <1>r DEF Laid

\* What is read from a position on lies behind it, and the items of an expression
\* within it.
LaidAt(from, n, d) ==
  /\ GoesOn(from[d].one, d, n + 1)
  /\ from[d].one.error = "none" =>
       d \in 1 .. n /\ \E e : /\ from[d].one.exprs = <<e>> /\ e.type \in {"atom", "list"}
                             /\ Laid(from, n, e.items, d + 1, from[d].one.next)
  /\ from[d].items.error = "none" => Laid(from, n, from[d].items.exprs, d, from[d].items.next)
  /\ from[d].all.error = "none" => Laid(from, n, from[d].all.exprs, d, n + 1)

\* Adding more keeps it laid.
LEMMA AndThenLaid ==
  ASSUME NEW from, NEW n \in Nat, NEW d \in 1 .. n, NEW one, one = from[d].one, one.error = "none",
         GoesOn(one, d, n + 1), NEW e, one.exprs = <<e>>,
         NEW more, NEW end \in Nat, one.next <= end,
         more.error = "none" => Laid(from, n, more.exprs, one.next, end),
         andThen(one, more).error = "none"
  PROVE  Laid(from, n, andThen(one, more).exprs, d, end)
<1>1. more.error = "none" /\ andThen(one, more).exprs = <<e>> \o more.exprs
  <2>1. CASE more.error # "none"
    BY <2>1 DEF andThen
  <2>2. CASE more.error = "none"
    BY <2>2 DEF andThen, Read
  <2> QED
    BY <2>1, <2>2
<1>k. PICK k : k = one.next
  OBVIOUS
<1>2. k \in Nat /\ d < k /\ k <= end /\ k = from[d].one.next /\ ReadAt(from, e, d)
  BY <1>k DEF GoesOn, ReadAt
<1>s. PICK s : s = more.exprs
  OBVIOUS
<1>3. Laid(from, n, s, k, end)
  BY <1>1, <1>k, <1>s
<1>4. Laid(from, n, <<e>> \o s, d, end)
  BY <1>2, <1>3, OneMoreLaid
<1> QED
  BY <1>1, <1>4, <1>s

\* So it is at every position.
LEMMA ReadsAreLaid ==
  ASSUME NEW tokens, NEW n \in Nat, n = Len(tokens), NEW from, Parsing(from, tokens),
         \A d \in 1 .. n + 1 : GoesOn(from[d].items, d, n + 1)
  PROVE  \A d \in 1 .. n + 1 : LaidAt(from, n, d)
<1>1. ASSUME NEW at \in 1 .. n + 1, \A d \in at + 1 .. n + 1 : LaidAt(from, n, d)
      PROVE  LaidAt(from, n, at)
  <2>o. PICK one : one = OneAt(tokens, from, at)
    OBVIOUS
  <2>i. PICK items : items = from[at].items
    OBVIOUS
  <2>a. PICK all : all = from[at].all
    OBVIOUS
  <2>r. PICK rest : rest = from[one.next]
    OBVIOUS
  <2>l. PICK list : list = from[at + 1].items
    OBVIOUS
  <2>1. from[at] = ParsedAt(tokens, from, at)
    BY Zenon DEF Parsing
  <2>2. /\ from[at].one = one
        /\ items = IF at # n + 1 /\ tokens[at] = ")" THEN Read(<<>>, at + 1) ELSE andThen(one, rest.items)
        /\ all = IF at = n + 1 THEN Read(<<>>, at) ELSE andThen(one, rest.all)
    <3>p. PICK whole : whole = ParsedAt(tokens, from, at)
      OBVIOUS
    <3>1. /\ whole.one = one
          /\ whole.items = IF at # n + 1 /\ tokens[at] = ")" THEN Read(<<>>, at + 1) ELSE andThen(one, rest.items)
          /\ whole.all = IF at = n + 1 THEN Read(<<>>, at) ELSE andThen(one, rest.all)
      BY <2>o, <2>r, <3>p DEF ParsedAt
    <3> QED
      BY <2>1, <2>i, <2>a, <3>1, <3>p
  <2>3. GoesOn(one, at, n + 1)
    BY <2>o, OneGoesOn
  <2>4. OneIs(one, list, tokens[at], at, n + 1)
    BY <2>o, <2>l, OneCases, Zenon
  <2>5. one.error = "none" =>
          at \in 1 .. n /\ \E e : /\ one.exprs = <<e>> /\ e.type \in {"atom", "list"}
                                 /\ Laid(from, n, e.items, at + 1, one.next)
    <3>1. CASE one = SyntaxError
      BY <3>1 DEF SyntaxError
    <3>2. CASE list.error # "none" /\ one = list
      BY <3>2
    <3>3. CASE at # n + 1 /\ list.error = "none" /\ one = Read(<<ListOf(list.exprs)>>, list.next)
      <4>e. PICK e : e = ListOf(list.exprs)
        OBVIOUS
      <4>1. e.type = "list" /\ e.items = list.exprs /\ one.exprs = <<e>> /\ one.next = list.next
        BY <3>3, <4>e DEF ListOf, Read
      <4>2. at + 1 \in at + 1 .. n + 1 /\ at \in 1 .. n
        BY <3>3
      <4>3. Laid(from, n, list.exprs, at + 1, list.next)
        BY <1>1, <3>3, <4>2, <2>l DEF LaidAt
      <4> QED
        BY <4>1, <4>2, <4>3
    <3>4. CASE at # n + 1 /\ one = Read(<<Atom(tokens[at])>>, at + 1)
      <4>e. PICK e : e = Atom(tokens[at])
        OBVIOUS
      <4>1. e.type = "atom" /\ e.items = <<>> /\ one.exprs = <<e>>
        BY <3>4, <4>e DEF Atom, Read
      <4>2. Laid(from, n, e.items, at + 1, one.next)
        BY <4>1, NoneLaid, Zenon
      <4> QED
        BY <3>4, <4>1, <4>2
    <3> QED
      BY <2>4, <3>1, <3>2, <3>3, <3>4 DEF OneIs
  <2>6. one.error = "none" => one.next \in at + 1 .. n + 1 /\ LaidAt(from, n, one.next)
    BY <1>1, <2>3 DEF GoesOn
  <2>7. items.error = "none" => Laid(from, n, items.exprs, at, items.next)
    <3>1. CASE at # n + 1 /\ tokens[at] = ")"
      <4>1. items.exprs = <<>>
        BY <2>2, <3>1 DEF Read
      <4> QED
        BY <4>1, NoneLaid, Zenon
    <3>2. CASE ~(at # n + 1 /\ tokens[at] = ")")
      <4> SUFFICES ASSUME items.error = "none" PROVE Laid(from, n, items.exprs, at, items.next)
        OBVIOUS
      <4>m. PICK more : more = rest.items
        OBVIOUS
      <4>1. items = andThen(one, more)
        BY <2>2, <3>2, <4>m
      <4>2. one.error = "none" /\ more.error = "none" /\ items.next = more.next
        <5>1. CASE one.error # "none"
          BY <4>1, <5>1 DEF andThen
        <5>2. CASE one.error = "none" /\ more.error # "none"
          BY <4>1, <5>2 DEF andThen
        <5>3. CASE one.error = "none" /\ more.error = "none"
          BY <4>1, <5>3 DEF andThen, Read
        <5> QED
          BY <5>1, <5>2, <5>3
      <4>3. one.next \in at + 1 .. n + 1 /\ more = from[one.next].items
        BY <2>6, <2>r, <4>2, <4>m
      <4>4. more.next \in one.next + 1 .. n + 1
        <5>1. one.next \in 1 .. n + 1
          BY <4>3
        <5>2. GoesOn(more, one.next, n + 1)
          BY <4>3, <5>1
        <5> QED
          BY <4>2, <5>2 DEF GoesOn
      <4>5. Laid(from, n, more.exprs, one.next, more.next)
        BY <2>6, <4>2, <4>3 DEF LaidAt
      <4>6. PICK e : one.exprs = <<e>>
        BY <2>5, <4>2
      <4>k. PICK end \in Nat : end = more.next /\ one.next <= end
        BY <4>3, <4>4
      <4>7. Laid(from, n, andThen(one, more).exprs, at, end)
        BY <2>2, <2>3, <2>5, <4>1, <4>2, <4>5, <4>6, <4>k, AndThenLaid
      <4> QED
        BY <4>1, <4>2, <4>7, <4>k
    <3> QED
      BY <3>1, <3>2
  <2>8. all.error = "none" => Laid(from, n, all.exprs, at, n + 1)
    <3>1. CASE at = n + 1
      <4>1. all.exprs = <<>>
        BY <2>2, <3>1 DEF Read
      <4> QED
        BY <4>1, NoneLaid, Zenon
    <3>2. CASE at # n + 1
      <4> SUFFICES ASSUME all.error = "none" PROVE Laid(from, n, all.exprs, at, n + 1)
        OBVIOUS
      <4>m. PICK more : more = rest.all
        OBVIOUS
      <4>1. all = andThen(one, more)
        BY <2>2, <3>2, <4>m
      <4>2. one.error = "none"
        BY <4>1 DEF andThen
      <4>3. one.next \in at + 1 .. n + 1 /\ more = from[one.next].all
        BY <2>6, <2>r, <4>2, <4>m
      <4>5. more.error = "none" => Laid(from, n, more.exprs, one.next, n + 1)
        BY <2>6, <4>2, <4>3 DEF LaidAt
      <4>6. PICK e : one.exprs = <<e>>
        BY <2>5, <4>2
      <4>k. PICK end \in Nat : end = n + 1 /\ one.next <= end
        BY <4>3
      <4>7. Laid(from, n, andThen(one, more).exprs, at, end)
        BY <2>2, <2>3, <2>5, <4>1, <4>2, <4>5, <4>6, <4>k, AndThenLaid
      <4> QED
        BY <4>1, <4>7, <4>k
    <3> QED
      BY <3>1, <3>2
  <2> QED
    BY <2>2, <2>3, <2>5, <2>7, <2>8, <2>i, <2>a DEF LaidAt
<1> DEFINE K == {k \in Nat : k <= n => \A d \in (n + 1) - k .. n + 1 : LaidAt(from, n, d)}
<1>2. 0 \in K
  <2>1. \A d \in (n + 1) - 0 .. n + 1 : d \in 1 .. n + 1 /\ \A c \in d + 1 .. n + 1 : FALSE
    OBVIOUS
  <2>2. \A d \in (n + 1) - 0 .. n + 1 : LaidAt(from, n, d)
    BY <1>1, <2>1
  <2> QED
    BY <2>2
<1>3. ASSUME NEW k \in Nat, k \in K PROVE k + 1 \in K
  <2> SUFFICES ASSUME k + 1 <= n, NEW d \in (n + 1) - (k + 1) .. n + 1 PROVE LaidAt(from, n, d)
    OBVIOUS
  <2>1. \A c \in (n + 1) - k .. n + 1 : LaidAt(from, n, c)
    BY <1>3
  <2>2. d \in 1 .. n + 1 /\ \A c \in d + 1 .. n + 1 : c \in (n + 1) - k .. n + 1
    OBVIOUS
  <2> QED
    BY <1>1, <2>1, <2>2
<1>4. \A k \in Nat : k \in K
  <2> HIDE DEF K
  <2> QED
    BY <1>2, <1>3, NaturalInduction
<1>5. n \in K /\ (n + 1) - n = 1
  BY <1>4
<1> QED
  BY <1>5

\* All that is read is laid, at each of the positions.
AllLaid(from, n) == \A d \in 1 .. n + 1 : LaidAt(from, n, d)

\* What is read at a position, when something is.
LEMMA FormAt ==
  ASSUME NEW from, NEW n \in Nat, AllLaid(from, n), NEW e, NEW p \in 1 .. n, ReadAt(from, e, p)
  PROVE  /\ from[p].one.next \in p + 1 .. n + 1 /\ e.type \in {"atom", "list"}
         /\ Laid(from, n, e.items, p + 1, from[p].one.next)
<1>1. LaidAt(from, n, p) /\ from[p].one.error = "none" /\ from[p].one.exprs = <<e>>
  <2>1. p \in 1 .. n + 1
    OBVIOUS
  <2> QED
    BY <2>1 DEF AllLaid, ReadAt
<1>2. PICK x : /\ from[p].one.exprs = <<x>> /\ x.type \in {"atom", "list"}
               /\ Laid(from, n, x.items, p + 1, from[p].one.next)
  BY <1>1 DEF LaidAt
<1>3. x = e
  <2>1. <<x>> = <<e>>
    BY <1>1, <1>2
  <2> QED
    BY <2>1
<1>4. from[p].one.next \in p + 1 .. n + 1
  BY <1>1 DEF LaidAt, GoesOn
<1> QED
  BY <1>2, <1>3, <1>4

\* All expressions that are read are forms.
LEMMA WrittenAreForms ==
  ASSUME NEW from, NEW n \in Nat, AllLaid(from, n)
  PROVE  AreForms(Written(from, n))
<1> SUFFICES ASSUME NEW x \in Written(from, n)
             PROVE  x.items \in Seq(Written(from, n)) /\ x.type \in {"atom", "list"}
  BY DEF AreForms, AreExpressions
<1>1. PICK p \in 1 .. n : from[p].one.error = "none" /\ x = from[p].one.exprs[1]
  BY DEF Written
<1>2. ReadAt(from, x, p)
  <2>1. LaidAt(from, n, p)
    BY DEF AllLaid
  <2>2. PICK e : from[p].one.exprs = <<e>>
    BY <1>1, <2>1 DEF LaidAt
  <2>3. e = x
    BY <1>1, <2>2
  <2> QED
    BY <1>1, <2>2, <2>3 DEF ReadAt
<1> QED
  BY <1>2, FormAt DEF Laid

\* The tree of a text is one of the expressions that are read.
LEMMA RootIsRead ==
  ASSUME NEW from, NEW n \in Nat, AllLaid(from, n), NEW exprs, Laid(from, n, exprs, 1, n + 1),
         NEW found, found = resolveTreeRoot(exprs), found.error = "none"
  PROVE  \E p \in 1 .. n : ReadAt(from, found.expr, p)
<1>W. PICK W : W = Written(from, n)
  OBVIOUS
<1>1. exprs # <<>>
  <2> SUFFICES ASSUME exprs = <<>> PROVE found.error = "syntax"
    OBVIOUS
  <2> QED
    BY DEF resolveTreeRoot
<1>f. PICK first : first = exprs[1]
  OBVIOUS
<1>2. \/ found.expr = first
      \/ \E w \in {2, 3} : ~(Len(first.items) < w) /\ found.expr = first.items[w]
  <2>1. CASE exprs = <<>> \/ (first.type = "list" /\ first.items = <<>>)
    BY <1>f, <2>1 DEF resolveTreeRoot
  <2>2. CASE /\ ~(exprs = <<>> \/ (first.type = "list" /\ first.items = <<>>))
             /\ first.type = "atom"
    BY <1>f, <2>2 DEF resolveTreeRoot
  <2>3. CASE /\ ~(exprs = <<>> \/ (first.type = "list" /\ first.items = <<>>))
             /\ first.type # "atom"
    <3>1. CASE first.items[1].symbol = "defbt"
      BY <1>f, <2>3, <3>1 DEF resolveTreeRoot
    <3>2. CASE first.items[1].symbol = "bt"
      BY <1>f, <2>3, <3>2 DEF resolveTreeRoot
    <3>3. CASE first.items[1].symbol \notin {"bt", "defbt"}
      BY <1>f, <2>3, <3>3 DEF resolveTreeRoot
    <3> QED
      BY <3>1, <3>2, <3>3
  <2> QED
    BY <2>1, <2>2, <2>3
<1>3. PICK p \in 1 .. n : ReadAt(from, first, p)
  <2>1. exprs \in Seq(W) /\ Spread(from, n, exprs, 1, n + 1)
    BY <1>W DEF Laid
  <2>2. 1 \in DOMAIN exprs
    BY <1>1, <2>1
  <2>3. PICK t \in [DOMAIN exprs -> 1 .. n] : \A i \in DOMAIN exprs : ReadAt(from, exprs[i], t[i])
    BY <2>1 DEF Spread
  <2> QED
    BY <1>f, <2>2, <2>3
<1>4. CASE found.expr = first
  BY <1>3, <1>4
<1>5. ASSUME NEW w \in {2, 3}, ~(Len(first.items) < w), found.expr = first.items[w]
      PROVE  \E q \in 1 .. n : ReadAt(from, found.expr, q)
  <2>i. PICK items : items = first.items
    OBVIOUS
  <2>1. Laid(from, n, items, p + 1, from[p].one.next)
    BY <1>3, <2>i, FormAt
  <2>2. items \in Seq(W) /\ Spread(from, n, items, p + 1, from[p].one.next)
    BY <2>1, <1>W DEF Laid
  <2>3. w \in DOMAIN items
    BY <1>5, <2>2, <2>i
  <2>4. PICK t \in [DOMAIN items -> 1 .. n] : \A i \in DOMAIN items : ReadAt(from, items[i], t[i])
    BY <2>2 DEF Spread
  <2> QED
    BY <1>5, <2>3, <2>4, <2>i
<1> QED
  BY <1>2, <1>4, <1>5

-----------------------------------------------------------------------------
(* All forms are visited *)

\* The expressions that are still to be visited.
ExprsOf(todo) == [i \in DOMAIN todo |-> todo[i].expr]

\* Those are in the same order.
LEMMA ExprsInOrder ==
  ASSUME NEW todo
  PROVE  \E x : x = ExprsOf(todo) /\ DOMAIN x = DOMAIN todo /\ \A i \in DOMAIN todo : x[i] = todo[i].expr
<1>1. PICK x : x = ExprsOf(todo)
  OBVIOUS
<1>2. DOMAIN x = DOMAIN todo /\ \A i \in DOMAIN todo : x[i] = todo[i].expr
  BY <1>1 DEF ExprsOf
<1> QED
  BY <1>1, <1>2

\* They lie behind as many positions as there are nodes.
Ahead(from, n, done) == Spread(from, n, ExprsOf(done.todo), Len(done.nodes) + 1, n + 1)

\* With nothing to do, that is so.
LEMMA NothingAhead ==
  ASSUME NEW from, NEW n \in Nat, NEW done, done.todo = <<>>
  PROVE  Ahead(from, n, done)
<1>x. PICK x : x = ExprsOf(done.todo)
  OBVIOUS
<1>1. DOMAIN x = {}
  <2>1. DOMAIN x = DOMAIN done.todo
    BY <1>x, Zenon DEF ExprsOf
  <2>2. DOMAIN <<>> = {}
    OBVIOUS
  <2> QED
    BY <2>1, <2>2
<1>2. PICK t : t \in [{} -> 1 .. n]
  <2>1. <<>> \in [{} -> 1 .. n]
    OBVIOUS
  <2> QED
    BY <2>1
<1>3. t \in [DOMAIN x -> 1 .. n]
  BY <1>1, <1>2, Zenon
<1>4. Spread(from, n, x, Len(done.nodes) + 1, n + 1)
  BY <1>1, <1>3 DEF Spread
<1> QED
  BY <1>4, <1>x DEF Ahead

\* A visit makes one node, and puts the children of the form where it was.
LEMMA VisitAhead ==
  ASSUME NEW from, NEW n \in Nat, AllLaid(from, n), NEW X, X = Written(from, n),
         NEW done, InProgress(done, X), done.todo # <<>>, visit(done).error = "none",
         Ahead(from, n, done)
  PROVE  Ahead(from, n, visit(done))
<1>X. AreForms(X)
  BY WrittenAreForms
<1>v. PICK after : after = visit(done)
  OBVIOUS
<1>a. PICK at \in [expr : X, parent : Nat, index : Nat], m \in Nat, c \in Nat :
        Adds(done, after, at, m, c)
  BY <1>X, <1>v, VisitAdds
<1>q. PICK q : q = done.todo
  OBVIOUS
<1>w. PICK w : w = after.todo
  OBVIOUS
<1>e. PICK e : e = at.expr
  OBVIOUS
<1>1. /\ m = Len(done.nodes) /\ at = q[1] /\ 1 \in DOMAIN q /\ c = ChildCount(e)
      /\ \A i \in DOMAIN w :
           \/ i \in 1 .. c /\ w[i] = Pending(e.items[i + 1], m + 1, i - 1)
           \/ \E j \in DOMAIN q : j # 1 /\ i = c + j - 1 /\ w[i] = q[j]
  BY <1>a, <1>q, <1>w, <1>e DEF Adds
<1>2. Len(after.nodes) = m + 1
  <2>1. GrowsTo(after.nodes, after.edges)
    BY <1>X, <1>v, VisitGoesOn DEF InProgress, AreForms
  <2>2. DOMAIN after.nodes = 1 .. m + 1
    BY <1>a DEF Adds
  <2>3. Len(after.nodes) \in Nat /\ DOMAIN after.nodes = 1 .. Len(after.nodes)
    BY <2>1 DEF GrowsTo
  <2> QED
    BY <2>2, <2>3
<1>x. PICK x : x = ExprsOf(q) /\ DOMAIN x = DOMAIN q /\ \A j \in DOMAIN q : x[j] = q[j].expr
  BY ExprsInOrder, Zenon
<1>y. PICK y : y = ExprsOf(w) /\ DOMAIN y = DOMAIN w /\ \A i \in DOMAIN w : y[i] = w[i].expr
  BY ExprsInOrder, Zenon
<1>3. DOMAIN q \subseteq Nat \ {0}
  <2>1. q \in Seq([expr : X, parent : Nat, index : Nat])
    BY <1>q DEF InProgress
  <2> QED
    BY <2>1
<1>4. PICK t \in [DOMAIN q -> 1 .. n] :
        /\ \A j \in DOMAIN q : ReadAt(from, x[j], t[j]) /\ m + 1 <= t[j] /\ from[t[j]].one.next <= n + 1
        /\ \A j, k \in DOMAIN q : j < k => from[t[j]].one.next <= t[k]
  <2>1. Spread(from, n, x, m + 1, n + 1)
    BY <1>1, <1>q, <1>x DEF Ahead
  <2> QED
    BY <2>1, <1>x DEF Spread
<1>p. PICK p \in 1 .. n : p = t[1] /\ ReadAt(from, e, p) /\ m + 1 <= p
  BY <1>1, <1>4, <1>x, <1>e
<1>5. /\ from[p].one.next \in p + 1 .. n + 1 /\ e.type \in {"atom", "list"}
      /\ Laid(from, n, e.items, p + 1, from[p].one.next)
  BY <1>p, FormAt
<1>n. PICK next \in p + 1 .. n + 1 : next = from[p].one.next
  BY <1>5
<1>s. PICK s : s = e.items
  OBVIOUS
<1>6. s \in Seq(X) /\ Spread(from, n, s, p + 1, next)
  BY <1>5, <1>n, <1>s DEF Laid
<1>7. PICK u \in [DOMAIN s -> 1 .. n] :
        /\ \A i \in DOMAIN s : ReadAt(from, s[i], u[i]) /\ p + 1 <= u[i] /\ from[u[i]].one.next <= next
        /\ \A i, j \in DOMAIN s : i < j => from[u[i]].one.next <= u[j]
  BY <1>6 DEF Spread
<1>8. \A i \in 1 .. c : i + 1 \in DOMAIN s
  BY <1>1, <1>6, <1>s DEF ChildCount
<1>9. \A j \in DOMAIN q : j # 1 => next <= t[j]
  <2> SUFFICES ASSUME NEW j \in DOMAIN q, j # 1 PROVE next <= t[j]
    OBVIOUS
  <2>1. 1 < j
    BY <1>3
  <2> QED
    BY <1>1, <1>4, <1>p, <1>n, <2>1
\* Each expression to be visited next has its position.
<1> DEFINE IsChild(i, k) == i \in 1 .. c /\ k = u[i + 1] /\ y[i] = s[i + 1]
           IsOther(i, k) == \E j \in DOMAIN q : j # 1 /\ i = c + j - 1 /\ k = t[j] /\ y[i] = x[j]
           Chosen(i) == CHOOSE k : IsChild(i, k) \/ IsOther(i, k)
           r == [i \in DOMAIN w |-> Chosen(i)]
<1>10. ASSUME NEW i \in DOMAIN w PROVE IsChild(i, r[i]) \/ IsOther(i, r[i])
  <2>1. \E k : IsChild(i, k) \/ IsOther(i, k)
    <3>1. CASE i \in 1 .. c /\ w[i] = Pending(e.items[i + 1], m + 1, i - 1)
      <4>1. y[i] = s[i + 1]
        BY <3>1, <1>y, <1>s DEF Pending
      <4> QED
        BY <3>1, <4>1
    <3>2. ASSUME NEW j \in DOMAIN q, j # 1, i = c + j - 1, w[i] = q[j] PROVE \E k : IsOther(i, k)
      <4>1. y[i] = x[j]
        BY <3>2, <1>x, <1>y
      <4> QED
        BY <3>2, <4>1
    <3> QED
      BY <1>1, <3>1, <3>2
  <2>2. r[i] = CHOOSE k : IsChild(i, k) \/ IsOther(i, k)
    BY Zenon
  <2> HIDE DEF IsChild, IsOther, r
  <2> QED
    BY <2>1, <2>2, Zenon
<1>11. DOMAIN r = DOMAIN w
  BY Zenon
<1>12. ASSUME NEW i, NEW k, IsChild(i, k)
       PROVE  /\ k \in 1 .. n /\ ReadAt(from, y[i], k) /\ (m + 1) + 1 <= k
              /\ from[k].one.next \in Nat /\ from[k].one.next <= next
  <2>1. i + 1 \in DOMAIN s
    BY <1>8, <1>12
  <2>2. k \in 1 .. n /\ ReadAt(from, y[i], k) /\ p + 1 <= k /\ from[k].one.next <= next
    BY <1>7, <1>12, <2>1
  <2>3. from[k].one.next \in k + 1 .. n + 1
    BY <2>2, FormAt
  <2> QED
    BY <1>p, <2>2, <2>3
<1>13. ASSUME NEW i, NEW k, IsOther(i, k)
       PROVE  /\ k \in 1 .. n /\ ReadAt(from, y[i], k) /\ (m + 1) + 1 <= k
              /\ from[k].one.next <= n + 1 /\ next <= k /\ c < i
  <2>1. PICK j \in DOMAIN q : j # 1 /\ i = c + j - 1 /\ k = t[j] /\ y[i] = x[j]
    BY <1>13
  <2>2. k \in 1 .. n /\ ReadAt(from, y[i], k) /\ from[k].one.next <= n + 1 /\ next <= k
    BY <1>4, <1>9, <2>1
  <2>3. j \in Nat /\ 1 < j
    BY <1>3, <2>1
  <2> QED
    BY <1>p, <2>1, <2>2, <2>3
<1>14. ASSUME NEW i \in DOMAIN w, NEW j \in DOMAIN w, i < j
       PROVE  from[r[i]].one.next <= r[j]
  <2> DEFINE k == r[i]
             l == r[j]
  <2>0. (IsChild(i, k) \/ IsOther(i, k)) /\ (IsChild(j, l) \/ IsOther(j, l))
    BY <1>10
  <2> HIDE DEF r
  <2>1. CASE IsChild(i, k) /\ IsChild(j, l)
    <3>1. i + 1 \in DOMAIN s /\ j + 1 \in DOMAIN s /\ i + 1 < j + 1
      BY <1>8, <1>14, <2>1
    <3> QED
      BY <1>7, <2>1, <3>1
  <2>2. CASE IsChild(i, k) /\ IsOther(j, l)
    <3>1. from[k].one.next \in Nat /\ from[k].one.next <= next
      BY <1>12, <2>2
    <3>2. next <= l /\ l \in 1 .. n
      BY <1>13, <2>2
    <3> QED
      BY <3>1, <3>2
  <2>3. CASE IsOther(i, k) /\ IsChild(j, l)
    <3>1. j \in 1 .. c /\ c < i
      BY <1>13, <2>3
    <3>2. PICK a \in DOMAIN q : i = c + a - 1
      BY <2>3
    <3>3. i \in Int
      BY <1>3, <3>2
    <3> QED
      BY <1>14, <3>1, <3>3
  <2>4. CASE IsOther(i, k) /\ IsOther(j, l)
    <3>1. PICK a \in DOMAIN q : i = c + a - 1 /\ k = t[a]
      BY <2>4
    <3>2. PICK b \in DOMAIN q : j = c + b - 1 /\ l = t[b]
      BY <2>4
    <3>3. a < b
      BY <1>3, <1>14, <3>1, <3>2
    <3> QED
      BY <1>4, <3>1, <3>2, <3>3
  <2> QED
    BY <2>0, <2>1, <2>2, <2>3, <2>4
<1>15. ASSUME NEW i \in DOMAIN w
       PROVE  /\ r[i] \in 1 .. n /\ ReadAt(from, y[i], r[i]) /\ (m + 1) + 1 <= r[i]
              /\ from[r[i]].one.next <= n + 1
  <2> DEFINE k == r[i]
  <2>0. IsChild(i, k) \/ IsOther(i, k)
    BY <1>10
  <2> HIDE DEF r
  <2>1. CASE IsChild(i, k)
    BY <1>12, <2>1
  <2>2. CASE IsOther(i, k)
    BY <1>13, <2>2
  <2> QED
    BY <2>0, <2>1, <2>2
<1>16. r \in [DOMAIN y -> 1 .. n]
  <2>1. \A i \in DOMAIN w : Chosen(i) \in 1 .. n
    <3>1. \A i \in DOMAIN w : r[i] = Chosen(i)
      BY Zenon
    <3> HIDE DEF r, Chosen
    <3> QED
      BY <1>15, <3>1
  <2> HIDE DEF Chosen
  <2> QED
    BY <1>y, <2>1
<1> HIDE DEF r, Chosen, IsChild, IsOther
<1>17. Spread(from, n, y, (m + 1) + 1, n + 1)
  BY <1>14, <1>15, <1>16, <1>y DEF Spread
<1> QED
  BY <1>2, <1>17, <1>v, <1>w, <1>y DEF Ahead

\* After as many visits as there are tokens nothing is left to visit.
LEMMA AllVisited ==
  ASSUME NEW from, NEW n \in Nat, AllLaid(from, n), NEW root, NEW p \in 1 .. n, ReadAt(from, root, p)
  PROVE  compileTree(root, n).todo = <<>>
<1>X. PICK X : X = Written(from, n)
  OBVIOUS
<1>1. AreForms(X) /\ root \in X
  <2>1. AreForms(X)
    BY <1>X, WrittenAreForms
  <2>2. from[p].one.exprs[1] = root /\ p \in {q \in 1 .. n : from[q].one.error = "none"}
    BY DEF ReadAt
  <2>3. root \in X
    BY <1>X, <2>2 DEF Written
  <2> QED
    BY <2>1, <2>3
<1>f. PICK f : /\ compileTree(root, n) = f[n] /\ f[0] = StartingWith(root)
               /\ \A k \in Nat : k < n => f[k + 1] = IF f[k].todo = <<>> THEN f[k] ELSE visit(f[k])
  BY CompileSteps
<1>2. \A k \in Nat : k <= n => AfterVisits(f[k], k, root, X)
  BY <1>1, <1>f, VisitsFollow
<1> DEFINE M == {k \in Nat : k <= n => Ahead(from, n, f[k])}
<1>3. 0 \in M
  <2>a. PICK start : start = StartingWith(root)
    OBVIOUS
  <2>p. PICK first : first = Pending(root, 0, 0)
    OBVIOUS
  <2>b. first.expr = root
    BY <2>p DEF Pending
  <2>1. start.todo = <<first>> /\ start.nodes = <<>>
    BY <2>a, <2>p DEF StartingWith
  <2>x. PICK x : /\ x = ExprsOf(start.todo) /\ DOMAIN x = DOMAIN start.todo
                 /\ \A i \in DOMAIN start.todo : x[i] = start.todo[i].expr
    BY ExprsInOrder, Zenon
  <2>2. DOMAIN start.todo = {1} /\ start.todo[1] = first /\ Len(start.nodes) + 1 = 1
    BY <2>1
  <2>3. DOMAIN x = {1} /\ x[1] = root
    BY <2>b, <2>x, <2>2
  <2>t. PICK t \in [{1} -> 1 .. n] : t[1] = p
    <3>1. [i \in {1} |-> p] \in [{1} -> 1 .. n]
      OBVIOUS
    <3> QED
      BY <3>1
  <2>4. from[p].one.next <= n + 1
    BY FormAt
  <2>5. Spread(from, n, x, 1, n + 1)
    <3>1. t \in [DOMAIN x -> 1 .. n]
      BY <2>3, <2>t, Zenon
    <3> QED
      BY <2>3, <2>4, <2>t, <3>1 DEF Spread
  <2>6. Ahead(from, n, start)
    BY <2>2, <2>5, <2>x DEF Ahead
  <2> QED
    BY <1>f, <2>6, <2>a
<1>4. ASSUME NEW k \in Nat, k \in M PROVE k + 1 \in M
  <2> SUFFICES ASSUME k + 1 <= n PROVE Ahead(from, n, f[k + 1])
    OBVIOUS
  <2>d. PICK done : done = f[k]
    OBVIOUS
  <2>1. /\ Ahead(from, n, done) /\ AfterVisits(done, k, root, X)
        /\ f[k + 1] = IF done.todo = <<>> THEN done ELSE visit(done)
    BY <1>2, <1>4, <1>f, <2>d
  <2>2. CASE done.todo = <<>>
    BY <2>1, <2>2
  <2>3. CASE done.todo # <<>> /\ visit(done).error = "none"
    <3>1. InProgress(done, X)
      BY <2>1 DEF AfterVisits
    <3> QED
      BY <1>X, <2>1, <2>3, <3>1, VisitAhead
  <2>4. CASE done.todo # <<>> /\ visit(done).error # "none"
    <3>1. visit(done).todo = <<>>
      <4>1. CASE NodeError(Head(done.todo).expr, Head(done.todo).parent = 0) # "none"
        BY <4>1 DEF visit, Rejected
      <4>2. CASE NodeError(Head(done.todo).expr, Head(done.todo).parent = 0) = "none"
        BY <2>4, <4>2 DEF visit
      <4> QED
        BY <4>1, <4>2
    <3> QED
      BY <2>1, <2>4, <3>1, NothingAhead
  <2> QED
    BY <2>2, <2>3, <2>4
<1>5. \A k \in Nat : k \in M
  <2> HIDE DEF M
  <2> QED
    BY <1>3, <1>4, NaturalInduction
<1>d. PICK done : done = compileTree(root, n)
  OBVIOUS
<1>6. Ahead(from, n, done) /\ AfterVisits(done, n, root, X)
  BY <1>2, <1>5, <1>d, <1>f
<1>7. done.todo = <<>>
  <2> SUFFICES ASSUME done.todo # <<>> PROVE FALSE
    OBVIOUS
  <2>1. Len(done.nodes) = n
    BY <1>6 DEF AfterVisits
  <2>2. 1 \in DOMAIN done.todo
    BY <1>6 DEF AfterVisits, InProgress
  <2>x. PICK x : /\ x = ExprsOf(done.todo) /\ DOMAIN x = DOMAIN done.todo
                 /\ \A i \in DOMAIN done.todo : x[i] = done.todo[i].expr
    BY ExprsInOrder, Zenon
  <2>3. Spread(from, n, x, n + 1, n + 1)
    BY <1>6, <2>1, <2>x DEF Ahead
  <2>4. PICK t \in [DOMAIN x -> 1 .. n] : \A i \in DOMAIN x : n + 1 <= t[i]
    BY <2>3 DEF Spread
  <2>5. t[1] \in 1 .. n /\ n + 1 <= t[1]
    BY <2>2, <2>4, <2>x
  <2> QED
    BY <2>5
<1> QED
  BY <1>7, <1>d

-----------------------------------------------------------------------------
(* The tokens of a text *)

\* What tokenize defines by recursion.
ReadTo(text, read, n) ==
  IF n = 0 THEN [tokens |-> <<>>, within |-> "none", quoted |-> <<>>]
  ELSE LET before == read[n - 1] IN readLexeme(before, text[n])

Reading(read, text) == read = [n \in 0 .. Len(text) |-> ReadTo(text, read, n)]

\* tokenize is well defined.
LEMMA ReadingExists ==
  ASSUME NEW text, NEW l \in Nat, l = Len(text)
  PROVE  \E read : Reading(read, text)
<1> DEFINE N == {n \in Nat : \E f : \A d \in 0 .. n : f[d] = ReadTo(text, f, d)}
<1>1. 0 \in N
  <2> DEFINE f == [d \in {0} |-> [tokens |-> <<>>, within |-> "none", quoted |-> <<>>]]
  <2>1. \A d \in 0 .. 0 : d = 0
    OBVIOUS
  <2>2. \A d \in 0 .. 0 : f[d] = ReadTo(text, f, d)
    BY <2>1, Zenon DEF ReadTo
  <2> QED
    BY <2>2
<1>2. ASSUME NEW n \in Nat, n \in N PROVE n + 1 \in N
  <2>1. PICK f : \A d \in 0 .. n : f[d] = ReadTo(text, f, d)
    BY <1>2
  <2> DEFINE g == [d \in 0 .. n + 1 |-> ReadTo(text, f, d)]
  <2>2. \A d \in 0 .. n : d \in 0 .. n + 1
    OBVIOUS
  <2>3. \A d \in 0 .. n : g[d] = f[d]
    BY <2>1, <2>2, Zenon
  <2>4. \A d \in 0 .. n + 1 : d # 0 => d - 1 \in 0 .. n
    OBVIOUS
  <2>5. ASSUME NEW d \in 0 .. n + 1 PROVE g[d] = ReadTo(text, g, d)
    <3>1. g[d] = ReadTo(text, f, d)
      BY Zenon
    <3>2. d # 0 => g[d - 1] = f[d - 1]
      BY <2>3, <2>4, Zenon
    <3> HIDE DEF g
    <3> QED
      BY <3>1, <3>2, Zenon DEF ReadTo
  <2> HIDE DEF g
  <2> QED
    BY <2>5
<1>3. \A n \in Nat : n \in N
  <2> HIDE DEF N
  <2> QED
    BY <1>1, <1>2, NaturalInduction
<1>4. PICK f : \A d \in 0 .. l : f[d] = ReadTo(text, f, d)
  BY <1>3
<1> DEFINE h == [d \in 0 .. l |-> f[d]]
<1>5. ASSUME NEW d \in 0 .. l PROVE f[d] = ReadTo(text, h, d)
  <2>1. d # 0 => d - 1 \in 0 .. l
    OBVIOUS
  <2>2. d # 0 => h[d - 1] = f[d - 1]
    BY <2>1, Zenon
  <2>3. f[d] = ReadTo(text, f, d)
    BY <1>4
  <2> HIDE DEF h
  <2> QED
    BY <2>2, <2>3, Zenon DEF ReadTo
<1>6. Reading(h, text)
  BY <1>5, Zenon DEF Reading
<1> QED
  BY <1>6

\* Tokens are the words of the text, or "text".
TokensIn(read, W) == read.tokens \in Seq(W) /\ read.quoted \in Seq(W)

\* They stay so with one more lexeme.
LEMMA LexemeTokens ==
  ASSUME NEW W, "text" \in W, NEW read, TokensIn(read, W), NEW lexeme \in W
  PROVE  TokensIn(readLexeme(read, lexeme), W)
<1>q. PICK q : q = read.quoted
  OBVIOUS
<1>1. q \in Seq(W) /\ read.tokens \in Seq(W)
  BY <1>q DEF TokensIn
<1>2. literal(q) \in W
  BY <1>1 DEF literal
<1>l. PICK word \in W : word = literal(q)
  BY <1>2
<1>3. CASE read.within = ";"
  <2>1. CASE lexeme = "newline"
    <3>1. readLexeme(read, lexeme) = [read EXCEPT !.within = "none"]
      BY <1>3, <2>1 DEF readLexeme
    <3> QED
      BY <3>1 DEF TokensIn
  <2>2. CASE lexeme # "newline"
    BY <1>3, <2>2 DEF readLexeme
  <2> QED
    BY <2>1, <2>2
<1>4. CASE read.within = "quote" /\ lexeme # "quote"
  <2>1. readLexeme(read, lexeme) = [read EXCEPT !.quoted = Append(@, lexeme)]
    BY <1>4 DEF readLexeme
  <2> QED
    BY <2>1 DEF TokensIn
<1>5. CASE read.within = "quote" /\ lexeme = "quote"
  <2>1. readLexeme(read, lexeme)
          = [tokens |-> Append(read.tokens, word), within |-> "none", quoted |-> <<>>]
    BY <1>5, <1>q, <1>l DEF readLexeme
  <2> QED
    BY <1>1, <2>1 DEF TokensIn
<1>6. CASE read.within \notin {";", "quote"}
  <2>1. \/ readLexeme(read, lexeme) = [read EXCEPT !.within = lexeme]
        \/ readLexeme(read, lexeme) = read
        \/ readLexeme(read, lexeme) = [read EXCEPT !.tokens = Append(@, lexeme)]
    BY <1>6 DEF readLexeme
  <2>2. CASE readLexeme(read, lexeme) = [read EXCEPT !.within = lexeme]
    BY <2>2 DEF TokensIn
  <2>3. CASE readLexeme(read, lexeme) = [read EXCEPT !.tokens = Append(@, lexeme)]
    BY <2>3 DEF TokensIn
  <2> QED
    BY <2>1, <2>2, <2>3
<1> QED
  BY <1>3, <1>4, <1>5, <1>6

\* A text has finitely many tokens.
LEMMA TokensCount ==
  ASSUME NEW text, text \in Seq(ToSet(text))
  PROVE  Len(tokenize(text).tokens) \in Nat
<1>l. PICK l \in Nat : l = Len(text) /\ DOMAIN text = 1 .. l
  OBVIOUS
<1>W. PICK W : W = ToSet(text) \cup {"text"}
  OBVIOUS
<1> DEFINE read == CHOOSE r : Reading(r, text)
<1>1. Reading(read, text)
  BY <1>l, ReadingExists
<1>2. tokenize(text).tokens = IF read[Len(text)].within = "quote" THEN <<>> ELSE read[Len(text)].tokens
  <2>1. tokenize(text) = IF read[Len(text)].within = "quote" THEN [tokens |-> <<>>, error |-> "syntax"]
                         ELSE [tokens |-> read[Len(text)].tokens, error |-> "none"]
    BY Zenon DEF tokenize, Reading, ReadTo
  <2> HIDE DEF read
  <2> QED
    BY <2>1
<1> HIDE DEF read
<1> DEFINE M == {n \in Nat : n <= l => TokensIn(read[n], W)}
<1>3. 0 \in M
  <2>1. 0 \in 0 .. Len(text)
    BY <1>l
  <2>2. read[0] = [tokens |-> <<>>, within |-> "none", quoted |-> <<>>]
    BY <1>1, <2>1, Zenon DEF Reading, ReadTo
  <2>3. TokensIn(read[0], W)
    BY <2>2 DEF TokensIn
  <2> QED
    BY <2>3
<1>4. ASSUME NEW n \in Nat, n \in M PROVE n + 1 \in M
  <2> SUFFICES ASSUME n + 1 <= l PROVE TokensIn(read[n + 1], W)
    OBVIOUS
  <2>b. PICK before : before = read[n]
    OBVIOUS
  <2>1. n + 1 \in 0 .. Len(text) /\ n + 1 # 0 /\ (n + 1) - 1 = n /\ n + 1 \in DOMAIN text
    BY <1>l
  <2>2. read[n + 1] = ReadTo(text, read, n + 1)
    BY <1>1, <2>1, Zenon DEF Reading
  <2>3. read[n + 1] = readLexeme(before, text[n + 1])
    BY <2>1, <2>2, <2>b, Zenon DEF ReadTo
  <2>4. text[n + 1] \in W /\ "text" \in W
    BY <1>W, <2>1 DEF ToSet
  <2>5. TokensIn(before, W)
    BY <1>4, <2>b
  <2> QED
    BY <2>3, <2>4, <2>5, LexemeTokens
<1>5. \A n \in Nat : n \in M
  <2> HIDE DEF M
  <2> QED
    BY <1>3, <1>4, NaturalInduction
<1>6. read[l].tokens \in Seq(W)
  BY <1>5 DEF TokensIn
<1> QED
  BY <1>2, <1>6, <1>l

-----------------------------------------------------------------------------
(* Texts and the trees they compile to *)

\* A text that compiles gives a tree, with the forms of its expression at their
\* places and nothing else: whatever the text, each form is visited once, and none
\* is left (tokenize, parseSExpr, resolveTreeRoot and visit in compileBtDsl,
\* toPathMap).
THEOREM TextsKeepPlaces ==
  ASSUME NEW text, text \in Seq(ToSet(text)), compileBtDsl(text).error = "none"
  PROVE  /\ IsTree(definitionOf(compileBtDsl(text)))
         /\ InPlace(definitionOf(compileBtDsl(text)), rootOf(text).expr, Len(tokenize(text).tokens))
<1>r. PICK found : found = rootOf(text)
  OBVIOUS
<1>k. PICK tokens : tokens = tokenize(text).tokens
  OBVIOUS
<1>n. PICK n \in Nat : n = Len(tokens)
  BY <1>k, TokensCount
<1>1. found.error = "none"
  <2> SUFFICES ASSUME found.error # "none" PROVE FALSE
    OBVIOUS
  <2>1. compileBtDsl(text) = Rejected(found.error)
    BY <1>r, Zenon DEF compileBtDsl
  <2> QED
    BY <2>1 DEF Rejected
<1>p. PICK parsed : parsed = parseSExpr(tokens)
  OBVIOUS
<1>2. parsed.error = "none" /\ found = resolveTreeRoot(parsed.exprs)
  <2>1. CASE tokenize(text).error # "none"
    <3>1. found.error = tokenize(text).error
      BY <1>r, <2>1 DEF rootOf
    <3> QED
      BY <1>1, <2>1, <3>1
  <2>2. CASE tokenize(text).error = "none" /\ parsed.error # "none"
    <3>1. found.error = parsed.error
      BY <1>r, <1>k, <1>p, <2>2 DEF rootOf
    <3> QED
      BY <1>1, <2>2, <3>1
  <2>3. CASE tokenize(text).error = "none" /\ parsed.error = "none"
    <3>1. found = resolveTreeRoot(parsed.exprs)
      BY <1>r, <1>k, <1>p, <2>3, Zenon DEF rootOf
    <3> QED
      BY <2>3, <3>1
  <2> QED
    BY <2>1, <2>2, <2>3
<1> DEFINE from == CHOOSE f : Parsing(f, tokens)
<1>3. Parsing(from, tokens)
  <2>1. \E f : Parsing(f, tokens)
    BY <1>n, ParsingExists
  <2> QED
    BY <2>1
<1>4. parsed = from[1].all
  BY <1>p, Zenon DEF parseSExpr, Parsing, ParsedAt, OneAt
<1> HIDE DEF from
<1>5. \A d \in 1 .. n + 1 : GoesOn(from[d].items, d, n + 1)
  BY <1>3, <1>n, ParsedGoesOn
<1>6. AllLaid(from, n)
  BY <1>3, <1>5, <1>n, ReadsAreLaid DEF AllLaid
<1>7. Laid(from, n, parsed.exprs, 1, n + 1)
  <2>1. LaidAt(from, n, 1)
    BY <1>6 DEF AllLaid
  <2> QED
    BY <1>2, <1>4, <2>1 DEF LaidAt
<1>x. PICK root : root = found.expr
  OBVIOUS
<1>8. PICK p \in 1 .. n : ReadAt(from, root, p)
  BY <1>1, <1>2, <1>6, <1>7, <1>x, RootIsRead
<1>c. PICK done : done = compileTree(root, n)
  OBVIOUS
<1>9. compileBtDsl(text) = done
  BY <1>r, <1>1, <1>k, <1>n, <1>x, <1>c, Zenon DEF compileBtDsl
<1>10. done.todo = <<>> /\ done.error = "none"
  BY <1>6, <1>8, <1>9, <1>c, AllVisited
<1>W. PICK X : X = Written(from, n)
  OBVIOUS
<1>11. AreForms(X) /\ root \in X /\ n \in Nat \ {0}
  <2>1. AreForms(X)
    BY <1>6, <1>W, WrittenAreForms
  <2>2. from[p].one.exprs[1] = root /\ p \in {q \in 1 .. n : from[q].one.error = "none"}
    BY <1>8 DEF ReadAt
  <2>3. root \in X
    BY <1>W, <2>2 DEF Written
  <2> QED
    BY <2>1, <2>3
<1>12. IsTree(definitionOf(done))
  BY <1>10, <1>11, <1>c, CompiledAreTrees DEF AreForms
<1>13. InPlace(definitionOf(done), root, n)
  BY <1>10, <1>11, <1>c, FormsAreInPlace
<1> QED
  BY <1>9, <1>12, <1>13, <1>k, <1>n, <1>r, <1>x

-----------------------------------------------------------------------------
(* What the editor shows is current *)

USE DEF Mounted, Editable, NoPreview

\* The source shown is a text, and of the right run.
LEMMA SourceIsText == ASSUME TextsInv PROVE sourceDsl \in Texts
  BY DEF TextsInv, sourceDsl, Texts

\* Drafts, overrides and runs stay among those there are (DslEditor.tsx:314,
\* store.ts:122).
LEMMA TextsStep == ASSUME TextsInv, [Next]_vars PROVE TextsInv'
  <1>1. sourceDsl \in Texts  BY SourceIsText
  <1>2. \A r \in Runs : SourceOf[r] \in Texts  BY DEF Texts
  <1>3. \A text \in Drafts : text \in Texts  BY DEF Texts
  <1>4. Texts' = Texts  BY DEF Texts
  <1> HIDE DEF NoPreview
  <1>5. ASSUME NEW text \in Drafts, Type(text) PROVE TextsInv'
    BY <1>3, <1>4, <1>5 DEF Type, TextsInv
  <1>6. CASE onPreview  BY <1>4, <1>6 DEF onPreview, TextsInv
  <1>7. CASE onApplyPreview  BY <1>4, <1>7 DEF onApplyPreview, StartsOver, TextsInv
  <1>8. CASE onRevert  BY <1>2, <1>4, <1>8 DEF onRevert, TextsInv
  <1>9. ASSUME NEW r \in Runs, DefinitionArrives(r) PROVE TextsInv'
    BY <1>2, <1>4, <1>9 DEF DefinitionArrives, StartsOver, TextsInv
  <1>10. ASSUME NEW p \in Places, Mount(p) PROVE TextsInv'
    BY <1>1, <1>4, <1>10 DEF Mount, StartsOver, TextsInv
  <1>11. CASE CaptureLayouts  BY <1>1, <1>4, <1>11 DEF CaptureLayouts, StartsOver, TextsInv
  <1>12. CASE UNCHANGED vars  BY <1>4, <1>12 DEF vars, TextsInv
  <1> QED  BY <1>5, <1>6, <1>7, <1>8, <1>9, <1>10, <1>11, <1>12 DEF Next

\* A preview is made, and kept, by a mounted editor only.
LEMMA UnmountedStep == ASSUME UnmountedInv, [Next]_vars PROVE UnmountedInv'
  <1>1. ASSUME NEW text \in Drafts, Type(text) PROVE UnmountedInv'
    BY <1>1 DEF Type, UnmountedInv
  <1>2. CASE onPreview  BY <1>2 DEF onPreview, UnmountedInv
  <1>3. CASE onApplyPreview  BY <1>3 DEF onApplyPreview, StartsOver, UnmountedInv
  <1>4. CASE onRevert  BY <1>4 DEF onRevert, UnmountedInv
  <1>5. ASSUME NEW r \in Runs, DefinitionArrives(r) PROVE UnmountedInv'
    BY <1>5 DEF DefinitionArrives, StartsOver, UnmountedInv
  <1>6. ASSUME NEW p \in Places, Mount(p) PROVE UnmountedInv'
    BY <1>6 DEF Mount, StartsOver, UnmountedInv
  <1>7. CASE CaptureLayouts  BY <1>7 DEF CaptureLayouts, StartsOver, UnmountedInv
  <1>8. CASE UNCHANGED vars  BY <1>8 DEF vars, UnmountedInv
  <1> QED  BY <1>1, <1>2, <1>3, <1>4, <1>5, <1>6, <1>7, <1>8 DEF Next

\* Only what a preview was made of is applied, and that compiles.
LEMMA OverrideStep ==
  ASSUME OverrideInv, PreviewIsCurrent, [Next]_vars
  PROVE  OverrideInv'
  <1>1. override' \in {override, NoText} => OverrideInv'  BY DEF OverrideInv, Compiles
  <1>2. ASSUME NEW text \in Drafts, Type(text) PROVE OverrideInv'  BY <1>1, <1>2 DEF Type
  <1>3. CASE onPreview  BY <1>1, <1>3 DEF onPreview
  <1>4. CASE onApplyPreview
    BY <1>4 DEF onApplyPreview, PreviewIsCurrent, OverrideInv, Compiles
  <1>5. CASE onRevert  BY <1>1, <1>5 DEF onRevert
  <1>6. ASSUME NEW r \in Runs, DefinitionArrives(r) PROVE OverrideInv'
    BY <1>1, <1>6 DEF DefinitionArrives
  <1>7. ASSUME NEW p \in Places, Mount(p) PROVE OverrideInv'  BY <1>1, <1>7 DEF Mount
  <1>8. CASE CaptureLayouts  BY <1>1, <1>8 DEF CaptureLayouts
  <1>9. CASE UNCHANGED vars  BY <1>1, <1>9 DEF vars
  <1> QED  BY <1>2, <1>3, <1>4, <1>5, <1>6, <1>7, <1>8, <1>9 DEF Next

\* The tree shown was recorded beside the source shown, or is compiled from it.
LEMMA ShownIsOfSource ==
  ASSUME TextsInv, OverrideInv
  PROVE  treeShown \in TreesOf(sourceDsl)
  <1>1. CASE override = NoText
    BY <1>1 DEF treeShown, sourceDsl, TreesOf, TextsInv
  <1>2. CASE override # NoText
    BY <1>2 DEF treeShown, sourceDsl, TreesOf, OverrideInv
  <1> QED  BY <1>1, <1>2

\* A preview of the draft, from a tree with the source on screen, stays one while
\* draft and source are what they were, whatever tree is on screen.
LEMMA PreviewStays ==
  ASSUME PreviewIsCurrent, draft' = draft, preview' = preview, sourceDsl' = sourceDsl
  PROVE  PreviewIsCurrent'
  BY DEF PreviewIsCurrent, TreesOf, TreeOf, Compiles

\* Every step leaves a preview of the draft, from a tree with the source shown, or none.
LEMMA PreviewStep ==
  ASSUME TextsInv, OverrideInv, UnmountedInv, PreviewIsCurrent, [Next]_vars
  PROVE  PreviewIsCurrent'
  <1>1. preview' = NoPreview => PreviewIsCurrent'  BY DEF PreviewIsCurrent
  <1>2. run' = run /\ override' = override => sourceDsl' = sourceDsl  BY DEF sourceDsl
  <1>3. ASSUME NEW text \in Drafts, Type(text) PROVE PreviewIsCurrent'
    <2>1. ~(preview # NoPreview /\ text = preview.source)  BY <1>3 DEF Type, PreviewIsCurrent
    <2> QED  BY <1>1, <1>3, <2>1 DEF Type
  <1>4. CASE onPreview
    <2>1. sourceDsl' = sourceDsl /\ draft' = draft  BY <1>2, <1>4 DEF onPreview
    <2>2. CASE Compile(draft).error # "none"  BY <1>1, <1>4, <2>2 DEF onPreview
    <2>3. CASE Compile(draft).error = "none"
      <3> DEFINE diff == buildBtStructureDiff(treeShown, definitionOf(Compile(draft)))
      <3>1. preview' = [source |-> draft, diff |-> diff, tree |-> treeShown]
        BY <1>4, <2>3 DEF onPreview
      <3>2. draft # sourceDsl  BY <1>4 DEF onPreview, canPreview
      <3>3. diff = buildBtStructureDiff(treeShown, TreeOf(draft'))
        BY <2>1 DEF TreeOf
      <3>4. treeShown \in TreesOf(sourceDsl')
        BY <2>1, ShownIsOfSource
      <3> HIDE DEF diff
      <3>5. preview'.source = draft /\ preview'.diff = diff /\ preview'.tree = treeShown  BY <3>1
      <3> QED
        BY <2>1, <2>3, <3>2, <3>3, <3>4, <3>5 DEF PreviewIsCurrent, Compiles, TreesOf, TreeOf
    <2> QED  BY <2>2, <2>3
  <1>5. CASE onApplyPreview
    <2>1. draft # sourceDsl  BY <1>5 DEF onApplyPreview, PreviewIsCurrent
    <2> QED  BY <1>1, <1>5, <2>1 DEF onApplyPreview, StartsOver
  <1>6. CASE onRevert  BY <1>1, <1>6 DEF onRevert
  <1>7. ASSUME NEW r \in Runs, DefinitionArrives(r) PROVE PreviewIsCurrent'
    <2>1. CASE ~Mounted
      <3>1. preview' = NoPreview
        BY <1>7, <2>1 DEF DefinitionArrives, UnmountedInv
      <3> QED  BY <1>1, <3>1
    <2>2. CASE Mounted /\ SourceOf[r] # sourceDsl
      BY <1>1, <1>7, <2>2 DEF DefinitionArrives, StartsOver
    <2>3. CASE Mounted /\ SourceOf[r] = sourceDsl
      <3>1. sourceDsl' = sourceDsl  BY <1>7, <2>3 DEF DefinitionArrives, sourceDsl
      <3>2. draft' = draft /\ preview' = preview  BY <1>7, <2>3 DEF DefinitionArrives
      <3> QED  BY <3>1, <3>2, PreviewStays
    <2> QED  BY <2>1, <2>2, <2>3
  <1>8. ASSUME NEW p \in Places, Mount(p) PROVE PreviewIsCurrent'
    BY <1>1, <1>8 DEF Mount, StartsOver
  <1>9. CASE CaptureLayouts  BY <1>1, <1>9 DEF CaptureLayouts, StartsOver
  <1>10. CASE UNCHANGED vars  BY <1>2, <1>10, PreviewStays DEF vars
  <1> QED  BY <1>3, <1>4, <1>5, <1>6, <1>7, <1>8, <1>9, <1>10 DEF Next

\* Evidence kept from one state to the next stays that of the preview, if the
\* draft, the preview and the run stay.
LEMMA EvidenceStays ==
  ASSUME EvidenceIsCurrent, place' = place, draft' = draft, preview' = preview,
         run' = run, evidence' = evidence
  PROVE  EvidenceIsCurrent'
  BY DEF EvidenceIsCurrent

\* Every step leaves the evidence of the preview on screen, or of an applied edit, or
\* none, while the editor is in the sidebar.
LEMMA EvidenceStep ==
  ASSUME TextsInv, PreviewIsCurrent, EvidenceIsCurrent, [Next]_vars
  PROVE  EvidenceIsCurrent'
  <1>1. evidence' = NoEvidence \/ place' # "sidebar" => EvidenceIsCurrent'
    BY DEF EvidenceIsCurrent
  <1>2. place = "sidebar" => Reported(NoEvidence) = NoEvidence  BY DEF Reported
  <1>3. ASSUME NEW text \in Drafts, Type(text) PROVE EvidenceIsCurrent'
    <2>1. ~(preview # NoPreview /\ text = preview.source)  BY <1>3 DEF Type, PreviewIsCurrent
    <2> QED  BY <1>1, <1>2, <1>3, <2>1 DEF Type
  <1>4. CASE onPreview
    <2>1. place' = place /\ run' = run /\ draft' = draft  BY <1>4 DEF onPreview
    <2>2. CASE place # "sidebar"  BY <1>1, <2>1, <2>2
    <2>3. CASE place = "sidebar" /\ Compile(draft).error # "none"
      BY <1>1, <1>2, <1>4, <2>3 DEF onPreview
    <2>4. CASE place = "sidebar" /\ Compile(draft).error = "none"
      <3> DEFINE diff == buildBtStructureDiff(treeShown, definitionOf(Compile(draft)))
                 kinds == DiagnosticsOf(Compile(draft), diff, run)
      <3>1. preview' = [source |-> draft, diff |-> diff, tree |-> treeShown]
        BY <1>4, <2>4 DEF onPreview
      <3>2. evidence' = buildEditEvidenceArtifact(draft, diff, kinds, FALSE)
        BY <1>4, <2>4 DEF onPreview, Reported
      <3> HIDE DEF diff
      <3>3. preview'.source = draft /\ preview'.diff = diff  BY <3>1
      <3>4. draft # NoText  BY NoTextIsNoText DEF TextsInv, Texts
      <3>5. preview' # NoPreview  BY <3>3, <3>4
      <3> QED  BY <2>1, <3>2, <3>3, <3>5 DEF EvidenceIsCurrent
    <2> QED  BY <2>2, <2>3, <2>4
  <1>5. CASE onApplyPreview
    <2>1. draft # sourceDsl  BY <1>5 DEF onApplyPreview, PreviewIsCurrent
    <2>2. evidence' = Reported(NoEvidence) /\ place' = place
      BY <1>5, <2>1 DEF onApplyPreview
    <2> QED  BY <1>1, <1>2, <2>2
  <1>6. CASE onRevert  BY <1>1, <1>2, <1>6 DEF onRevert
  <1>7. ASSUME NEW r \in Runs, DefinitionArrives(r) PROVE EvidenceIsCurrent'
    <2>1. place' = place /\ run' = r  BY <1>7 DEF DefinitionArrives
    <2>2. CASE r # run
      <3>1. \A artifact : EvidenceOfRun(r, artifact) = NoEvidence  BY <2>2 DEF EvidenceOfRun
      <3> QED  BY <1>1, <1>7, <3>1 DEF DefinitionArrives
    <2>3. CASE place # "sidebar"  BY <1>1, <2>1, <2>3
    <2>4. CASE r = run /\ place = "sidebar" /\ SourceOf[r] # sourceDsl
      BY <1>1, <1>2, <1>7, <2>4 DEF DefinitionArrives, EvidenceOfRun
    <2>5. CASE r = run /\ place = "sidebar" /\ SourceOf[r] = sourceDsl
      <3>1. draft' = draft /\ preview' = preview /\ evidence' = evidence
        BY <1>7, <2>5 DEF DefinitionArrives, EvidenceOfRun
      <3> QED  BY <2>1, <2>5, <3>1, EvidenceStays
    <2> QED  BY <2>2, <2>3, <2>4, <2>5
  <1>8. ASSUME NEW p \in Places, Mount(p) PROVE EvidenceIsCurrent'
    BY <1>1, <1>8 DEF Mount
  <1>9. CASE CaptureLayouts  BY <1>1, <1>2, <1>9 DEF CaptureLayouts
  <1>10. CASE UNCHANGED vars  BY <1>10, EvidenceStays DEF vars
  <1> QED  BY <1>3, <1>4, <1>5, <1>6, <1>7, <1>8, <1>9, <1>10 DEF Next

\* The diagnostics come and go with the preview.
LEMMA DiagnosticsStep ==
  ASSUME TextsInv, UnmountedInv, PreviewIsCurrent, DiagnosticsInv, [Next]_vars
  PROVE  DiagnosticsInv'
  <1>1. preview' = NoPreview => DiagnosticsInv'  BY DEF DiagnosticsInv
  <1>2. draft' = draft /\ preview' = preview /\ diagnostics' = diagnostics => DiagnosticsInv'
    BY DEF DiagnosticsInv
  <1>3. ASSUME NEW text \in Drafts, Type(text) PROVE DiagnosticsInv'
    <2>1. ~(preview # NoPreview /\ text = preview.source)  BY <1>3 DEF Type, PreviewIsCurrent
    <2> QED  BY <1>1, <1>3, <2>1 DEF Type
  <1>4. CASE onPreview
    <2>1. CASE Compile(draft).error # "none"  BY <1>1, <1>4, <2>1 DEF onPreview
    <2>2. CASE Compile(draft).error = "none"
      <3> DEFINE diff == buildBtStructureDiff(treeShown, definitionOf(Compile(draft)))
                 kinds == DiagnosticsOf(Compile(draft), diff, run)
      <3>1. /\ preview' = [source |-> draft, diff |-> diff, tree |-> treeShown]
            /\ diagnostics' = kinds /\ draft' = draft
        BY <1>4, <2>2 DEF onPreview
      <3> HIDE DEF diff
      <3>2. preview'.diff = diff  BY <3>1
      <3>3. run \in Runs  BY DEF TextsInv
      <3> QED  BY <3>1, <3>2, <3>3 DEF DiagnosticsInv
    <2> QED  BY <2>1, <2>2
  <1>5. CASE onApplyPreview
    <2>1. draft # sourceDsl  BY <1>5 DEF onApplyPreview, PreviewIsCurrent
    <2> QED  BY <1>1, <1>5, <2>1 DEF onApplyPreview, StartsOver
  <1>6. CASE onRevert  BY <1>1, <1>6 DEF onRevert
  <1>7. ASSUME NEW r \in Runs, DefinitionArrives(r) PROVE DiagnosticsInv'
    <2>1. CASE ~Mounted
      BY <1>1, <1>7, <2>1 DEF DefinitionArrives, UnmountedInv
    <2>2. CASE Mounted /\ SourceOf[r] # sourceDsl
      BY <1>1, <1>7, <2>2 DEF DefinitionArrives, StartsOver
    <2>3. CASE Mounted /\ SourceOf[r] = sourceDsl
      BY <1>2, <1>7, <2>3 DEF DefinitionArrives
    <2> QED  BY <2>1, <2>2, <2>3
  <1>8. ASSUME NEW p \in Places, Mount(p) PROVE DiagnosticsInv'
    BY <1>1, <1>8 DEF Mount, StartsOver
  <1>9. CASE CaptureLayouts  BY <1>1, <1>9 DEF CaptureLayouts, StartsOver
  <1>10. CASE UNCHANGED vars  BY <1>2, <1>10 DEF vars
  <1> QED  BY <1>3, <1>4, <1>5, <1>6, <1>7, <1>8, <1>9, <1>10 DEF Next

\* The invariant of the editor holds in every state.
LEMMA EditorInvHolds == Spec => []EditorInv
  <1>1. Init => EditorInv
    BY DEF Init, EditorInv, TextsInv, Texts, OverrideInv, UnmountedInv, PreviewIsCurrent,
           EvidenceIsCurrent, DiagnosticsInv
  <1>2. EditorInv /\ [Next]_vars => EditorInv'
    BY TextsStep, OverrideStep, UnmountedStep, PreviewStep, EvidenceStep, DiagnosticsStep DEF EditorInv
  <1> QED  BY <1>1, <1>2, PTL DEF Spec

\* What can be applied is the draft that was compared, and its diff starts from a tree
\* with the source on screen, whatever was typed, applied, reverted, loaded, mounted
\* or exported before, and whatever trees runs record beside their sources
\* (DslEditor.tsx:323-412).
THEOREM PreviewsAreCurrent == Spec => []PreviewIsCurrent
  <1>1. EditorInv => PreviewIsCurrent  BY DEF EditorInv
  <1> QED  BY <1>1, EditorInvHolds, PTL

\* The evidence App keeps of an edit that was not applied is the preview on screen
\* with the diagnostics of the run on screen, while the editor is in the sidebar
\* (App.tsx:445-454).
THEOREM EvidenceIsOfThePreview == Spec => []EvidenceIsCurrent
  <1>1. EditorInv => EvidenceIsCurrent  BY DEF EditorInv
  <1> QED  BY <1>1, EditorInvHolds, PTL

\* The two trees of a preview have path maps with a place for each of their
\* nodes, and the rows are between these.
LEMMA PreviewOfMaps ==
  ASSUME EditorInv, preview # NoPreview, IsTree(preview.tree)
  PROVE  /\ IsPathMap(toPathMap(preview.tree)) /\ IsPathMap(toPathMap(TreeOf(draft)))
         /\ Cardinality(DOMAIN toPathMap(preview.tree)) = Len(preview.tree.nodes)
         /\ Cardinality(DOMAIN toPathMap(TreeOf(draft))) = Len(TreeOf(draft).nodes)
         /\ preview.diff = diffOfMaps(toPathMap(preview.tree), toPathMap(TreeOf(draft)))
  <1>1. draft \in Texts /\ Compiles(draft)
    BY DEF EditorInv, TextsInv, PreviewIsCurrent
  <1>2. IsTree(TreeOf(draft))  BY <1>1, CompiledTreesAreTrees
  <1>3. preview.diff = diffOfMaps(toPathMap(preview.tree), toPathMap(TreeOf(draft)))
    BY DEF EditorInv, PreviewIsCurrent, buildBtStructureDiff
  <1> QED  BY <1>2, <1>3, PathMapsAreMaps

\* The rows of a preview account for every node of both trees: none is told twice,
\* none is matched with two (dsl-preview.ts:269-301, 392-445).
THEOREM PreviewsBalance == Spec => []DiffBalances
  <1>1. ASSUME EditorInv, preview # NoPreview, IsTree(preview.tree)
        PROVE  Len(preview.tree.nodes) - Cardinality(RowsOf(preview.diff, "removed"))
                 = Len(TreeOf(draft).nodes) - Cardinality(RowsOf(preview.diff, "added"))
    BY <1>1, PreviewOfMaps, DiffsBalance
  <1>2. EditorInv => DiffBalances
    BY <1>1, Zenon DEF DiffBalances
  <1> QED  BY <1>2, EditorInvHolds, PTL

\* A draft that only reorders leaves is shown as one reordering, and does not warn
\* of history that would be lost (dsl-preview.ts:191-199, 359-390).
THEOREM ReorderedPreviews == Spec => []PureReorderIsOneRow
  <1>1. ASSUME EditorInv PROVE PureReorderIsOneRow
    <2> DEFINE was == toPathMap(preview.tree)
               now == toPathMap(TreeOf(draft))
    <2> SUFFICES ASSUME preview # NoPreview, IsTree(preview.tree),
                        NEW p \in DOMAIN was \cap DOMAIN now, LeavesReordered(was, now, p)
                 PROVE  /\ preview.diff = {rowOf("reordered", was[p], now[p])}
                        /\ "run-mismatch" \notin diagnostics
      BY Zenon DEF PureReorderIsOneRow
    <2>1. IsPathMap(was) /\ IsPathMap(now) /\ preview.diff = diffOfMaps(was, now)
      BY <1>1, PreviewOfMaps
    <2>2. preview.diff = {rowOf("reordered", was[p], now[p])}
      <3> HIDE DEF was, now
      <3> QED  BY <2>1, ReorderIsOneRow
    <2>3. RowsOf(preview.diff, "removed") \cup RowsOf(preview.diff, "changed") = {}
      BY <2>2 DEF RowsOf, rowOf
    <2>4. PICK r \in Runs : diagnostics = DiagnosticsOf(Compile(draft), preview.diff, r)
      BY <1>1 DEF EditorInv, DiagnosticsInv
    <2>5. buildMismatchDiagnostics(preview.diff, HistoryOf[r]) = {}
      BY <2>3 DEF buildMismatchDiagnostics
    <2>6. "run-mismatch" \notin diagnostics
      BY <2>4, <2>5 DEF DiagnosticsOf
    <2> QED  BY <2>2, <2>6
  <1> QED  BY <1>1, EditorInvHolds, PTL

\* What compileBtDsl makes of the draft in the editor has, at every place, the form
\* written there, and nothing else (compileBtDsl, toPathMap).
THEOREM CompiledDraftsKeepPlaces == Spec => []CompileKeepsPlaces
  <1>1. ASSUME EditorInv PROVE CompileKeepsPlaces
    <2> SUFFICES ASSUME Compiles(draft)
                 PROVE  InPlace(TreeOf(draft), rootOf(draft).expr, Len(tokenize(draft).tokens))
      BY Zenon DEF CompileKeepsPlaces, InPlace
    <2>1. draft \in Texts
      BY <1>1 DEF EditorInv, TextsInv
    <2>2. Compile(draft) = compileBtDsl(draft) /\ draft \in Seq(ToSet(draft))
      BY <2>1, CompilesWithBtDsl, TextsAreLexemes
    <2>3. compileBtDsl(draft).error = "none"
      BY <2>2 DEF Compiles
    <2>4. InPlace(definitionOf(compileBtDsl(draft)), rootOf(draft).expr, Len(tokenize(draft).tokens))
      BY <2>2, <2>3, TextsKeepPlaces
    <2> QED
      BY <2>2, <2>4, Zenon DEF TreeOf
  <1>2. EditorInv => CompileKeepsPlaces
    BY <1>1
  <1> QED  BY <1>2, EditorInvHolds, PTL
=============================================================================
