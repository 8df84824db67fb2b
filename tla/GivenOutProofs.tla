--------------------------- MODULE GivenOutProofs ---------------------------
(***************************************************************************)
(* Proofs about what an agent, a model or a reader is given.               *)
(*                                                                         *)
(* DependencyGraph, for any dependencies and depths: the paths the query   *)
(* follows reach what lies within so many steps, and the least depth of a  *)
(* document in them is its distance.                                       *)
(*                                                                         *)
(* AgentExport, for any documents, dependencies and changes while it is    *)
(* read: an export is closed under the dependencies of what it has, reads  *)
(* downwards, and lists and neighbourhoods show distances.                 *)
(*                                                                         *)
(* ContextAssembly, for any budget, costs, documents and changes while it  *)
(* is read: a context fits its budget, leaves out only what did not fit    *)
(* and has no neighbour in the place of a nearer one.                      *)
(*                                                                         *)
(* VersionDiff, for any two versions: what is shown between them is both   *)
(* of them, with what was removed where it stood.                          *)
(*                                                                         *)
(* ArchitecturePlan, for any nodes: a plan makes each document once and    *)
(* parents first, but for one document of a circle of parents.             *)
(***************************************************************************)
EXTENDS Integers, SearchPage, AgentExport, ContextAssembly, VersionDiff, ArchitecturePlan,
        FiniteSetTheorems, FunctionTheorems, TLAPS

-----------------------------------------------------------------------------
(***************************************************************************)
(* What is picked from a list, by a search, an export or a context.        *)
(***************************************************************************)

\* The number of places up to one of them, among finitely many.
LEMMA PlacesCount ==
    ASSUME NEW n \in Nat, NEW P \in SUBSET (1..n)
    PROVE  /\ IsFiniteSet(P) /\ Cardinality(P) \in Nat /\ Cardinality(P) <= n
           /\ \A i \in P : Cardinality({j \in P : j <= i}) \in 1..Cardinality(P)
           /\ \A i, j \in P : i < j =>
                 Cardinality({k \in P : k <= i}) < Cardinality({k \in P : k <= j})
<1>1. IsFiniteSet(P) /\ Cardinality(P) \in Nat /\ Cardinality(P) <= n
  <2>1. IsFiniteSet(1..n) /\ Cardinality(1..n) = n
    BY FS_Interval
  <2>2. QED
    BY <2>1, FS_Subset, FS_CardinalityType
<1> DEFINE upTo(i) == {k \in P : k <= i}
<1>2. \A i \in P : IsFiniteSet(upTo(i)) /\ Cardinality(upTo(i)) \in Nat
                   /\ Cardinality(upTo(i)) <= Cardinality(P)
  <2> SUFFICES ASSUME NEW i \in P
               PROVE  IsFiniteSet(upTo(i)) /\ Cardinality(upTo(i)) \in Nat
                      /\ Cardinality(upTo(i)) <= Cardinality(P)
    OBVIOUS
  <2>1. upTo(i) \in SUBSET P
    OBVIOUS
  <2> HIDE DEF upTo
  <2>2. QED
    BY <1>1, <2>1, FS_Subset, FS_CardinalityType
<1>3. ASSUME NEW i \in P PROVE Cardinality(upTo(i)) \in 1..Cardinality(P)
  <2>1. upTo(i) # {}
    OBVIOUS
  <2> HIDE DEF upTo
  <2>2. Cardinality(upTo(i)) # 0
    BY <1>2, <2>1, FS_EmptySet
  <2>3. QED
    BY <1>1, <1>2, <2>2
<1>4. ASSUME NEW i \in P, NEW j \in P, i < j
      PROVE  Cardinality(upTo(i)) < Cardinality(upTo(j))
  <2>0. i \in Nat /\ j \in Nat /\ \A k \in P : k \in Nat
    OBVIOUS
  <2>1. upTo(i) \in SUBSET upTo(j) /\ j \in upTo(j) /\ j \notin upTo(i)
    <3>1. \A k \in P : k <= i => k <= j
      BY <1>4, <2>0
    <3>2. j <= j /\ ~(j <= i)
      BY <1>4, <2>0
    <3>3. QED
      BY <3>1, <3>2
  <2>2. upTo(i) # upTo(j)
    BY <2>1
  <2> HIDE DEF upTo
  <2>3. Cardinality(upTo(i)) <= Cardinality(upTo(j)) /\ Cardinality(upTo(i)) # Cardinality(upTo(j))
    BY <1>2, <2>1, <2>2, FS_Subset
  <2>4. QED
    BY <1>2, <2>3
<1>5. QED
  BY <1>1, <1>3, <1>4

\* Where in the list is what is picked from it.
PickedAt(list, P, at) ==
    /\ \A n \in 1..Cardinality(P) : Picked(list, P)[n] = list[at[n]]
    /\ \A m, n \in 1..Cardinality(P) : m < n => at[m] < at[n]
    /\ \A i \in P : i \in {at[n] : n \in 1..Cardinality(P)}

\* What is picked from a list is what stands at those places, in their order.
LEMMA PickedIsInOrder ==
    ASSUME NEW S, NEW list \in Seq(S), NEW P \in SUBSET (1..Len(list))
    PROVE  /\ Picked(list, P) \in Seq(S) /\ Len(Picked(list, P)) = Cardinality(P)
           /\ Cardinality(P) <= Len(list)
           /\ \E at \in [1..Cardinality(P) -> P] : PickedAt(list, P, at)
<1> DEFINE c == Cardinality(P)
           rank(i) == Cardinality({j \in P : j <= i})
           f == [i \in P |-> rank(i)]
           at == [n \in 1..c |-> CHOOSE i \in P : rank(i) = n]
<1>1. Len(list) \in Nat
  OBVIOUS
<1>2. /\ IsFiniteSet(P) /\ c \in Nat /\ c <= Len(list)
      /\ \A i \in P : rank(i) \in 1..c
      /\ \A i, j \in P : i < j => rank(i) < rank(j)
  BY <1>1, PlacesCount
<1> HIDE DEF c, rank
<1>3. \A i \in P : i \in Nat
  BY <1>1
<1>4. \A i, j \in P : rank(i) = rank(j) => i = j
  BY <1>2, <1>3
<1>5. f \in Injection(P, 1..c)
  BY <1>2, <1>4 DEF Injection, IsInjective
<1>6. f \in Surjection(P, 1..c)
  <2>1. IsFiniteSet(1..c) /\ Cardinality(1..c) = c
    BY <1>2, FS_Interval
  <2> HIDE DEF f
  <2>2. QED
    BY <1>5, <2>1, FS_Injection DEF c
<1>7. \A n \in 1..c : \E i \in P : rank(i) = n
  BY <1>6 DEF Surjection
<1>8. \A n \in 1..c : at[n] \in P /\ rank(at[n]) = n
  BY <1>7
<1>9. Picked(list, P) = [n \in 1..c |-> list[at[n]]]
  BY DEF Picked, rank, c
<1> HIDE DEF at
<1>10. \A n \in 1..c : list[at[n]] \in S
  <2>1. \A n \in 1..c : at[n] \in 1..Len(list)
    BY <1>8
  <2>2. \A i \in 1..Len(list) : list[i] \in S
    OBVIOUS
  <2>3. QED
    BY <2>1, <2>2
<1>11. Picked(list, P) \in Seq(S) /\ Len(Picked(list, P)) = c
  BY <1>2, <1>9, <1>10
<1>12. \A m, n \in 1..c : m < n => at[m] < at[n]
  <2> SUFFICES ASSUME NEW m \in 1..c, NEW n \in 1..c, m < n, ~(at[m] < at[n]) PROVE FALSE
    OBVIOUS
  <2>1. at[m] \in Nat /\ at[n] \in Nat /\ at[m] \in P /\ at[n] \in P
    BY <1>3, <1>8
  <2>2. rank(at[m]) = m /\ rank(at[n]) = n /\ m \in Nat /\ n \in Nat
    BY <1>2, <1>8
  <2>3. CASE at[m] = at[n]
    BY <2>2, <2>3
  <2>4. CASE at[n] < at[m]
    BY <1>2, <2>1, <2>2, <2>4
  <2>5. QED
    BY <2>1, <2>3, <2>4
<1>13. at \in [1..c -> P]
  BY <1>8 DEF at
<1>14. \A i \in P : i \in {at[n] : n \in 1..c}
  BY <1>2, <1>4, <1>8
<1>15. PickedAt(list, P, at)
  BY <1>9, <1>12, <1>14 DEF c, PickedAt
<1>16. QED
  BY <1>2, <1>11, <1>13, <1>15 DEF c

-----------------------------------------------------------------------------
(***************************************************************************)
(* DependencyGraph: what is reached by paths, and what by steps.           *)
(***************************************************************************)

\* The order of the natural numbers, as a relation.
Before == {p \in Nat \X Nat : p[1] < p[2]}

\* A set of natural numbers has a least member.
LEMMA LeastExists ==
    ASSUME NEW S \in SUBSET Nat, S # {}
    PROVE  \E x \in S : \A y \in S : x <= y
<1>1. IsWellFoundedOn(Before, Nat)
  BY NatLessThanWellFounded DEF OpToRel, Before
<1>2. PICK x \in S : \A y \in S : ~ (<<y, x>> \in Before)
  BY <1>1, WFMin
<1>3. ASSUME NEW y \in S PROVE x <= y
  <2>1. <<y, x>> \in Nat \X Nat /\ <<y, x>> \notin Before
    BY <1>2
  <2>2. ~(y < x)
    BY <2>1 DEF Before
  <2>3. QED
    BY <2>2
<1>4. QED
  BY <1>3

\* Min is the least member.
LEMMA LeastIsMin ==
    ASSUME NEW S \in SUBSET Nat, S # {}
    PROVE  Min(S) \in S /\ \A y \in S : Min(S) <= y
<1>1. \E x \in S : \A y \in S : x <= y
  BY LeastExists
<1>2. QED
  BY <1>1 DEF Min

LEMMA MinIs ==
    ASSUME NEW S \in SUBSET Nat, NEW x \in S, \A y \in S : x <= y
    PROVE  Min(S) = x
<1>1. Min(S) \in S /\ \A y \in S : Min(S) <= y
  BY LeastIsMin
<1>2. Min(S) <= x /\ x <= Min(S) /\ x \in Nat /\ Min(S) \in Nat
  BY <1>1
<1>3. QED
  BY <1>2

\* What lies one step from a set, and the sets the reference definition goes through.
Ahead(steps, S) == {e[2] : e \in {f \in steps : f[1] \in S}}

IsBall(B, steps, from, hops) ==
    B = [n \in 0..hops |-> IF n = 0 THEN {from} ELSE B[n - 1] \cup Ahead(steps, B[n - 1])]

LEMMA BallExists ==
    ASSUME NEW steps, NEW from, NEW hops \in Nat
    PROVE  \E B : IsBall(B, steps, from, hops)
<1> DEFINE S == {n \in Nat : ~ \E B : IsBall(B, steps, from, n)}
<1> SUFFICES ASSUME S # {} PROVE FALSE
  OBVIOUS
<1>1. PICK k \in S : \A m \in S : k <= m
  BY LeastExists
<1>2. CASE k = 0
  <2>1. IsBall([n \in 0..0 |-> {from}], steps, from, 0)
    BY DEF IsBall
  <2>2. QED
    BY <1>1, <1>2, <2>1
<1>3. CASE k # 0
  <2>1. k \in Nat /\ k - 1 \in Nat /\ k - 1 \notin S
    BY <1>1, <1>3
  <2>2. PICK B : IsBall(B, steps, from, k - 1)
    BY <2>1
  <2> DEFINE C == [n \in 0..k |-> IF n = k THEN B[k - 1] \cup Ahead(steps, B[k - 1]) ELSE B[n]]
  <2>3. ASSUME NEW n \in 0..k
        PROVE  C[n] = IF n = 0 THEN {from} ELSE C[n - 1] \cup Ahead(steps, C[n - 1])
    <3>1. CASE n = 0
      <4>1. C[n] = B[0]
        BY <1>3, <3>1
      <4>2. B[0] = {from}
        BY <2>1, <2>2 DEF IsBall
      <4>3. QED
        BY <3>1, <4>1, <4>2
    <3>2. CASE n # 0 /\ n # k
      <4>1. n \in 0..(k - 1) /\ n - 1 \in 0..(k - 1) /\ n - 1 \in 0..k /\ n - 1 # k
        BY <2>1, <3>2
      <4>2. C[n] = B[n] /\ C[n - 1] = B[n - 1]
        BY <3>2, <4>1
      <4>3. B[n] = B[n - 1] \cup Ahead(steps, B[n - 1])
        BY <2>2, <3>2, <4>1 DEF IsBall
      <4>4. QED
        BY <3>2, <4>2, <4>3
    <3>3. CASE n = k
      <4>1. k - 1 \in 0..k /\ k - 1 # k
        BY <2>1
      <4>2. C[n - 1] = B[k - 1] /\ C[n] = B[k - 1] \cup Ahead(steps, B[k - 1])
        BY <3>3, <4>1
      <4>3. QED
        BY <1>3, <3>3, <4>2
    <3>4. QED
      BY <3>1, <3>2, <3>3
  <2>4. C = [n \in 0..k |-> C[n]]
    OBVIOUS
  <2> HIDE DEF C
  <2>5. IsBall(C, steps, from, k)
    BY <2>3, <2>4 DEF IsBall
  <2>6. QED
    BY <1>1, <2>5
<1>4. QED
  BY <1>2, <1>3

LEMMA BallsAgree ==
    ASSUME NEW steps, NEW from, NEW h \in Nat, NEW k \in Nat, NEW B, NEW C,
           IsBall(B, steps, from, h), IsBall(C, steps, from, k)
    PROVE  \A n \in Nat : n <= h /\ n <= k => B[n] = C[n]
<1> DEFINE S == {n \in Nat : n <= h /\ n <= k /\ B[n] # C[n]}
<1> SUFFICES ASSUME S # {} PROVE FALSE
  OBVIOUS
<1>1. PICK n \in S : \A m \in S : n <= m
  BY LeastExists
<1>2. n \in Nat /\ n <= h /\ n <= k /\ B[n] # C[n]
  BY <1>1
<1>3. n \in 0..h /\ n \in 0..k
  BY <1>2
<1>4. CASE n = 0
  BY <1>2, <1>3, <1>4 DEF IsBall
<1>5. CASE n # 0
  <2>1. n - 1 \in Nat /\ n - 1 <= h /\ n - 1 <= k /\ ~(n <= n - 1)
    BY <1>2, <1>5
  <2>2. B[n - 1] = C[n - 1]
    BY <1>1, <2>1
  <2>3. B[n] = B[n - 1] \cup Ahead(steps, B[n - 1]) /\ C[n] = C[n - 1] \cup Ahead(steps, C[n - 1])
    BY <1>3, <1>5 DEF IsBall
  <2>4. QED
    BY <1>2, <2>2, <2>3
<1>6. QED
  BY <1>4, <1>5

LEMMA WithinIsBall ==
    ASSUME NEW steps, NEW from, NEW hops \in Nat
    PROVE  \E B : IsBall(B, steps, from, hops) /\ Within(steps, from, hops) = B[hops]
<1> DEFINE B == CHOOSE B : IsBall(B, steps, from, hops)
<1>1. IsBall(B, steps, from, hops)
  BY BallExists
<1>2. Within(steps, from, hops) = B[hops]
  BY DEF Within, IsBall, Ahead
<1>3. QED
  BY <1>1, <1>2

\* The reference, a step at a time.
LEMMA WithinGrows ==
    ASSUME NEW steps, NEW from
    PROVE  /\ Within(steps, from, 0) = {from}
           /\ \A n \in Nat : Within(steps, from, n + 1) =
                 Within(steps, from, n) \cup Ahead(steps, Within(steps, from, n))
<1>1. Within(steps, from, 0) = {from}
  <2>1. PICK B : IsBall(B, steps, from, 0) /\ Within(steps, from, 0) = B[0]
    BY WithinIsBall
  <2>2. QED
    BY <2>1 DEF IsBall
<1>2. ASSUME NEW n \in Nat
      PROVE  Within(steps, from, n + 1) =
                Within(steps, from, n) \cup Ahead(steps, Within(steps, from, n))
  <2>1. PICK B : IsBall(B, steps, from, n + 1) /\ Within(steps, from, n + 1) = B[n + 1]
    BY WithinIsBall
  <2>2. PICK C : IsBall(C, steps, from, n) /\ Within(steps, from, n) = C[n]
    BY WithinIsBall
  <2>3. B[n] = C[n]
    BY <2>1, <2>2, BallsAgree
  <2>4. B[n + 1] = B[n] \cup Ahead(steps, B[n])
    <3>1. n + 1 \in 0..(n + 1) /\ n + 1 # 0 /\ (n + 1) - 1 = n
      OBVIOUS
    <3>2. QED
      BY <2>1, <3>1 DEF IsBall
  <2>5. QED
    BY <2>1, <2>2, <2>3, <2>4
<1>3. QED
  BY <1>1, <1>2

LEMMA WithinNext ==
    ASSUME NEW steps, NEW from, NEW n \in Nat, n # 0
    PROVE  Within(steps, from, n) =
              Within(steps, from, n - 1) \cup Ahead(steps, Within(steps, from, n - 1))
<1>1. n - 1 \in Nat /\ (n - 1) + 1 = n
  OBVIOUS
<1>2. Within(steps, from, (n - 1) + 1) =
         Within(steps, from, n - 1) \cup Ahead(steps, Within(steps, from, n - 1))
  BY <1>1, WithinGrows, ZenonT(30)
<1>3. QED
  BY <1>1, <1>2

LEMMA WithinIsMonotone ==
    ASSUME NEW steps, NEW from
    PROVE  \A m, n \in Nat : m <= n => Within(steps, from, m) \subseteq Within(steps, from, n)
<1> SUFFICES ASSUME NEW m \in Nat
             PROVE  \A n \in Nat : m <= n => Within(steps, from, m) \subseteq Within(steps, from, n)
  OBVIOUS
<1> DEFINE S == {n \in Nat : m <= n /\ ~ (Within(steps, from, m) \subseteq Within(steps, from, n))}
<1> SUFFICES ASSUME S # {} PROVE FALSE
  OBVIOUS
<1>1. PICK n \in S : \A k \in S : n <= k
  BY LeastExists
<1>2. n \in Nat /\ m <= n /\ ~ (Within(steps, from, m) \subseteq Within(steps, from, n))
  BY <1>1
<1>3. n # m
  BY <1>2
<1>4. n - 1 \in Nat /\ m <= n - 1 /\ ~(n <= n - 1) /\ (n - 1) + 1 = n
  BY <1>2, <1>3
<1>5. Within(steps, from, m) \subseteq Within(steps, from, n - 1)
  BY <1>1, <1>4
<1>6. Within(steps, from, n - 1) \subseteq Within(steps, from, n)
  BY <1>4, WithinGrows, SMTT(30)
<1>7. QED
  BY <1>2, <1>5, <1>6

\* The paths of the code, as they grow.
FirstPaths(steps, from) == {<<from, e[2]>> : e \in {f \in steps : f[1] = from}}
Longer(steps, P, n) ==
    P \cup UNION {{Append(w, e[2]) : e \in {f \in steps : f[1] = w[n] /\ f[2] \notin Elems(w)}}
                     : w \in {w \in P : Len(w) = n}}

IsGrown(G, steps, from, hops) ==
    G = [n \in 1..hops |-> IF n = 1 THEN FirstPaths(steps, from) ELSE Longer(steps, G[n - 1], n)]

LEMMA GrownExists ==
    ASSUME NEW steps, NEW from, NEW hops \in Nat
    PROVE  \E G : IsGrown(G, steps, from, hops)
<1> DEFINE S == {n \in Nat : ~ \E G : IsGrown(G, steps, from, n)}
<1> SUFFICES ASSUME S # {} PROVE FALSE
  OBVIOUS
<1>1. PICK k \in S : \A m \in S : k <= m
  BY LeastExists
<1>2. CASE k = 0
  <2>1. IsGrown([n \in 1..0 |-> {}], steps, from, 0)
    BY DEF IsGrown
  <2>2. QED
    BY <1>1, <1>2, <2>1
<1>3. CASE k # 0
  <2>1. k \in Nat /\ k - 1 \in Nat /\ k - 1 \notin S
    BY <1>1, <1>3
  <2>2. PICK G : IsGrown(G, steps, from, k - 1)
    BY <2>1
  <2> DEFINE last == IF k = 1 THEN FirstPaths(steps, from) ELSE Longer(steps, G[k - 1], k)
             H == [n \in 1..k |-> IF n = k THEN last ELSE G[n]]
  <2>3. ASSUME NEW n \in 1..k
        PROVE  H[n] = IF n = 1 THEN FirstPaths(steps, from) ELSE Longer(steps, H[n - 1], n)
    <3>1. CASE n = k /\ n = 1
      BY <3>1
    <3>2. CASE n = k /\ n # 1
      <4>1. k - 1 \in 1..k /\ k - 1 # k
        BY <2>1, <3>2
      <4>2. H[n - 1] = G[k - 1] /\ H[n] = Longer(steps, G[k - 1], k)
        BY <3>2, <4>1
      <4>3. QED
        BY <3>2, <4>2
    <3>3. CASE n # k
      <4>1. n \in 1..(k - 1) /\ H[n] = G[n]
        BY <2>1, <3>3
      <4>2. G[n] = IF n = 1 THEN FirstPaths(steps, from) ELSE Longer(steps, G[n - 1], n)
        BY <2>2, <4>1 DEF IsGrown
      <4>3. CASE n = 1
        BY <4>1, <4>2, <4>3
      <4>4. CASE n # 1
        <5>1. n - 1 \in 1..k /\ n - 1 # k
          BY <2>1, <4>4
        <5>2. H[n - 1] = G[n - 1]
          BY <5>1
        <5>3. QED
          BY <4>1, <4>2, <4>4, <5>2
      <4>5. QED
        BY <4>3, <4>4
    <3>4. QED
      BY <3>1, <3>2, <3>3
  <2>4. H = [n \in 1..k |-> H[n]]
    OBVIOUS
  <2> HIDE DEF H
  <2>5. IsGrown(H, steps, from, k)
    BY <2>3, <2>4 DEF IsGrown
  <2>6. QED
    BY <1>1, <2>5
<1>4. QED
  BY <1>2, <1>3

LEMMA PathsAreGrown ==
    ASSUME NEW steps, NEW from, NEW hops \in Nat \ {0}
    PROVE  \E G : IsGrown(G, steps, from, hops) /\ Paths(steps, from, hops) = G[hops]
<1> DEFINE G == CHOOSE G : IsGrown(G, steps, from, hops)
<1>1. IsGrown(G, steps, from, hops)
  BY GrownExists
<1>2. Paths(steps, from, hops) = G[hops]
  BY DEF Paths, IsGrown, FirstPaths, Longer
<1>3. QED
  BY <1>1, <1>2

\* A path of the code: it starts at the document, goes along the steps and meets no document
\* twice, but that its first step is not compared.
IsPath(w, steps, V, from, n) ==
    /\ w \in Seq(V) /\ Len(w) \in 2..(n + 1) /\ w[1] = from
    /\ \A i \in 1..(Len(w) - 1) : <<w[i], w[i + 1]>> \in steps
    /\ \A i, j \in 1..Len(w) : i < j /\ j # 2 => w[i] # w[j]

LEMMA FirstPathsArePaths ==
    ASSUME NEW V, NEW steps \in SUBSET (V \X V), NEW from \in V, NEW w
    PROVE  w \in FirstPaths(steps, from) <=> IsPath(w, steps, V, from, 1)
<1>1. ASSUME w \in FirstPaths(steps, from) PROVE IsPath(w, steps, V, from, 1)
  <2>1. PICK e \in steps : e[1] = from /\ w = <<from, e[2]>>
    BY <1>1 DEF FirstPaths
  <2>2. e = <<e[1], e[2]>> /\ e[2] \in V
    OBVIOUS
  <2>3. w \in Seq(V) /\ Len(w) = 2 /\ w[1] = from /\ w[2] = e[2]
    BY <2>1, <2>2
  <2>4. <<w[1], w[2]>> \in steps
    BY <2>1, <2>2, <2>3
  <2>5. \A i \in 1..(Len(w) - 1) : i = 1
    BY <2>3
  <2>6. \A i, j \in 1..Len(w) : i < j => j = 2
    BY <2>3
  <2>7. QED
    BY <2>3, <2>4, <2>5, <2>6 DEF IsPath
<1>2. ASSUME IsPath(w, steps, V, from, 1) PROVE w \in FirstPaths(steps, from)
  <2>0. Len(w) = 2 /\ 1 \in 1..(Len(w) - 1)
    <3>1. Len(w) \in 2..(1 + 1)
      BY <1>2 DEF IsPath
    <3>2. QED
      BY <3>1
  <2>1. w \in Seq(V) /\ Len(w) = 2 /\ w[1] = from /\ <<w[1], w[1 + 1]>> \in steps /\ 1 + 1 = 2
    BY <1>2, <2>0, 1 + 1 = 2 DEF IsPath
  <2>2. w = <<from, w[2]>>
    BY <2>1
  <2> DEFINE e == <<w[1], w[2]>>
  <2>3. e \in steps /\ e[1] = from /\ e[2] = w[2]
    BY <2>1
  <2>4. QED
    BY <2>2, <2>3 DEF FirstPaths
<1>3. QED
  BY <1>1, <1>2

LEMMA LongerPathsArePaths ==
    ASSUME NEW V, NEW steps \in SUBSET (V \X V), NEW from \in V, NEW n \in Nat, n >= 2,
           NEW P, \A u : u \in P <=> IsPath(u, steps, V, from, n - 1), NEW w
    PROVE  w \in Longer(steps, P, n) <=> IsPath(w, steps, V, from, n)
<1>0. (n - 1) + 1 = n
  OBVIOUS
<1>1. ASSUME w \in P PROVE IsPath(w, steps, V, from, n)
  <2>1. IsPath(w, steps, V, from, n - 1)
    BY <1>1
  <2>2. QED
    BY <1>0, <2>1 DEF IsPath
<1>2. ASSUME NEW u \in P, Len(u) = n, NEW e \in steps, e[1] = u[n], e[2] \notin Elems(u),
             w = Append(u, e[2])
      PROVE  IsPath(w, steps, V, from, n)
  <2>1. IsPath(u, steps, V, from, n - 1)
    OBVIOUS
  <2>2. e = <<e[1], e[2]>> /\ e[2] \in V
    OBVIOUS
  <2>3. /\ u \in Seq(V) /\ u[1] = from
        /\ \A i \in 1..(n - 1) : <<u[i], u[i + 1]>> \in steps
        /\ \A i, j \in 1..n : i < j /\ j # 2 => u[i] # u[j]
    BY <1>2, <2>1 DEF IsPath
  <2>4. /\ w \in Seq(V) /\ Len(w) = n + 1 /\ w[n + 1] = e[2]
        /\ \A i \in 1..n : w[i] = u[i]
    BY <1>2, <2>2, <2>3
  <2>5. \A i \in 1..n : u[i] # e[2]
    BY <1>2 DEF Elems
  <2>6. w[1] = from
    BY <2>3, <2>4
  <2>7. ASSUME NEW i \in 1..n PROVE <<w[i], w[i + 1]>> \in steps
    <3>1. CASE i = n
      BY <1>2, <2>2, <2>4, <3>1
    <3>2. CASE i # n
      <4>1. i \in 1..(n - 1) /\ i + 1 \in 1..n
        BY <3>2
      <4>2. QED
        BY <2>3, <2>4, <4>1
    <3>3. QED
      BY <3>1, <3>2
  <2>8. ASSUME NEW i \in 1..(n + 1), NEW j \in 1..(n + 1), i < j, j # 2 PROVE w[i] # w[j]
    <3>1. CASE j = n + 1
      <4>1. i \in 1..n
        BY <2>8, <3>1
      <4>2. QED
        BY <2>4, <2>5, <3>1, <4>1
    <3>2. CASE j # n + 1
      <4>1. i \in 1..n /\ j \in 1..n
        BY <2>8, <3>2
      <4>2. QED
        BY <2>3, <2>4, <2>8, <4>1
    <3>3. QED
      BY <3>1, <3>2
  <2>9. QED
    BY <2>4, <2>6, <2>7, <2>8 DEF IsPath
<1>3. ASSUME IsPath(w, steps, V, from, n), Len(w) # n + 1 PROVE w \in P
  <2>1. Len(w) \in 2..n
    BY <1>3 DEF IsPath
  <2>2. IsPath(w, steps, V, from, n - 1)
    BY <1>0, <1>3, <2>1 DEF IsPath
  <2>3. QED
    BY <2>2
<1>4. ASSUME IsPath(w, steps, V, from, n), Len(w) = n + 1
      PROVE  \E u \in P : /\ Len(u) = n
                          /\ \E e \in steps : /\ e[1] = u[n] /\ e[2] \notin Elems(u)
                                              /\ w = Append(u, e[2])
  <2> DEFINE u == SubSeq(w, 1, n)
             e == <<w[n], w[n + 1]>>
  <2>1. /\ w \in Seq(V) /\ w[1] = from
        /\ \A i \in 1..n : <<w[i], w[i + 1]>> \in steps
        /\ \A i, j \in 1..(n + 1) : i < j /\ j # 2 => w[i] # w[j]
    BY <1>4 DEF IsPath
  <2>2. u \in Seq(V) /\ Len(u) = n /\ \A i \in 1..n : u[i] = w[i]
    BY <1>4, <2>1
  <2>3. w = Append(u, w[n + 1])
    BY <1>4, <2>1, <2>2
  <2>4. e \in steps /\ e[1] = u[n] /\ e[2] = w[n + 1]
    BY <2>1, <2>2
  <2>5. w[n + 1] \notin Elems(u)
    <3>1. \A i \in 1..n : i \in 1..(n + 1) /\ n + 1 \in 1..(n + 1) /\ i < n + 1 /\ n + 1 # 2
      OBVIOUS
    <3>2. \A i \in 1..n : w[i] # w[n + 1]
      BY <2>1, <3>1
    <3>3. QED
      BY <2>2, <3>2 DEF Elems
  <2>6. IsPath(u, steps, V, from, n - 1)
    <3>1. u[1] = from
      BY <2>1, <2>2
    <3>2. \A i \in 1..(n - 1) : i \in 1..n /\ i + 1 \in 1..n
      OBVIOUS
    <3>3. \A i \in 1..(n - 1) : <<u[i], u[i + 1]>> \in steps
      BY <2>1, <2>2, <3>2
    <3>4. \A i, j \in 1..n : i < j /\ j # 2 => u[i] # u[j]
      BY <2>1, <2>2
    <3>5. QED
      BY <1>0, <2>2, <3>1, <3>3, <3>4 DEF IsPath
  <2> HIDE DEF u, e
  <2>7. u \in P
    BY <2>6
  <2>8. QED
    BY <2>2, <2>3, <2>4, <2>5, <2>7
<1>5. w \in Longer(steps, P, n) <=>
         \/ w \in P
         \/ \E u \in P : /\ Len(u) = n
                         /\ \E e \in steps : /\ e[1] = u[n] /\ e[2] \notin Elems(u)
                                             /\ w = Append(u, e[2])
  BY DEF Longer
<1>6. QED
  BY <1>1, <1>2, <1>3, <1>4, <1>5

\* What the code finds is every such path, and nothing else.
LEMMA PathsArePaths ==
    ASSUME NEW V, NEW steps \in SUBSET (V \X V), NEW from \in V, NEW hops \in Nat \ {0}, NEW w
    PROVE  w \in Paths(steps, from, hops) <=> IsPath(w, steps, V, from, hops)
<1>1. PICK G : IsGrown(G, steps, from, hops) /\ Paths(steps, from, hops) = G[hops]
  BY PathsAreGrown
<1> DEFINE S == {n \in Nat : n \in 1..hops /\ ~ \A u : u \in G[n] <=> IsPath(u, steps, V, from, n)}
<1>2. S = {}
  <2> SUFFICES ASSUME S # {} PROVE FALSE
    OBVIOUS
  <2>1. PICK n \in S : \A m \in S : n <= m
    BY LeastExists
  <2>2. n \in 1..hops /\ ~ \A u : u \in G[n] <=> IsPath(u, steps, V, from, n)
    BY <2>1
  <2>3. CASE n = 1
    <3>1. G[n] = FirstPaths(steps, from)
      BY <1>1, <2>2, <2>3 DEF IsGrown
    <3>2. QED
      BY <2>2, <2>3, <3>1, FirstPathsArePaths
  <2>4. CASE n # 1
    <3>1. n - 1 \in 1..hops /\ n - 1 \in Nat /\ ~(n <= n - 1) /\ n \in Nat /\ n >= 2
      BY <2>2, <2>4
    <3>2. \A u : u \in G[n - 1] <=> IsPath(u, steps, V, from, n - 1)
      BY <2>1, <3>1
    <3>3. G[n] = Longer(steps, G[n - 1], n)
      BY <1>1, <2>2, <2>4 DEF IsGrown
    <3>4. \A u : u \in G[n] <=> IsPath(u, steps, V, from, n)
      BY <3>1, <3>2, <3>3, LongerPathsArePaths
    <3>5. QED
      BY <2>2, <3>4
  <2>5. QED
    BY <2>3, <2>4
<1>3. hops \in Nat /\ hops \in 1..hops
  OBVIOUS
<1>4. QED
  BY <1>1, <1>2, <1>3

\* A way that is a step further from the document at each place.
IsLayered(w, steps, V, from, n, d) ==
    /\ w \in Seq(V) /\ Len(w) = n + 1 /\ w[1] = from /\ w[n + 1] = d
    /\ \A i \in 1..n : <<w[i], w[i + 1]>> \in steps
    /\ \A i \in 1..(n + 1) : w[i] \in Within(steps, from, i - 1)
    /\ \A i \in 2..(n + 1) : w[i] \notin Within(steps, from, i - 2)

\* Is at that distance, and no nearer.
At(steps, from, n, d) ==
    /\ d \in Within(steps, from, n)
    /\ n # 0 => d \notin Within(steps, from, n - 1)

LEMMA LayersLead ==
    ASSUME NEW V, NEW steps \in SUBSET (V \X V), NEW from \in V
    PROVE  \A n \in Nat : \A d : At(steps, from, n, d) => \E w : IsLayered(w, steps, V, from, n, d)
<1> DEFINE Lead(n) == \A d : At(steps, from, n, d) => \E w : IsLayered(w, steps, V, from, n, d)
           S == {n \in Nat : ~ Lead(n)}
<1> SUFFICES ASSUME S # {} PROVE FALSE
  OBVIOUS
<1>1. PICK n \in S : \A m \in S : n <= m
  BY LeastExists
<1>2. n \in Nat /\ ~ Lead(n)
  BY <1>1
<1>3. PICK d : At(steps, from, n, d) /\ ~ \E w : IsLayered(w, steps, V, from, n, d)
  BY <1>2
<1>4. CASE n = 0
  <2>1. Within(steps, from, 0) = {from} /\ d = from
    BY <1>3, <1>4, WithinGrows DEF At
  <2> DEFINE w == <<from>>
  <2>2. w \in Seq(V) /\ Len(w) = 1 /\ w[1] = from
    OBVIOUS
  <2>3. \A i \in 1..1 : i = 1 /\ i - 1 = 0
    OBVIOUS
  <2>4. w[1] \in Within(steps, from, 0)
    BY <2>1
  <2> HIDE DEF w
  <2>5. IsLayered(w, steps, V, from, 0, from)
    BY <2>2, <2>3, <2>4 DEF IsLayered
  <2>6. QED
    BY <1>3, <1>4, <2>1, <2>5
<1>5. CASE n # 0
  <2>1. n - 1 \in Nat /\ (n - 1) + 1 = n /\ ~(n <= n - 1)
    BY <1>2, <1>5
  <2>2. Lead(n - 1)
    BY <1>1, <2>1
  <2>3. d \in Within(steps, from, n) /\ d \notin Within(steps, from, n - 1)
    BY <1>3, <1>5 DEF At
  <2>4. Within(steps, from, n) = Within(steps, from, n - 1) \cup Ahead(steps, Within(steps, from, n - 1))
    BY <1>2, <1>5, WithinNext
  <2>5. PICK e \in steps : e[1] \in Within(steps, from, n - 1) /\ d = e[2]
    BY <2>3, <2>4 DEF Ahead
  <2>6. e = <<e[1], d>> /\ e[1] \in V /\ d \in V
    BY <2>5
  <2>7. At(steps, from, n - 1, e[1])
    <3>1. ASSUME n - 1 # 0, e[1] \in Within(steps, from, (n - 1) - 1) PROVE FALSE
      <4>1. (n - 1) - 1 \in Nat /\ ((n - 1) - 1) + 1 = n - 1
        BY <2>1, <3>1
      <4>2. d \in Ahead(steps, Within(steps, from, (n - 1) - 1))
        BY <2>5, <3>1 DEF Ahead
      <4>3. Within(steps, from, n - 1) = Within(steps, from, (n - 1) - 1)
                                            \cup Ahead(steps, Within(steps, from, (n - 1) - 1))
        BY <2>1, <3>1, WithinNext
      <4>4. QED
        BY <2>3, <4>2, <4>3
    <3>2. QED
      BY <2>5, <3>1 DEF At
  <2>8. PICK u : IsLayered(u, steps, V, from, n - 1, e[1])
    BY <2>2, <2>7
  <2>9. /\ u \in Seq(V) /\ Len(u) = n /\ u[1] = from /\ u[n] = e[1]
        /\ \A i \in 1..(n - 1) : <<u[i], u[i + 1]>> \in steps
        /\ \A i \in 1..n : u[i] \in Within(steps, from, i - 1)
        /\ \A i \in 2..n : u[i] \notin Within(steps, from, i - 2)
    BY <2>1, <2>8 DEF IsLayered
  <2> DEFINE w == Append(u, d)
  <2>10. w \in Seq(V) /\ Len(w) = n + 1 /\ w[n + 1] = d /\ \A i \in 1..n : w[i] = u[i]
    BY <2>6, <2>9
  <2> HIDE DEF w
  <2>11. w[1] = from
    BY <2>1, <2>9, <2>10
  <2>12. ASSUME NEW i \in 1..n PROVE <<w[i], w[i + 1]>> \in steps
    <3>1. CASE i = n
      BY <2>6, <2>9, <2>10, <3>1
    <3>2. CASE i # n
      <4>1. i \in 1..(n - 1) /\ i + 1 \in 1..n
        BY <2>1, <3>2
      <4>2. QED
        BY <2>9, <2>10, <4>1
    <3>3. QED
      BY <3>1, <3>2
  <2>13. ASSUME NEW i \in 1..(n + 1) PROVE w[i] \in Within(steps, from, i - 1)
    <3>1. CASE i = n + 1
      <4>1. i - 1 = n
        BY <1>2, <3>1
      <4>2. QED
        BY <2>3, <2>10, <3>1, <4>1
    <3>2. CASE i # n + 1
      <4>1. i \in 1..n
        BY <1>2, <3>2
      <4>2. QED
        BY <2>9, <2>10, <4>1
    <3>3. QED
      BY <3>1, <3>2
  <2>14. ASSUME NEW i \in 2..(n + 1) PROVE w[i] \notin Within(steps, from, i - 2)
    <3>1. CASE i = n + 1
      <4>1. i - 2 = n - 1
        BY <1>2, <3>1
      <4>2. QED
        BY <2>3, <2>10, <3>1, <4>1
    <3>2. CASE i # n + 1
      <4>1. i \in 2..n /\ i \in 1..n
        BY <1>2, <3>2
      <4>2. QED
        BY <2>9, <2>10, <4>1
    <3>3. QED
      BY <3>1, <3>2
  <2>15. IsLayered(w, steps, V, from, n, d)
    BY <2>10, <2>11, <2>12, <2>13, <2>14 DEF IsLayered
  <2>16. QED
    BY <1>3, <2>15
<1>6. QED
  BY <1>4, <1>5

\* Such a way is one of the paths.
LEMMA LayeredIsPath ==
    ASSUME NEW V, NEW steps \in SUBSET (V \X V), NEW from \in V, NEW n \in Nat \ {0},
           NEW hops \in Nat, n <= hops, NEW d, NEW w, IsLayered(w, steps, V, from, n, d)
    PROVE  IsPath(w, steps, V, from, hops)
<1>1. Len(w) = n + 1 /\ w \in Seq(V) /\ Len(w) \in 2..(hops + 1) /\ Len(w) - 1 = n /\ w[1] = from
  BY DEF IsLayered
<1>2. ASSUME NEW i \in 1..Len(w), NEW j \in 1..Len(w), i < j PROVE w[i] # w[j]
  <2>1. i \in 1..(n + 1) /\ j \in 2..(n + 1) /\ i - 1 \in Nat /\ j - 2 \in Nat /\ i - 1 <= j - 2
    BY <1>1, <1>2
  <2>2. w[i] \in Within(steps, from, i - 1) /\ w[j] \notin Within(steps, from, j - 2)
    BY <2>1 DEF IsLayered
  <2>3. Within(steps, from, i - 1) \subseteq Within(steps, from, j - 2)
    BY <2>1, WithinIsMonotone
  <2>4. QED
    BY <2>2, <2>3
<1>3. \A i \in 1..(Len(w) - 1) : <<w[i], w[i + 1]>> \in steps
  BY <1>1 DEF IsLayered
<1>4. QED
  BY <1>1, <1>2, <1>3 DEF IsPath

\* A path leads no further than its length.
LEMMA PathStaysWithin ==
    ASSUME NEW V, NEW steps \in SUBSET (V \X V), NEW from \in V, NEW hops \in Nat, NEW w,
           IsPath(w, steps, V, from, hops)
    PROVE  \A i \in 1..Len(w) : w[i] \in Within(steps, from, i - 1)
<1> DEFINE S == {n \in Nat : n \in 1..Len(w) /\ w[n] \notin Within(steps, from, n - 1)}
<1> SUFFICES ASSUME S # {} PROVE FALSE
  OBVIOUS
<1>1. PICK n \in S : \A m \in S : n <= m
  BY LeastExists
<1>2. n \in 1..Len(w) /\ w[n] \notin Within(steps, from, n - 1) /\ Len(w) \in Nat
  BY <1>1 DEF IsPath
<1>3. CASE n = 1
  <2>1. n - 1 = 0 /\ w[n] = from
    BY <1>3 DEF IsPath
  <2>2. QED
    BY <1>2, <2>1, WithinGrows
<1>4. CASE n # 1
  <2>1. n - 1 \in 1..Len(w) /\ n - 1 \in Nat /\ ~(n <= n - 1) /\ n - 1 \in 1..(Len(w) - 1)
        /\ (n - 1) + 1 = n /\ (n - 1) - 1 \in Nat /\ ((n - 1) - 1) + 1 = n - 1
    BY <1>2, <1>4
  <2>2. w[n - 1] \in Within(steps, from, (n - 1) - 1)
    BY <1>1, <2>1
  <2> DEFINE e == <<w[n - 1], w[n]>>
  <2>3. e \in steps /\ e[1] = w[n - 1] /\ e[2] = w[n]
    BY <2>1 DEF IsPath
  <2>4. w[n] \in Ahead(steps, Within(steps, from, (n - 1) - 1))
    BY <2>2, <2>3 DEF Ahead
  <2>5. n - 1 \in Nat /\ n - 1 # 0
    BY <1>2, <1>4
  <2>6. w[n] \in Within(steps, from, n - 1)
    BY <2>4, <2>5, WithinNext
  <2>7. QED
    BY <1>2, <2>6
<1>5. QED
  BY <1>3, <1>4

Directions == {"outgoing", "incoming"}

LEMMA AlongJoins ==
    ASSUME NEW V, NEW deps \in SUBSET (V \X V), NEW direction \in Directions
    PROVE  /\ Along(deps, direction) \in SUBSET (V \X V)
           /\ (\A e \in deps : e[1] # e[2]) => \A d : <<d, d>> \notin Along(deps, direction)
<1>1. \A e \in deps : e = <<e[1], e[2]>> /\ e[1] \in V /\ e[2] \in V
  OBVIOUS
<1>2. CASE direction = "outgoing"
  BY <1>1, <1>2 DEF Along
<1>3. CASE direction = "incoming"
  <2>1. Along(deps, direction) = {<<e[2], e[1]>> : e \in deps}
    BY <1>3 DEF Along
  <2>2. ASSUME NEW d, <<d, d>> \in {<<e[2], e[1]>> : e \in deps}
        PROVE  \E e \in deps : e[1] = e[2]
    BY <2>2
  <2>3. QED
    BY <1>1, <2>1, <2>2
<1>4. QED
  BY <1>2, <1>3 DEF Directions

\* A row says how a document is reached, and is of a path.
LEMMA RowsAreReached ==
    ASSUME NEW V, NEW deps \in SUBSET (V \X V), NEW direction \in Directions, NEW seed \in V,
           NEW hops \in Nat \ {0}, NEW r \in Closure(deps, seed, direction, hops)
    PROVE  LET steps == Along(deps, direction) IN
           /\ r.depth \in 1..hops /\ r.doc \in V /\ r.parent \in V
           /\ r.doc \in Within(steps, seed, r.depth)
           /\ r.parent \in Within(steps, seed, r.depth - 1)
           /\ <<r.parent, r.doc>> \in steps
           /\ r.doc = seed => <<seed, seed>> \in steps
<1> DEFINE steps == Along(deps, direction)
<1>1. steps \in SUBSET (V \X V)
  BY AlongJoins
<1>2. PICK w \in Paths(steps, seed, hops) : r = StepRow(w)
  BY DEF Closure
<1> HIDE DEF steps
<1>3. IsPath(w, steps, V, seed, hops)
  BY <1>1, PathsArePaths
<1>4. Len(w) \in 2..(hops + 1) /\ w \in Seq(V) /\ w[1] = seed
  BY <1>3 DEF IsPath
<1>5. r.parent = w[Len(w) - 1] /\ r.doc = w[Len(w)] /\ r.depth = Len(w) - 1
  BY <1>2 DEF StepRow
<1>6. /\ Len(w) \in 1..Len(w) /\ Len(w) - 1 \in 1..Len(w) /\ 1 \in 1..Len(w)
      /\ Len(w) - 1 \in 1..(Len(w) - 1) /\ (Len(w) - 1) + 1 = Len(w) /\ 1 < Len(w)
      /\ Len(w) - 1 \in 1..hops
  BY <1>4
<1>7. r.doc \in V /\ r.parent \in V /\ r.depth \in 1..hops
  BY <1>4, <1>5, <1>6
<1>8. \A i \in 1..Len(w) : w[i] \in Within(steps, seed, i - 1)
  BY <1>1, <1>3, PathStaysWithin
<1>9. r.doc \in Within(steps, seed, r.depth) /\ r.parent \in Within(steps, seed, r.depth - 1)
  BY <1>5, <1>6, <1>8
<1>10. <<r.parent, r.doc>> \in steps
  BY <1>3, <1>5, <1>6 DEF IsPath
<1>11. ASSUME r.doc = seed PROVE <<seed, seed>> \in steps
  <2>1. Len(w) = 2
    BY <1>3, <1>4, <1>5, <1>6, <1>11 DEF IsPath
  <2>2. r.parent = seed
    BY <1>4, <1>5, <2>1
  <2>3. QED
    BY <1>10, <1>11, <2>2
<1>12. QED
  BY <1>7, <1>9, <1>10, <1>11 DEF steps

\* What is within reach has a row, at its distance.
LEMMA ReachedHasRow ==
    ASSUME NEW V, NEW deps \in SUBSET (V \X V), NEW direction \in Directions, NEW seed \in V,
           NEW hops \in Nat \ {0}, NEW n \in 0..hops, NEW d, d # seed,
           d \in Within(Along(deps, direction), seed, n)
    PROVE  \E r \in Closure(deps, seed, direction, hops) : r.doc = d /\ r.depth <= n
<1> DEFINE steps == Along(deps, direction)
           S == {m \in Nat : d \in Within(steps, seed, m)}
<1>1. steps \in SUBSET (V \X V)
  BY AlongJoins
<1>2. n \in S
  OBVIOUS
<1>3. PICK k \in S : \A m \in S : k <= m
  BY <1>2, LeastExists
<1>4. k \in Nat /\ k <= n /\ d \in Within(steps, seed, k)
  BY <1>2, <1>3
<1>5. k # 0
  BY <1>4, WithinGrows
<1>6. At(steps, seed, k, d)
  <2>1. k - 1 \in Nat /\ ~(k <= k - 1)
    BY <1>4, <1>5
  <2>2. k - 1 \notin S
    BY <1>3, <2>1
  <2>3. QED
    BY <1>4, <2>1, <2>2 DEF At
<1> HIDE DEF steps
<1>7. PICK w : IsLayered(w, steps, V, seed, k, d)
  BY <1>1, <1>4, <1>6, LayersLead
<1>8. IsPath(w, steps, V, seed, hops)
  <2>1. k \in Nat \ {0} /\ k <= hops /\ hops \in Nat
    BY <1>4, <1>5
  <2>2. QED
    BY <1>1, <1>7, <2>1, LayeredIsPath
<1>9. w \in Paths(steps, seed, hops)
  BY <1>1, <1>8, PathsArePaths
<1>10. Len(w) = k + 1 /\ w[k + 1] = d
  BY <1>7 DEF IsLayered
<1>11. StepRow(w).doc = d /\ StepRow(w).depth = k
  BY <1>4, <1>10 DEF StepRow
<1>12. StepRow(w) \in Closure(deps, seed, direction, hops)
  BY <1>9 DEF Closure, steps
<1>13. QED
  BY <1>4, <1>11, <1>12

\* The least depth of a document in rows that have it.
LEMMA ShallowestIsLeast ==
    ASSUME NEW trail, \A r \in trail : r.depth \in Nat, NEW d \in ReachableDocIds(trail)
    PROVE  /\ Shallowest(trail, d) \in Nat
           /\ \E r \in trail : r.doc = d /\ r.depth = Shallowest(trail, d)
           /\ \A r \in trail : r.doc = d => Shallowest(trail, d) <= r.depth
<1> DEFINE S == {r.depth : r \in {s \in trail : s.doc = d}}
<1>1. S \in SUBSET Nat /\ S # {}
  BY DEF ReachableDocIds
<1>2. Min(S) \in S /\ \A y \in S : Min(S) <= y
  BY <1>1, LeastIsMin
<1>3. Shallowest(trail, d) = Min(S)
  BY DEF Shallowest
<1>4. QED
  BY <1>1, <1>2, <1>3

\* The shallowest row of a document in reach is at its distance.
LEMMA ShallowestIsAt ==
    ASSUME NEW V, NEW deps \in SUBSET (V \X V), NEW direction \in Directions, NEW seed \in V,
           NEW hops \in Nat \ {0}, NEW d, d # seed,
           d \in ReachableDocIds(Closure(deps, seed, direction, hops))
    PROVE  LET k == Shallowest(Closure(deps, seed, direction, hops), d) IN
           k \in 1..hops /\ At(Along(deps, direction), seed, k, d)
<1> DEFINE steps == Along(deps, direction)
           trail == Closure(deps, seed, direction, hops)
           k == Shallowest(trail, d)
<1>1. \A r \in trail : r.depth \in 1..hops /\ r.doc \in Within(steps, seed, r.depth)
  BY RowsAreReached
<1>2. \A n \in 0..hops : d \in Within(steps, seed, n) => \E r \in trail : r.doc = d /\ r.depth <= n
  BY ReachedHasRow
<1> HIDE DEF trail, steps
<1>3. \A r \in trail : r.depth \in Nat
  BY <1>1
<1>4. d \in ReachableDocIds(trail)
  BY DEF trail
<1>5. /\ k \in Nat
      /\ \E r \in trail : r.doc = d /\ r.depth = k
      /\ \A r \in trail : r.doc = d => k <= r.depth
  BY <1>3, <1>4, ShallowestIsLeast
<1>6. k \in 1..hops /\ d \in Within(steps, seed, k)
  BY <1>1, <1>5
<1> HIDE DEF k
<1>7. d \notin Within(steps, seed, k - 1)
  <2> SUFFICES ASSUME d \in Within(steps, seed, k - 1) PROVE FALSE
    OBVIOUS
  <2>1. k - 1 \in 0..hops /\ ~(k <= k - 1)
    BY <1>6
  <2>2. PICK r \in trail : r.doc = d /\ r.depth <= k - 1
    BY <1>2, <2>1
  <2>3. QED
    BY <1>3, <1>5, <1>6, <2>2
<1>8. QED
  BY <1>6, <1>7 DEF At, k, trail, steps

\* Without loops, the documents of the rows are those within reach but the document itself.
LEMMA ReachIsWithin ==
    ASSUME NEW V, NEW deps \in SUBSET (V \X V), NEW direction \in Directions, NEW seed \in V,
           NEW hops \in Nat \ {0}, \A e \in deps : e[1] # e[2]
    PROVE  ReachableDocIds(Closure(deps, seed, direction, hops)) =
              Within(Along(deps, direction), seed, hops) \ {seed}
<1> DEFINE steps == Along(deps, direction)
           trail == Closure(deps, seed, direction, hops)
<1>1. \A r \in trail : /\ r.depth \in 1..hops /\ r.doc \in Within(steps, seed, r.depth)
                       /\ r.doc = seed => <<seed, seed>> \in steps
  BY RowsAreReached
<1>2. <<seed, seed>> \notin steps
  BY AlongJoins
<1>3. hops \in 0..hops /\ hops \in Nat
  OBVIOUS
<1>4. \A d : d # seed /\ d \in Within(steps, seed, hops) => \E r \in trail : r.doc = d
  BY <1>3, ReachedHasRow
<1> HIDE DEF trail, steps
<1>5. ASSUME NEW r \in trail PROVE r.doc \in Within(steps, seed, hops) \ {seed}
  <2>1. r.depth \in Nat /\ r.depth <= hops
    BY <1>1
  <2>2. Within(steps, seed, r.depth) \subseteq Within(steps, seed, hops)
    BY <1>3, <2>1, WithinIsMonotone
  <2>3. QED
    BY <1>1, <1>2, <2>2
<1>6. ReachableDocIds(trail) = Within(steps, seed, hops) \ {seed}
  BY <1>4, <1>5 DEF ReachableDocIds
<1>7. QED
  BY <1>6 DEF trail, steps

\* To be at a distance is to be within it and not within less, and there is one such.
LEMMA AtIsDistance ==
    ASSUME NEW steps, NEW from, NEW d, NEW k \in 0..HopLimit, At(steps, from, k, d)
    PROVE  Distance(steps, from, d) = k
<1> DEFINE S == {n \in 0..HopLimit : d \in Within(steps, from, n)}
<1>1. S \in SUBSET Nat /\ k \in S
  BY HopAssumption DEF At
<1>2. ASSUME NEW n \in S PROVE k <= n
  <2> SUFFICES ASSUME n < k PROVE FALSE
    BY <1>1
  <2>1. n \in Nat /\ k \in Nat /\ k # 0 /\ k - 1 \in Nat /\ n <= k - 1
    BY <1>1
  <2>2. Within(steps, from, n) \subseteq Within(steps, from, k - 1)
    BY <2>1, WithinIsMonotone
  <2>3. QED
    BY <2>1, <2>2 DEF At
<1>3. Min(S) = k
  BY <1>1, <1>2, MinIs
<1>4. QED
  BY <1>3 DEF Distance

-----------------------------------------------------------------------------
(***************************************************************************)
(* AgentExport: the documents of an export.                                *)
(***************************************************************************)

Once(list) == \A i, j \in 1..Len(list) : i # j => list[i] # list[j]

\* What is picked is what stands at those places, once if it was there once.
LEMMA PickedKeeps ==
    ASSUME NEW S, NEW list \in Seq(S), NEW P \in SUBSET (1..Len(list))
    PROVE  /\ Elems(Picked(list, P)) = {list[i] : i \in P}
           /\ Once(list) => Once(Picked(list, P))
<1> DEFINE stay == Picked(list, P)
<1>0. PICK at \in [1..Cardinality(P) -> P] : PickedAt(list, P, at)
  BY PickedIsInOrder
<1>1. /\ \A n \in 1..Cardinality(P) : Picked(list, P)[n] = list[at[n]]
      /\ \A m, n \in 1..Cardinality(P) : m < n => at[m] < at[n]
      /\ \A i \in P : i \in {at[n] : n \in 1..Cardinality(P)}
  BY <1>0 DEF PickedAt
<1>2. Len(stay) = Cardinality(P) /\ stay \in Seq(S)
  BY PickedIsInOrder
<1>3. /\ \A n \in 1..Len(stay) : stay[n] = list[at[n]] /\ at[n] \in P
      /\ \A m, n \in 1..Len(stay) : m < n => at[m] < at[n]
      /\ \A i \in P : \E n \in 1..Len(stay) : at[n] = i
  BY <1>1, <1>2
<1>4. \A i \in P : i \in 1..Len(list) /\ i \in Nat
  OBVIOUS
<1> HIDE DEF stay
<1>5. Elems(stay) = {list[i] : i \in P}
  <2>1. \A n \in 1..Len(stay) : stay[n] \in {list[i] : i \in P}
    BY <1>3
  <2>2. ASSUME NEW i \in P PROVE list[i] \in Elems(stay)
    <3>1. PICK n \in 1..Len(stay) : at[n] = i
      BY <1>3
    <3>2. stay[n] = list[i]
      BY <1>3, <3>1
    <3>3. QED
      BY <3>2 DEF Elems
  <2>3. QED
    BY <2>1, <2>2 DEF Elems
<1>6. ASSUME Once(list), NEW m \in 1..Len(stay), NEW n \in 1..Len(stay), m # n
      PROVE  stay[m] # stay[n]
  <2>1. at[m] \in 1..Len(list) /\ at[n] \in 1..Len(list) /\ at[m] \in Nat /\ at[n] \in Nat
    BY <1>3, <1>4
  <2>2. at[m] # at[n]
    <3>1. CASE m < n
      BY <1>3, <2>1, <3>1
    <3>2. CASE n < m
      BY <1>3, <2>1, <3>2
    <3>3. m \in Nat /\ n \in Nat
      BY <1>2
    <3>4. QED
      BY <1>6, <3>1, <3>2, <3>3
  <2>3. QED
    BY <1>3, <1>6, <2>1, <2>2, SMTT(30) DEF Once
<1>7. Once(list) => Once(stay)
  BY <1>6 DEF Once
<1>8. QED
  BY <1>5, <1>7 DEF stay

\* What is kept of a list is what is in the set.
LEMMA OnlyKeeps ==
    ASSUME NEW S, NEW list \in Seq(S), NEW set
    PROVE  /\ Only(list, set) \in Seq(S)
           /\ Elems(Only(list, set)) = Elems(list) \cap set
           /\ Once(list) => Once(Only(list, set))
<1> DEFINE P == {i \in 1..Len(list) : list[i] \in set}
<1>1. Only(list, set) = Picked(list, P) /\ P \in SUBSET (1..Len(list))
  BY DEF Only, Picked
<1>2. {list[i] : i \in P} = Elems(list) \cap set
  BY DEF Elems
<1> HIDE DEF P
<1>3. Picked(list, P) \in Seq(S)
  BY <1>1, PickedIsInOrder
<1>4. Elems(Picked(list, P)) = {list[i] : i \in P} /\ (Once(list) => Once(Picked(list, P)))
  BY <1>1, PickedKeeps
<1>5. QED
  BY <1>1, <1>2, <1>3, <1>4

LEMMA OrderingsList ==
    ASSUME NEW S, IsFiniteSet(S), NEW s \in Orderings(S)
    PROVE  s \in Seq(S) /\ Elems(s) = S /\ Once(s) /\ Len(s) = Cardinality(S)
<1>1. Cardinality(S) \in Nat
  BY FS_CardinalityType
<1>2. s \in [1..Cardinality(S) -> S] /\ s \in Seq(S) /\ Len(s) = Cardinality(S)
  BY <1>1 DEF Orderings
<1>3. Once(s)
  BY <1>2 DEF Once, Orderings
<1>4. s \in Injection(1..Cardinality(S), S)
  BY <1>2 DEF Orderings, Injection, IsInjective
<1>5. s \in Surjection(1..Cardinality(S), S)
  <2>1. IsFiniteSet(1..Cardinality(S)) /\ Cardinality(1..Cardinality(S)) = Cardinality(S)
    BY <1>1, FS_Interval
  <2>2. QED
    BY <1>4, <2>1, FS_Injection
<1>6. Elems(s) = S
  BY <1>2, <1>5 DEF Elems, Surjection
<1>7. QED
  BY <1>2, <1>3, <1>6

\* The depths of the documents an export has met, before its closures are read.
NoDepths == [d \in Sheets |-> 0]

ExportStages == {"none", "mentions", "listed", "closures", "answered", "refused"}

BinderOK ==
    binder \in [there : SUBSET Sheets, read : SUBSET Sheets, named : SUBSET Sheets,
                deps : SUBSET Couplings, status : {binder.status}, stored : {binder.stored}]

Orders(p, l) ==
    [kind : {"none", "agent", "document"}, stage : ExportStages,
     allowed : SUBSET Sheets, roots : Seq(Sheets), left : SUBSET Sheets,
     depths : [Sheets -> Nat], answer : Seq(Sheets), rows : SUBSET Sheets,
     printed : {p}, live : {l}, seen : [Sheets -> SUBSET Couplings]]

OrderOK == order \in Orders(order.printed, order.live)

\* Those of the documents asked for whose closures were read.
Followed == Elems(order.roots) \ order.left

\* A depth is the distance from one of these, and none of them is nearer.
DepthIsNearest(d) ==
    /\ order.depths[d] # 0 =>
          /\ d \in order.allowed /\ order.depths[d] \in 1..HopLimit
          /\ \E r \in Followed : At(order.seen[r], r, order.depths[d], d)
    /\ \A r \in Followed, n \in 0..HopLimit :
          d \in order.allowed /\ d # r /\ d \in Within(order.seen[r], r, n) =>
              order.depths[d] # 0 /\ order.depths[d] <= n

\* An answer has what was asked for and what that led to, but for what is gone; first what
\* was asked for, then by depth.
AnswerIsWhole ==
    /\ Once(order.answer)
    /\ order.rows \subseteq Elems(order.roots) \cup {d \in Sheets : order.depths[d] # 0}
    /\ (Elems(order.roots) \cup {d \in Sheets : order.depths[d] # 0}) \cap binder.there
          \subseteq order.rows
    /\ \A i, j \in 1..Len(order.answer) :
          i < j /\ order.answer[i] \notin Elems(order.roots) =>
             /\ order.answer[j] \notin Elems(order.roots)
             /\ order.depths[order.answer[i]] <= order.depths[order.answer[j]]

\* The inductive invariant.
ExportInv ==
    /\ BinderOK /\ OrderOK /\ ExportTypeOK /\ Once(order.roots)
    /\ order.stage \in {"mentions", "listed"} =>
          order.depths = NoDepths /\ order.answer = <<>> /\ order.rows = {}
    /\ order.stage \in {"closures", "answered"} => \A d \in Sheets : DepthIsNearest(d)
    /\ order.stage = "answered" => AnswerIsWhole

LEMMA CouplingsJoin ==
    /\ Couplings \in SUBSET (Sheets \X Sheets)
    /\ \A e \in Couplings : e[1] # e[2]
  BY ExportAssumption

LEMMA ExportStarts == ExportInit => ExportInv
<1> SUFFICES ASSUME ExportInit PROVE ExportInv
  OBVIOUS
<1>1. order = NoOrder
  BY DEF ExportInit
<1>2. BinderOK /\ binder.there = Sheets
  BY DEF ExportInit, BinderOK
<1>3. /\ order.stage = "none" /\ order.roots = <<>> /\ order.left = {} /\ order.rows = {}
      /\ order.answer = <<>> /\ order.kind = "none"
  BY <1>1 DEF NoOrder
<1>4. OrderOK
  BY <1>1 DEF NoOrder, OrderOK, Orders, ExportStages
<1>5. \A e \in binder.deps : {e[1], e[2]} \subseteq Sheets
  BY <1>2, CouplingsJoin DEF BinderOK
<1>6. ExportTypeOK
  BY <1>2, <1>3, <1>5 DEF ExportTypeOK, BinderOK
<1>7. Once(order.roots)
  BY <1>3 DEF Once
<1>8. QED
  BY <1>2, <1>3, <1>4, <1>6, <1>7 DEF ExportInv

\* What others do to the documents leaves an export as it is.
LEMMA UpsetKeeps ==
    ASSUME ExportInv, order' = order, BinderOK', binder'.there \subseteq binder.there,
           binder'.named \subseteq binder'.there,
           \A e \in binder'.deps : {e[1], e[2]} \subseteq binder'.there
    PROVE  ExportInv'
<1>1. OrderOK'
  BY DEF ExportInv, OrderOK, Orders
<1>2. ExportTypeOK'
  BY DEF ExportInv, ExportTypeOK, BinderOK
<1>3. Once(order.roots)'
  BY DEF ExportInv, Once
<1>4. \A d \in Sheets : DepthIsNearest(d) => DepthIsNearest(d)'
  BY DEF DepthIsNearest, Followed
<1>5. AnswerIsWhole => AnswerIsWhole'
  BY DEF AnswerIsWhole, Once
<1>6. QED
  BY <1>1, <1>2, <1>3, <1>4, <1>5 DEF ExportInv

LEMMA BinderMoves ==
    ASSUME ExportInv, UNCHANGED binder
    PROVE  /\ BinderOK'
           /\ binder'.there \subseteq Sheets /\ binder'.read \subseteq Sheets
           /\ binder'.deps \subseteq Couplings /\ binder'.named \subseteq binder'.there
           /\ \A e \in binder'.deps : {e[1], e[2]} \subseteq binder'.there
  BY DEF ExportInv, BinderOK, ExportTypeOK

NoPrint == [d \in Sheets |-> NoStatus]
NoneSeen == [d \in Sheets |-> {}]

LEMMA NoOrderIs ==
    NoOrder = [kind |-> "none", stage |-> "none", allowed |-> {}, roots |-> <<>>, left |-> {},
               depths |-> NoDepths, answer |-> <<>>, rows |-> {}, printed |-> NoPrint,
               live |-> NoPrint, seen |-> NoneSeen]
  BY DEF NoOrder, NoDepths, NoPrint, NoneSeen

\* An export that begins.
Asked(k, st, a, rs) ==
    [kind |-> k, stage |-> st, allowed |-> a, roots |-> rs, left |-> {}, depths |-> NoDepths,
     answer |-> <<>>, rows |-> {}, printed |-> NoPrint, live |-> NoPrint, seen |-> NoneSeen]

LEMMA AskedIsOrder ==
    ASSUME NEW a \in SUBSET Sheets, NEW k \in {"none", "agent", "document"},
           NEW st \in ExportStages, NEW rs \in Seq(Sheets)
    PROVE  Asked(k, st, a, rs) \in Orders(NoPrint, NoPrint)
<1>1. /\ <<>> \in Seq(Sheets) /\ NoDepths \in [Sheets -> Nat]
      /\ NoneSeen \in [Sheets -> SUBSET Couplings]
  BY DEF NoDepths, NoneSeen
<1>2. QED
  BY <1>1 DEF Asked, Orders

LEMMA AskForAgentSteps == ASSUME ExportInv, AskForAgent PROVE ExportInv'
<1> DEFINE st == IF Readable = {} THEN "refused" ELSE "mentions"
<1>1. order' = Asked("agent", st, Readable, <<>>)
  <2>1. order' = [NoOrder EXCEPT !.kind = "agent", !.allowed = Readable, !.stage = st]
    BY DEF AskForAgent
  <2>2. QED
    BY <2>1, NoOrderIs DEF Asked
<1>2. UNCHANGED binder /\ Readable \in SUBSET Sheets /\ <<>> \in Seq(Sheets)
  BY DEF AskForAgent, Readable, ExportInv, BinderOK
<1>3. st \in {"refused", "mentions"} /\ st \in ExportStages
  BY DEF ExportStages
<1> HIDE DEF st
<1>4. "agent" \in {"none", "agent", "document"}
  OBVIOUS
<1>5. /\ order'.stage = st /\ order'.roots = <<>> /\ order'.kind = "agent"
      /\ order' \in Orders(NoPrint, NoPrint) /\ order'.depths = NoDepths
      /\ order'.printed = NoPrint /\ order'.live = NoPrint
      /\ order'.left = {} /\ order'.rows = {} /\ order'.answer = <<>>
  <2>1. order' \in Orders(NoPrint, NoPrint)
    BY <1>1, <1>2, <1>3, <1>4, AskedIsOrder
  <2>2. QED
    BY <1>1, <2>1 DEF Asked
<1>6. OrderOK'
  BY <1>5 DEF OrderOK, Orders
<1>7. ExportTypeOK'
  BY <1>2, <1>3, <1>4, <1>5, BinderMoves DEF ExportTypeOK
<1>8. Once(order.roots)'
  BY <1>5 DEF Once
<1>9. QED
  BY <1>2, <1>3, <1>4, <1>5, <1>6, <1>7, <1>8, BinderMoves DEF ExportInv

LEMMA AskForDocumentSteps ==
    ASSUME ExportInv, NEW d \in Sheets, AskForDocument(d) PROVE ExportInv'
<1> DEFINE st == IF d \in Readable THEN "listed" ELSE "refused"
<1>1. order' = Asked("document", st, Readable, <<d>>)
  <2>1. order' = [NoOrder EXCEPT !.kind = "document", !.allowed = Readable, !.roots = <<d>>,
                                 !.stage = st]
    BY DEF AskForDocument
  <2>2. QED
    BY <2>1, NoOrderIs DEF Asked
<1>2. UNCHANGED binder /\ Readable \in SUBSET Sheets /\ <<d>> \in Seq(Sheets)
  BY DEF AskForDocument, Readable, ExportInv, BinderOK
<1>3. st \in {"refused", "listed"} /\ st \in ExportStages
  BY DEF ExportStages
<1> HIDE DEF st
<1>4. "document" \in {"none", "agent", "document"}
  OBVIOUS
<1>5. /\ order'.stage = st /\ order'.roots = <<d>>
      /\ order' \in Orders(NoPrint, NoPrint) /\ order'.depths = NoDepths
      /\ order'.printed = NoPrint /\ order'.live = NoPrint
      /\ order'.left = {} /\ order'.rows = {} /\ order'.answer = <<>>
  <2>1. order' \in Orders(NoPrint, NoPrint)
    BY <1>1, <1>2, <1>3, <1>4, AskedIsOrder
  <2>2. QED
    BY <1>1, <2>1 DEF Asked
<1>6. OrderOK'
  BY <1>5 DEF OrderOK, Orders
<1>7. ExportTypeOK'
  BY <1>2, <1>3, <1>4, <1>5, BinderMoves DEF ExportTypeOK
<1>8. Once(order.roots)'
  BY <1>5 DEF Once
<1>9. QED
  BY <1>2, <1>3, <1>4, <1>5, <1>6, <1>7, <1>8, BinderMoves DEF ExportInv

LEMMA ReadMentionsSteps == ASSUME ExportInv, ReadMentions PROVE ExportInv'
<1>1. PICK s \in Orderings(binder.named \cap order.allowed) :
        order' = [order EXCEPT !.roots = s,
                               !.stage = IF s = <<>> THEN "refused" ELSE "listed"]
  BY DEF ReadMentions
<1>2. UNCHANGED binder /\ order.stage = "mentions" /\ OrderOK
  BY DEF ReadMentions, ExportInv
<1>3. s \in Seq(Sheets) /\ Once(s)
  <2> DEFINE S == binder.named \cap order.allowed
  <2>1. S \subseteq Sheets /\ IsFiniteSet(S)
    BY <1>2, ExportAssumption, FS_Subset DEF OrderOK, Orders
  <2> HIDE DEF S
  <2>2. s \in Seq(S) /\ Once(s)
    BY <1>1, <2>1, OrderingsList DEF S
  <2>3. QED
    BY <2>1, <2>2
<1>4. /\ order'.stage \in {"refused", "listed"} /\ order'.roots = s /\ order'.left = order.left
      /\ order'.rows = order.rows /\ order'.answer = order.answer /\ order'.depths = order.depths
  BY <1>1, <1>2 DEF OrderOK, Orders
<1>5. order.left = {} /\ order.depths = NoDepths /\ order.answer = <<>> /\ order.rows = {}
  BY <1>2 DEF ExportInv, ExportTypeOK, Elems
<1>6. OrderOK'
  BY <1>1, <1>2, <1>3 DEF OrderOK, Orders, ExportStages
<1>7. ExportTypeOK'
  BY <1>2, <1>4, <1>5, BinderMoves DEF ExportTypeOK
<1>8. Once(order.roots)'
  BY <1>3, <1>4 DEF Once
<1>9. QED
  BY <1>2, <1>4, <1>5, <1>6, <1>7, <1>8, BinderMoves DEF ExportInv

LEMMA ListAgainSteps == ASSUME ExportInv, ListAgain PROVE ExportInv'
<1> DEFINE those == Only(order.roots, Readable)
           st == IF those # <<>> THEN "closures"
                 ELSE IF order.kind = "agent" THEN "answered" ELSE "refused"
<1>1. /\ order' = [order EXCEPT !.allowed = Readable, !.roots = those, !.left = Elems(those),
                                !.stage = st]
      /\ UNCHANGED binder /\ order.stage = "listed"
  BY DEF ListAgain
<1>2. /\ OrderOK /\ order.depths = NoDepths /\ order.answer = <<>> /\ order.rows = {}
      /\ Once(order.roots) /\ order.roots \in Seq(Sheets)
  BY <1>1 DEF ExportInv, OrderOK, Orders
<1>3. those \in Seq(Sheets) /\ Once(those)
  BY <1>2, OnlyKeeps
<1>4. /\ Elems(those) \in SUBSET Sheets /\ (those = <<>> => Elems(those) = {})
      /\ Readable \in SUBSET Sheets
  <2>1. Elems(those) \in SUBSET Sheets
    BY <1>3 DEF Elems
  <2>2. those = <<>> => Elems(those) = {}
    BY DEF Elems
  <2>3. Readable \in SUBSET Sheets
    BY DEF Readable, ExportInv, BinderOK
  <2>4. QED
    BY <2>1, <2>2, <2>3
<1>5. st \in {"closures", "answered", "refused"} /\ (st = "answered" => those = <<>>)
  OBVIOUS
<1> HIDE DEF those, st
<1>6. /\ order'.stage = st /\ order'.roots = those /\ order'.left = Elems(those)
      /\ order'.depths = NoDepths /\ order'.answer = <<>> /\ order'.rows = {}
  BY <1>1, <1>2 DEF OrderOK, Orders
<1>7. OrderOK'
  BY <1>1, <1>2, <1>3, <1>4, <1>5 DEF OrderOK, Orders, ExportStages
<1>8. ExportTypeOK'
  BY <1>1, <1>4, <1>5, <1>6, BinderMoves DEF ExportTypeOK, Elems
<1>9. \A d \in Sheets : DepthIsNearest(d)'
  BY <1>6 DEF DepthIsNearest, Followed, NoDepths
<1>10. st = "answered" => AnswerIsWhole'
  <2>1. Once(<<>>)
    BY DEF Once
  <2>2. \A d \in Sheets : NoDepths[d] = 0
    BY DEF NoDepths
  <2>3. QED
    BY <1>4, <1>5, <1>6, <2>1, <2>2 DEF AnswerIsWhole
<1>11. QED
  BY <1>1, <1>3, <1>5, <1>6, <1>7, <1>8, <1>9, <1>10, BinderMoves DEF ExportInv

LEMMA LeastDepthIs ==
    ASSUME NEW known \in Nat, NEW found \in Nat \ {0}
    PROVE  LET v == LeastDepth(known, found) IN
           v \in Nat \ {0} /\ v <= found /\ (known # 0 => v <= known) /\ (v # found => v = known /\ known # 0)
  BY DEF LeastDepth

\* What the closure of a document says of another.
LEMMA ClosureTells ==
    ASSUME NEW deps \in SUBSET Couplings, NEW r \in Sheets, NEW d
    PROVE  LET trail == Closure(deps, r, "outgoing", HopLimit) IN
           /\ d \in ReachableDocIds(trail) =>
                 /\ d # r /\ d \in Sheets /\ Shallowest(trail, d) \in 1..HopLimit
                 /\ At(deps, r, Shallowest(trail, d), d)
           /\ \A n \in 0..HopLimit : d # r /\ d \in Within(deps, r, n) =>
                 d \in ReachableDocIds(trail) /\ Shallowest(trail, d) <= n
<1> DEFINE trail == Closure(deps, r, "outgoing", HopLimit)
<1>1. /\ deps \in SUBSET (Sheets \X Sheets) /\ \A e \in deps : e[1] # e[2]
      /\ "outgoing" \in Directions /\ HopLimit \in Nat \ {0}
  BY CouplingsJoin, HopAssumption DEF Directions
<1>2. Along(deps, "outgoing") = deps
  BY DEF Along
<1>3. ASSUME d \in ReachableDocIds(trail)
      PROVE  /\ d # r /\ d \in Sheets /\ Shallowest(trail, d) \in 1..HopLimit
             /\ At(deps, r, Shallowest(trail, d), d)
  <2>1. d # r
    <3>1. ReachableDocIds(Closure(deps, r, "outgoing", HopLimit)) =
             Within(Along(deps, "outgoing"), r, HopLimit) \ {r}
      BY <1>1, ReachIsWithin
    <3>2. QED
      BY <1>3, <3>1
  <2>2. d \in Sheets
    <3>1. PICK x \in trail : x.doc = d
      BY <1>3 DEF ReachableDocIds
    <3>2. x.doc \in Sheets
      BY <1>1, <3>1, RowsAreReached
    <3>3. QED
      BY <3>1, <3>2
  <2>3. Shallowest(trail, d) \in 1..HopLimit /\ At(Along(deps, "outgoing"), r, Shallowest(trail, d), d)
    BY <1>1, <1>3, <2>1, ShallowestIsAt
  <2>4. QED
    BY <1>2, <2>1, <2>2, <2>3
<1>4. ASSUME NEW n \in 0..HopLimit, d # r, d \in Within(deps, r, n)
      PROVE  d \in ReachableDocIds(trail) /\ Shallowest(trail, d) <= n
  <2>1. PICK x \in trail : x.doc = d /\ x.depth <= n
    BY <1>1, <1>2, <1>4, ReachedHasRow
  <2>2. \A y \in trail : y.depth \in 1..HopLimit
    BY <1>1, RowsAreReached
  <2> HIDE DEF trail
  <2>3. d \in ReachableDocIds(trail) /\ \A y \in trail : y.depth \in Nat
    BY <2>1, <2>2 DEF ReachableDocIds
  <2>4. Shallowest(trail, d) \in Nat /\ Shallowest(trail, d) <= x.depth
    BY <2>1, <2>3, ShallowestIsLeast
  <2>5. QED
    BY <2>1, <2>3, <2>4
<1>5. QED
  BY <1>3, <1>4

LEMMA ReadClosureSteps == ASSUME ExportInv, NEW r \in Sheets, ReadClosure(r) PROVE ExportInv'
<1> DEFINE trail == Closure(binder.deps, r, "outgoing", HopLimit)
           met == ReachableDocIds(trail) \cap order.allowed
           depths == [d \in Sheets |-> IF d \in met THEN LeastDepth(order.depths[d], Shallowest(trail, d))
                                       ELSE order.depths[d]]
<1>1. /\ order' = [order EXCEPT !.left = order.left \ {r},
                                !.seen = [order.seen EXCEPT ![r] = binder.deps],
                                !.depths = depths]
      /\ UNCHANGED binder /\ order.stage = "closures" /\ r \in order.left
  BY DEF ReadClosure
<1>2. /\ OrderOK /\ binder.deps \in SUBSET Couplings /\ order.depths \in [Sheets -> Nat]
      /\ order.seen \in [Sheets -> SUBSET Couplings] /\ order.left \subseteq Elems(order.roots)
      /\ order.left \in SUBSET Sheets
  BY DEF ExportInv, OrderOK, Orders, ExportTypeOK
<1>3. ASSUME NEW d \in met
      PROVE  /\ Shallowest(trail, d) \in Nat \ {0} /\ Shallowest(trail, d) \in 1..HopLimit
             /\ d # r /\ d \in order.allowed /\ At(binder.deps, r, Shallowest(trail, d), d)
  <2>1. /\ d # r /\ Shallowest(trail, d) \in 1..HopLimit
        /\ At(binder.deps, r, Shallowest(trail, d), d)
    BY <1>2, ClosureTells
  <2>2. \A n \in 1..HopLimit : n \in Nat \ {0}
    BY HopAssumption
  <2> HIDE DEF trail
  <2>3. QED
    BY <2>1, <2>2
<1>4. ASSUME NEW d, NEW n \in 0..HopLimit, d # r, d \in order.allowed, d \in Within(binder.deps, r, n)
      PROVE  d \in met /\ Shallowest(trail, d) <= n
  BY <1>2, <1>4, ClosureTells
<1> HIDE DEF trail, met
<1>5. ASSUME NEW d \in Sheets
      PROVE  /\ depths[d] \in Nat
             /\ order.depths[d] # 0 => depths[d] # 0 /\ depths[d] <= order.depths[d]
             /\ d \in met => depths[d] # 0 /\ depths[d] <= Shallowest(trail, d)
             /\ depths[d] # order.depths[d] => d \in met /\ depths[d] = Shallowest(trail, d)
  <2>1. order.depths[d] \in Nat
    BY <1>2
  <2>2. CASE d \in met
    <3>1. depths[d] = LeastDepth(order.depths[d], Shallowest(trail, d))
      BY <2>2
    <3>2. QED
      BY <1>3, <2>1, <2>2, <3>1, LeastDepthIs
  <2>3. CASE d \notin met
    BY <2>1, <2>3
  <2>4. QED
    BY <2>2, <2>3
<1>6. depths \in [Sheets -> Nat]
  BY <1>5
<1> DEFINE seen == [order.seen EXCEPT ![r] = binder.deps]
<1>7. seen \in [Sheets -> SUBSET Couplings] /\ seen[r] = binder.deps
      /\ \A q \in Sheets : q # r => seen[q] = order.seen[q]
  BY <1>2
<1>8. order' = [order EXCEPT !.left = order.left \ {r}, !.seen = seen, !.depths = depths]
  BY <1>1
<1> HIDE DEF depths, seen
<1>9. /\ order'.stage = "closures" /\ order'.roots = order.roots /\ order'.left = order.left \ {r}
      /\ order'.depths = depths /\ order'.answer = order.answer /\ order'.rows = order.rows
      /\ order'.seen = seen /\ order'.allowed = order.allowed /\ order'.kind = order.kind
  BY <1>1, <1>2, <1>8 DEF OrderOK, Orders
<1>10. OrderOK'
  BY <1>2, <1>6, <1>7, <1>8 DEF OrderOK, Orders
<1>11. ExportTypeOK'
  BY <1>2, <1>9, <1>1, BinderMoves DEF ExportTypeOK
<1>12. /\ Followed' = Followed \cup {r} /\ r \notin Followed
       /\ Followed \subseteq Sheets
  <2>1. Elems(order.roots) \subseteq Sheets
    BY <1>2 DEF OrderOK, Orders, Elems
  <2>2. QED
    BY <1>1, <1>2, <1>9, <2>1 DEF Followed
<1>13. ASSUME NEW d \in Sheets PROVE DepthIsNearest(d)'
  <2>1. DepthIsNearest(d)
    BY <1>1 DEF ExportInv
  <2>2. ASSUME depths[d] # 0
        PROVE  /\ d \in order.allowed /\ depths[d] \in 1..HopLimit
               /\ \E q \in Followed' : At(seen[q], q, depths[d], d)
    <3>1. CASE depths[d] = order.depths[d]
      <4>1. PICK q \in Followed : At(order.seen[q], q, order.depths[d], d)
        BY <2>1, <2>2, <3>1 DEF DepthIsNearest
      <4>2. q # r /\ q \in Sheets /\ q \in Followed'
        BY <1>12
      <4>3. seen[q] = order.seen[q]
        BY <1>7, <4>2
      <4>4. QED
        BY <2>1, <2>2, <3>1, <4>1, <4>2, <4>3 DEF DepthIsNearest
    <3>2. CASE depths[d] # order.depths[d]
      <4>1. d \in met /\ depths[d] = Shallowest(trail, d)
        BY <1>5, <3>2
      <4>2. QED
        BY <1>3, <1>7, <1>12, <4>1
    <3>3. QED
      BY <3>1, <3>2
  <2>3. ASSUME NEW q \in Followed', NEW n \in 0..HopLimit, d \in order.allowed, d # q,
               d \in Within(seen[q], q, n)
        PROVE  depths[d] # 0 /\ depths[d] <= n
    <3>0. depths[d] \in Nat /\ order.depths[d] \in Nat /\ n \in Nat
      BY <1>2, <1>5
    <3>1. CASE q = r
      <4>1. d \in met /\ Shallowest(trail, d) <= n
        BY <1>4, <1>7, <2>3, <3>1
      <4>2. Shallowest(trail, d) \in Nat /\ depths[d] # 0 /\ depths[d] <= Shallowest(trail, d)
        BY <1>3, <1>5, <4>1
      <4>3. QED
        BY <3>0, <4>1, <4>2
    <3>2. CASE q # r
      <4>1. q \in Followed /\ seen[q] = order.seen[q]
        BY <1>7, <1>12, <3>2
      <4>2. order.depths[d] # 0 /\ order.depths[d] <= n
        BY <2>1, <2>3, <4>1 DEF DepthIsNearest
      <4>3. depths[d] # 0 /\ depths[d] <= order.depths[d]
        BY <1>5, <4>2
      <4>4. QED
        BY <3>0, <4>2, <4>3
    <3>3. QED
      BY <3>1, <3>2
  <2>4. QED
    BY <1>9, <2>2, <2>3 DEF DepthIsNearest
<1>14. Once(order.roots)'
  BY <1>9 DEF ExportInv, Once
<1>15. QED
  BY <1>1, <1>9, <1>10, <1>11, <1>13, <1>14, BinderMoves DEF ExportInv

\* What grows from each place to the next grows from any to any later one.
LEMMA GrowsAlong ==
    ASSUME NEW n \in Nat, NEW f, \A i \in 1..n : f[i] \in Nat,
           \A i \in 1..(n - 1) : f[i] <= f[i + 1]
    PROVE  \A i, j \in 1..n : i <= j => f[i] <= f[j]
<1> SUFFICES ASSUME NEW i \in 1..n PROVE \A j \in 1..n : i <= j => f[i] <= f[j]
  OBVIOUS
<1> DEFINE S == {j \in Nat : j \in 1..n /\ i <= j /\ ~ (f[i] <= f[j])}
<1> SUFFICES ASSUME S # {} PROVE FALSE
  OBVIOUS
<1>1. PICK j \in S : \A k \in S : j <= k
  BY LeastExists
<1>2. j \in 1..n /\ i <= j /\ ~ (f[i] <= f[j]) /\ f[i] \in Nat /\ f[j] \in Nat
  BY <1>1
<1>3. i # j
  BY <1>2
<1>4. j - 1 \in 1..n /\ j - 1 \in Nat /\ i <= j - 1 /\ ~(j <= j - 1) /\ j - 1 \in 1..(n - 1)
      /\ (j - 1) + 1 = j
  BY <1>2, <1>3
<1>5. f[i] <= f[j - 1] /\ f[j - 1] \in Nat
  BY <1>1, <1>4
<1>6. f[j - 1] <= f[j]
  BY <1>4
<1>7. QED
  BY <1>2, <1>5, <1>6

\* Two lists one after the other.
LEMMA OneAfterTheOther ==
    ASSUME NEW S, NEW s \in Seq(S), NEW t \in Seq(S)
    PROVE  /\ s \o t \in Seq(S) /\ Len(s \o t) = Len(s) + Len(t)
           /\ \A i \in 1..Len(s) : (s \o t)[i] = s[i]
           /\ \A i \in 1..Len(s \o t) : i > Len(s) =>
                 i - Len(s) \in 1..Len(t) /\ (s \o t)[i] = t[i - Len(s)]
           /\ Elems(s \o t) = Elems(s) \cup Elems(t)
<1>1. /\ s \o t \in Seq(S) /\ Len(s \o t) = Len(s) + Len(t)
      /\ \A i \in 1..Len(s) : (s \o t)[i] = s[i]
      /\ \A i \in 1..Len(s \o t) : i > Len(s) =>
            i - Len(s) \in 1..Len(t) /\ (s \o t)[i] = t[i - Len(s)]
      /\ Len(s) \in Nat /\ Len(t) \in Nat
  OBVIOUS
<1>2. ASSUME NEW d \in Elems(s) PROVE d \in Elems(s \o t)
  <2>1. PICK i \in 1..Len(s) : s[i] = d
    BY DEF Elems
  <2>2. i \in 1..Len(s \o t) /\ (s \o t)[i] = d
    BY <1>1, <2>1
  <2>3. QED
    BY <2>2 DEF Elems
<1>3. ASSUME NEW d \in Elems(t) PROVE d \in Elems(s \o t)
  <2>1. PICK i \in 1..Len(t) : t[i] = d
    BY DEF Elems
  <2>2. Len(s) + i \in 1..Len(s \o t) /\ Len(s) + i > Len(s) /\ (Len(s) + i) - Len(s) = i
    BY <1>1, <2>1
  <2>3. (s \o t)[Len(s) + i] = d
    BY <1>1, <2>1, <2>2
  <2>4. QED
    BY <2>2, <2>3 DEF Elems
<1>4. ASSUME NEW d \in Elems(s \o t) PROVE d \in Elems(s) \cup Elems(t)
  <2>1. PICK i \in 1..Len(s \o t) : (s \o t)[i] = d
    BY DEF Elems
  <2>2. CASE i \in 1..Len(s)
    BY <1>1, <2>1, <2>2 DEF Elems
  <2>3. CASE i > Len(s)
    BY <1>1, <2>1, <2>3 DEF Elems
  <2>4. QED
    BY <1>1, <2>2, <2>3
<1>5. QED
  BY <1>1, <1>2, <1>3, <1>4

LEMMA ReadRowsSteps == ASSUME ExportInv, ReadRows PROVE ExportInv'
<1> DEFINE top == Only(order.roots, binder.there)
           rest == RestOf(order.roots, order.depths) \cap binder.there
           all == Elems(top) \cup rest
<1>1. /\ UNCHANGED binder /\ order.stage = "closures" /\ order.left = {} /\ OrderOK
      /\ order.roots \in Seq(Sheets) /\ Once(order.roots) /\ order.depths \in [Sheets -> Nat]
  BY DEF ReadRows, ExportInv, OrderOK, Orders
<1>2. CASE order.kind = "document" /\ top = <<>>
  <2>1. order' = [order EXCEPT !.stage = "refused"]
    BY <1>2 DEF ReadRows
  <2>2. /\ order'.stage = "refused" /\ order'.roots = order.roots /\ order'.left = order.left
    BY <1>1, <2>1 DEF OrderOK, Orders
  <2>3. OrderOK'
    BY <1>1, <2>1 DEF OrderOK, Orders, ExportStages
  <2>4. ExportTypeOK'
    BY <1>1, <2>2, BinderMoves DEF ExportTypeOK
  <2>5. Once(order.roots)'
    BY <1>1, <2>2 DEF Once
  <2>6. QED
    BY <1>1, <2>2, <2>3, <2>4, <2>5, BinderMoves DEF ExportInv
<1>3. CASE ~ (order.kind = "document" /\ top = <<>>)
  <2>1. PICK s \in Orderings(rest) :
          /\ \A i \in 1..(Len(s) - 1) : order.depths[s[i]] <= order.depths[s[i + 1]]
          /\ order' = [order EXCEPT
                !.stage = "answered", !.answer = top \o s, !.rows = all,
                !.live = [d \in Sheets |-> IF d \in all THEN binder.status[d] ELSE order.live[d]],
                !.printed = [d \in Sheets |-> IF d \in all THEN FrontmatterFor(d)
                                              ELSE order.printed[d]]]
    BY <1>3 DEF ReadRows
  <2>2. /\ top \in Seq(Sheets) /\ Once(top) /\ Elems(top) = Elems(order.roots) \cap binder.there
        /\ Elems(order.roots) \subseteq Sheets
    <3>1. top \in Seq(Sheets) /\ Once(top) /\ Elems(top) = Elems(order.roots) \cap binder.there
      BY <1>1, OnlyKeeps
    <3>2. Elems(order.roots) \subseteq Sheets
      BY <1>1 DEF Elems
    <3>3. QED
      BY <3>1, <3>2
  <2>3. rest = {d \in Sheets : order.depths[d] # 0 /\ d \notin Elems(order.roots)
                                                   /\ d \in binder.there}
    BY DEF RestOf
  <2>4. /\ s \in Seq(Sheets) /\ Once(s) /\ Elems(s) = rest
    <3>1. rest \subseteq Sheets /\ IsFiniteSet(rest)
      BY <2>3, ExportAssumption, FS_Subset
    <3> HIDE DEF rest
    <3>2. s \in Seq(rest) /\ Once(s) /\ Elems(s) = rest
      BY <2>1, <3>1, OrderingsList
    <3>3. QED
      BY <3>1, <3>2
  <2> DEFINE answer == top \o s
  <2> HIDE DEF top, rest
  <2>5. /\ answer \in Seq(Sheets) /\ Len(answer) = Len(top) + Len(s) /\ Elems(answer) = all
        /\ \A i \in 1..Len(top) : answer[i] = top[i]
        /\ \A i \in 1..Len(answer) : i > Len(top) =>
              i - Len(top) \in 1..Len(s) /\ answer[i] = s[i - Len(top)]
        /\ Len(top) \in Nat /\ Len(s) \in Nat
    BY <2>2, <2>4, OneAfterTheOther
  <2> HIDE DEF answer
  <2>6. /\ \A i \in 1..Len(top) : top[i] \in Elems(order.roots)
        /\ \A i \in 1..Len(s) : s[i] \in Sheets /\ s[i] \notin Elems(order.roots)
    <3>1. \A i \in 1..Len(top) : top[i] \in Elems(top)
      BY DEF Elems
    <3>2. \A i \in 1..Len(s) : s[i] \in Elems(s)
      BY DEF Elems
    <3>3. QED
      BY <2>2, <2>3, <2>4, <3>1, <3>2
  <2>7. all \in SUBSET Sheets
    BY <2>2, <2>3
  <2>8. /\ order'.stage = "answered" /\ order'.roots = order.roots /\ order'.left = {}
        /\ order'.answer = answer /\ order'.rows = all /\ order'.depths = order.depths
        /\ order'.seen = order.seen /\ order'.allowed = order.allowed /\ order'.kind = order.kind
    BY <1>1, <2>1 DEF OrderOK, Orders, answer
  <2>9. OrderOK'
    <3> DEFINE printed == [d \in Sheets |-> IF d \in all THEN FrontmatterFor(d)
                                            ELSE order.printed[d]]
               alive == [d \in Sheets |-> IF d \in all THEN binder.status[d] ELSE order.live[d]]
    <3>1. order' = [order EXCEPT !.stage = "answered", !.answer = answer, !.rows = all,
                                 !.live = alive, !.printed = printed]
      BY <2>1 DEF answer
    <3> HIDE DEF printed, alive, all
    <3>2. QED
      BY <1>1, <2>5, <2>7, <3>1 DEF OrderOK, Orders, ExportStages
  <2>10. ExportTypeOK'
    BY <1>1, <2>5, <2>8, BinderMoves DEF ExportTypeOK
  <2>11. \A d \in Sheets : DepthIsNearest(d)'
    <3>1. ASSUME NEW d \in Sheets PROVE DepthIsNearest(d)'
      <4>1. DepthIsNearest(d)
        BY <1>1 DEF ExportInv
      <4>2. Followed' = Followed
        BY <1>1, <2>8 DEF Followed
      <4>3. QED
        BY <2>8, <4>1, <4>2 DEF DepthIsNearest
    <3>2. QED
      BY <3>1
  <2>12. ASSUME NEW i \in 1..Len(answer), NEW j \in 1..Len(answer), i # j
         PROVE  answer[i] # answer[j]
    <3>1. CASE i <= Len(top) /\ j <= Len(top)
      <4>1. i \in 1..Len(top) /\ j \in 1..Len(top)
        BY <2>5, <3>1
      <4>2. QED
        BY <2>2, <2>5, <2>12, <4>1 DEF Once
    <3>2. CASE i <= Len(top) /\ j > Len(top)
      <4>1. i \in 1..Len(top)
        BY <2>5, <3>2
      <4>2. QED
        BY <2>5, <2>6, <3>2, <4>1
    <3>3. CASE i > Len(top) /\ j <= Len(top)
      <4>1. j \in 1..Len(top)
        BY <2>5, <3>3
      <4>2. QED
        BY <2>5, <2>6, <3>3, <4>1
    <3>4. CASE i > Len(top) /\ j > Len(top)
      <4>1. /\ i - Len(top) \in 1..Len(s) /\ j - Len(top) \in 1..Len(s)
            /\ i - Len(top) # j - Len(top)
        BY <2>5, <2>12, <3>4
      <4>2. QED
        BY <2>4, <2>5, <3>4, <4>1, SMTT(30) DEF Once
    <3>5. QED
      BY <2>5, <3>1, <3>2, <3>3, <3>4
  <2>13. ASSUME NEW i \in 1..Len(answer), NEW j \in 1..Len(answer), i < j,
                answer[i] \notin Elems(order.roots)
         PROVE  /\ answer[j] \notin Elems(order.roots)
                /\ order.depths[answer[i]] <= order.depths[answer[j]]
    <3>1. i > Len(top)
      <4>1. CASE i \in 1..Len(top)
        BY <2>5, <2>6, <2>13, <4>1
      <4>2. QED
        BY <2>5, <4>1
    <3>2. /\ i - Len(top) \in 1..Len(s) /\ j - Len(top) \in 1..Len(s)
          /\ i - Len(top) <= j - Len(top)
          /\ answer[i] = s[i - Len(top)] /\ answer[j] = s[j - Len(top)]
      BY <2>5, <2>13, <3>1
    <3> DEFINE f == [k \in 1..Len(s) |-> order.depths[s[k]]]
    <3>3. \A k \in 1..Len(s) : f[k] \in Nat
      BY <1>1, <2>6
    <3>4. \A k \in 1..(Len(s) - 1) : f[k] <= f[k + 1]
      <4>1. \A k \in 1..(Len(s) - 1) : k \in 1..Len(s) /\ k + 1 \in 1..Len(s)
        BY <2>5
      <4>2. QED
        BY <2>1, <4>1
    <3> HIDE DEF f
    <3>5. f[i - Len(top)] <= f[j - Len(top)]
      BY <2>5, <3>2, <3>3, <3>4, GrowsAlong
    <3>6. QED
      BY <2>6, <3>2, <3>5 DEF f
  <2>14. AnswerIsWhole'
    <3>1. /\ all \subseteq Elems(order.roots) \cup {d \in Sheets : order.depths[d] # 0}
          /\ (Elems(order.roots) \cup {d \in Sheets : order.depths[d] # 0}) \cap binder.there
                \subseteq all
      BY <2>2, <2>3
    <3>2. Once(answer)
      BY <2>12 DEF Once
    <3>3. QED
      BY <1>1, <2>8, <2>13, <3>1, <3>2 DEF AnswerIsWhole
  <2>15. Once(order.roots)'
    BY <1>1, <2>8 DEF Once
  <2>16. QED
    BY <1>1, <2>8, <2>9, <2>10, <2>11, <2>14, <2>15, BinderMoves DEF ExportInv
<1>4. QED
  BY <1>2, <1>3

\* What others do to the documents.
LEMMA UpsetSteps ==
    ASSUME ExportInv, NEW d, NEW st, NEW e,
           \/ ChangeStatus(d, st) \/ StoreStatus(d, st)
           \/ (e \in Couplings /\ AddDependency(e))
           \/ (d \in Sheets /\ (RemoveSheet(d) \/ TurnReader(d)))
    PROVE  ExportInv'
<1>0. /\ BinderOK /\ binder.there \subseteq Sheets /\ binder.read \subseteq Sheets
      /\ binder.deps \subseteq Couplings /\ binder.named \subseteq binder.there
      /\ \A c \in binder.deps : {c[1], c[2]} \subseteq binder.there
  BY DEF ExportInv, BinderOK, ExportTypeOK
<1>1. CASE ChangeStatus(d, st)
  <2>1. binder' = [binder EXCEPT !.status[d] = st] /\ order' = order
    BY <1>1 DEF ChangeStatus
  <2>2. BinderOK' /\ UNCHANGED <<binder.there, binder.named, binder.deps>>
    BY <1>0, <2>1 DEF BinderOK
  <2>3. QED
    BY <1>0, <2>1, <2>2, UpsetKeeps
<1>2. CASE StoreStatus(d, st)
  <2>1. binder' = [binder EXCEPT !.stored[d] = st] /\ order' = order
    BY <1>2 DEF StoreStatus
  <2>2. BinderOK' /\ UNCHANGED <<binder.there, binder.named, binder.deps>>
    BY <1>0, <2>1 DEF BinderOK
  <2>3. QED
    BY <1>0, <2>1, <2>2, UpsetKeeps
<1>3. CASE e \in Couplings /\ AddDependency(e)
  <2>1. /\ binder' = [binder EXCEPT !.deps = binder.deps \cup {e}] /\ order' = order
        /\ {e[1], e[2]} \subseteq binder.there
    BY <1>3 DEF AddDependency
  <2>2. /\ BinderOK' /\ UNCHANGED <<binder.there, binder.named>>
        /\ binder'.deps = binder.deps \cup {e}
    BY <1>0, <1>3, <2>1 DEF BinderOK
  <2>3. QED
    BY <1>0, <1>3, <2>1, <2>2, UpsetKeeps
<1>4. CASE d \in Sheets /\ RemoveSheet(d)
  <2> DEFINE deps == {c \in binder.deps : d \notin {c[1], c[2]}}
  <2>1. /\ binder' = [binder EXCEPT !.there = binder.there \ {d}, !.named = binder.named \ {d},
                                    !.deps = deps]
        /\ order' = order
    BY <1>4 DEF RemoveSheet
  <2>2. deps \subseteq binder.deps /\ \A c \in deps : {c[1], c[2]} \subseteq binder.there \ {d}
    BY <1>0
  <2> HIDE DEF deps
  <2>3. /\ BinderOK' /\ binder'.there = binder.there \ {d} /\ binder'.named = binder.named \ {d}
        /\ binder'.deps = deps
    BY <1>0, <2>1, <2>2 DEF BinderOK
  <2>4. QED
    BY <1>0, <2>1, <2>2, <2>3, UpsetKeeps
<1>5. CASE d \in Sheets /\ TurnReader(d)
  <2> DEFINE read == IF d \in binder.read THEN binder.read \ {d} ELSE binder.read \cup {d}
  <2>1. binder' = [binder EXCEPT !.read = read] /\ order' = order
    BY <1>5 DEF TurnReader
  <2>2. read \in SUBSET Sheets
    BY <1>0, <1>5
  <2> HIDE DEF read
  <2>3. BinderOK' /\ UNCHANGED <<binder.there, binder.named, binder.deps>>
    BY <1>0, <2>1, <2>2 DEF BinderOK
  <2>4. QED
    BY <1>0, <2>1, <2>3, UpsetKeeps
<1>6. QED
  BY <1>1, <1>2, <1>3, <1>4, <1>5

LEMMA ExportSteps == ExportInv /\ [ExportNext]_exportVars => ExportInv'
<1> SUFFICES ASSUME ExportInv, [ExportNext]_exportVars PROVE ExportInv'
  OBVIOUS
<1>1. CASE AskForAgent \/ ReadMentions \/ ListAgain \/ ReadRows
  BY <1>1, AskForAgentSteps, ReadMentionsSteps, ListAgainSteps, ReadRowsSteps
<1>2. ASSUME NEW d \in Sheets, AskForDocument(d) \/ ReadClosure(d)
      PROVE  ExportInv'
  BY <1>2, AskForDocumentSteps, ReadClosureSteps
<1>3. ASSUME NEW d \in Sheets,
             \/ RemoveSheet(d) \/ TurnReader(d)
             \/ \E st \in Statuses : ChangeStatus(d, st) \/ StoreStatus(d, st)
      PROVE  ExportInv'
  BY <1>3, UpsetSteps
<1>4. ASSUME NEW e \in Couplings, AddDependency(e) PROVE ExportInv'
  BY <1>4, UpsetSteps
<1>5. CASE UNCHANGED exportVars
  <2>1. /\ order' = order /\ binder'.there = binder.there /\ binder'.named = binder.named
        /\ binder'.deps = binder.deps /\ BinderOK'
    BY <1>5 DEF exportVars, ExportInv, BinderOK
  <2>2. QED
    BY <2>1, UpsetKeeps DEF ExportInv, ExportTypeOK
<1>6. CASE ExportNext
  BY <1>1, <1>2, <1>3, <1>4, <1>6 DEF ExportNext
<1>7. QED
  BY <1>5, <1>6

\* Where a document is at its distance, something one step nearer leads to it.
LEMMA AtHasParent ==
    ASSUME NEW steps, NEW from, NEW k \in Nat \ {0}, NEW d, At(steps, from, k, d)
    PROVE  \E e \in steps : e[2] = d /\ e[1] \in Within(steps, from, k - 1)
<1>1. d \in Within(steps, from, k) /\ d \notin Within(steps, from, k - 1)
  BY DEF At
<1>2. Within(steps, from, k) =
         Within(steps, from, k - 1) \cup Ahead(steps, Within(steps, from, k - 1))
  BY WithinNext
<1>3. QED
  BY <1>1, <1>2 DEF Ahead

\* An answer misses nothing that what it has depends on.
LEMMA AnswersAreClosed == ExportInv => BundleIsClosed
<1> SUFFICES ASSUME ExportInv, order.stage = "answered",
                    NEW r \in Elems(order.roots), NEW d \in order.rows,
                    d \in Within(order.seen[r], r, HopLimit - 1),
                    NEW e \in order.seen[r], e[1] = d,
                    e[2] \in order.allowed, e[2] \in binder.there
             PROVE  e[2] \in order.rows
  BY DEF BundleIsClosed
<1>1. AnswerIsWhole /\ r \in Followed /\ e[2] \in Sheets
  BY DEF ExportInv, ExportTypeOK, Followed
<1>2. CASE e[2] \in Elems(order.roots)
  BY <1>1, <1>2 DEF AnswerIsWhole
<1>3. CASE e[2] \notin Elems(order.roots)
  <2>1. HopLimit \in Nat /\ HopLimit # 0
    BY HopAssumption
  <2>2. Within(order.seen[r], r, HopLimit) =
           Within(order.seen[r], r, HopLimit - 1)
              \cup Ahead(order.seen[r], Within(order.seen[r], r, HopLimit - 1))
    BY <2>1, WithinNext
  <2>3. e[2] \in Within(order.seen[r], r, HopLimit)
    BY <2>2 DEF Ahead
  <2>4. order.depths[e[2]] # 0
    BY <1>1, <1>3, <2>1, <2>3 DEF ExportInv, DepthIsNearest
  <2>5. QED
    BY <1>1, <2>4 DEF AnswerIsWhole
<1>4. QED
  BY <1>2, <1>3

\* A reader who goes from the top meets what needs a document before the document.
LEMMA AnswersReadDown == ExportInv => BundleReadsDown
<1> SUFFICES ASSUME ExportInv, order.stage = "answered", NEW i \in 1..Len(order.answer)
             PROVE  LET before == {order.answer[j] : j \in 1..(i - 1)}
                        d == order.answer[i]
                    IN /\ d \notin before
                       /\ \/ d \in Elems(order.roots)
                          \/ \E r \in Elems(order.roots) : \E e \in order.seen[r] :
                                /\ e[2] = d
                                /\ e[1] \in before \/ e[1] \notin order.rows
  BY DEF BundleReadsDown
<1> DEFINE before == {order.answer[j] : j \in 1..(i - 1)}
           d == order.answer[i]
<1>1. /\ AnswerIsWhole /\ Followed = Elems(order.roots) /\ OrderOK
      /\ order.rows \subseteq Sheets /\ order.answer \in Seq(Sheets)
      /\ Elems(order.answer) = order.rows /\ order.depths \in [Sheets -> Nat]
  BY DEF ExportInv, ExportTypeOK, OrderOK, Orders, Followed
<1>2. d \notin before
  <2>1. ASSUME NEW j \in 1..(i - 1) PROVE order.answer[j] # d
    <3>1. j \in 1..Len(order.answer) /\ j # i
      BY <1>1
    <3>2. QED
      BY <1>1, <3>1 DEF AnswerIsWhole, Once
  <2>2. QED
    BY <2>1
<1>3. ASSUME d \notin Elems(order.roots)
      PROVE  \E r \in Elems(order.roots) : \E e \in order.seen[r] :
                /\ e[2] = d
                /\ e[1] \in before \/ e[1] \notin order.rows
  <2>1. d \in order.rows
    BY <1>1 DEF Elems
  <2>2. d \in Sheets /\ order.depths[d] # 0 /\ DepthIsNearest(d)
    BY <1>1, <1>3, <2>1 DEF AnswerIsWhole, ExportInv
  <2> DEFINE k == order.depths[d]
  <2>3. PICK r \in Elems(order.roots) : At(order.seen[r], r, k, d)
    BY <1>1, <2>2 DEF DepthIsNearest
  <2>4. k \in Nat \ {0} /\ k \in 1..HopLimit
    BY <1>1, <2>2 DEF DepthIsNearest
  <2> HIDE DEF k, d, before
  <2>5. PICK e \in order.seen[r] : e[2] = d /\ e[1] \in Within(order.seen[r], r, k - 1)
    BY <2>3, <2>4, AtHasParent
  <2>6. ASSUME e[1] \in order.rows PROVE e[1] \in before
    <3>1. PICK j \in 1..Len(order.answer) : order.answer[j] = e[1]
      BY <1>1, <2>6 DEF Elems
    <3>2. i \in Nat /\ j \in Nat /\ Len(order.answer) \in Nat
      BY <1>1
    <3>3. CASE j < i
      <4>1. j \in 1..(i - 1)
        BY <3>2, <3>3
      <4>2. QED
        BY <3>1, <4>1 DEF before
    <3>4. CASE ~ (j < i)
      <4>1. e[1] # d
        BY <2>3, <2>4, <2>5 DEF At
      <4>2. i < j
        BY <3>1, <3>2, <3>4, <4>1 DEF d
      <4>3. order.answer[j] \notin Elems(order.roots) /\ k <= order.depths[order.answer[j]]
        BY <1>1, <1>3, <4>2 DEF AnswerIsWhole, d, k
      <4>4. e[1] \in Sheets /\ e[1] \notin Elems(order.roots) /\ k <= order.depths[e[1]]
        BY <1>1, <2>6, <3>1, <4>3
      <4>5. order.depths[e[1]] # 0 /\ DepthIsNearest(e[1])
        BY <1>1, <2>6, <4>4 DEF AnswerIsWhole, ExportInv
      <4>6. e[1] \in order.allowed /\ e[1] # r /\ k - 1 \in 0..HopLimit
        BY <2>4, <4>4, <4>5, HopAssumption DEF DepthIsNearest
      <4>7. order.depths[e[1]] <= k - 1
        BY <1>1, <2>5, <4>5, <4>6 DEF DepthIsNearest
      <4>8. order.depths[e[1]] \in Nat
        BY <1>1, <4>4
      <4>9. QED
        BY <2>4, <4>4, <4>7, <4>8
    <3>5. QED
      BY <3>3, <3>4
  <2>7. QED
    BY <2>5, <2>6
<1>4. QED
  BY <1>2, <1>3

\* What is within reach, each document at its distance.
Distances(deps, seed, direction, allowed) ==
    [d \in (Within(Along(deps, direction), seed, HopLimit) \cap allowed) \ {seed} |->
        Distance(Along(deps, direction), seed, d)]

\* The list of cross-references of a document.
LEMMA ListShowsDistances ==
    ASSUME NEW V, NEW deps \in SUBSET (V \X V), \A e \in deps : e[1] # e[2],
           NEW seed \in V, NEW direction \in Directions, NEW allowed
    PROVE  CrossReferences(deps, seed, direction, allowed) =
              Distances(deps, seed, direction, allowed)
<1> DEFINE trail == Closure(deps, seed, direction, HopLimit)
           near == (Within(Along(deps, direction), seed, HopLimit) \cap allowed) \ {seed}
<1>1. HopLimit \in Nat \ {0}
  BY HopAssumption
<1>2. ReachableDocIds(trail) = Within(Along(deps, direction), seed, HopLimit) \ {seed}
  BY <1>1, ReachIsWithin
<1>3. ASSUME NEW d \in near
      PROVE  Shallowest(trail, d) = Distance(Along(deps, direction), seed, d)
  <2>1. d # seed /\ d \in ReachableDocIds(trail)
    BY <1>2
  <2>2. Shallowest(trail, d) \in 1..HopLimit
        /\ At(Along(deps, direction), seed, Shallowest(trail, d), d)
    BY <1>1, <2>1, ShallowestIsAt
  <2>3. Shallowest(trail, d) \in 0..HopLimit
    BY <1>1, <2>2
  <2>4. QED
    BY <2>2, <2>3, AtIsDistance
<1>4. ReachableDocIds(trail) \cap allowed = near
  BY <1>2
<1>5. CrossReferences(deps, seed, direction, allowed) =
         [d \in ReachableDocIds(trail) \cap allowed |-> Shallowest(trail, d)]
  BY DEF CrossReferences
<1> HIDE DEF trail, near
<1>6. CrossReferences(deps, seed, direction, allowed) = [d \in near |-> Shallowest(trail, d)]
  BY <1>4, <1>5
<1>7. [d \in near |-> Shallowest(trail, d)] =
         [d \in near |-> Distance(Along(deps, direction), seed, d)]
  BY <1>3
<1>8. QED
  BY <1>6, <1>7 DEF near, Distances

\* The neighbourhood of a document.
LEMMA NeighborhoodShowsDistances ==
    ASSUME NEW V, NEW deps \in SUBSET (V \X V), \A e \in deps : e[1] # e[2],
           NEW seed \in V, NEW allowed, NEW hops \in Nat \ {0}
    PROVE  LET around == Neighborhood(deps, seed, allowed, hops)
               Near(direction, n) == Within(Along(deps, direction), seed, n)
           IN /\ DOMAIN around.depth =
                    (Near("outgoing", hops) \cup Near("incoming", hops)) \cap allowed
              /\ \A d \in DOMAIN around.depth :
                    /\ d \in Near("outgoing", around.depth[d])
                             \cup Near("incoming", around.depth[d])
                    /\ around.depth[d] > 0 => d \notin Near("outgoing", around.depth[d] - 1)
                                                    \cup Near("incoming", around.depth[d] - 1)
<1> DEFINE around == Neighborhood(deps, seed, allowed, hops)
           Trail(direction) == Closure(deps, seed, direction, hops)
           trail == Trail("outgoing") \cup Trail("incoming")
           Near(direction, n) == Within(Along(deps, direction), seed, n)
           near == ({seed} \cup ReachableDocIds(trail)) \cap allowed
<1>1. around.depth = [d \in near |-> IF d = seed THEN 0 ELSE Shallowest(trail, d)]
  BY DEF Neighborhood
<1>2. "outgoing" \in Directions /\ "incoming" \in Directions
  BY DEF Directions
<1>3. \A direction \in Directions : ReachableDocIds(Trail(direction)) = Near(direction, hops) \ {seed}
  BY ReachIsWithin
<1>4. ReachableDocIds(trail) = ReachableDocIds(Trail("outgoing")) \cup ReachableDocIds(Trail("incoming"))
  BY DEF ReachableDocIds
<1>5. \A direction \in Directions : Near(direction, 0) = {seed} /\ seed \in Near(direction, hops)
  <2>1. ASSUME NEW direction \in Directions
        PROVE  Near(direction, 0) = {seed} /\ seed \in Near(direction, hops)
    <3>1. Within(Along(deps, direction), seed, 0) = {seed}
      BY WithinGrows
    <3>2. Within(Along(deps, direction), seed, 0) \subseteq Within(Along(deps, direction), seed, hops)
      BY WithinIsMonotone
    <3>3. QED
      BY <3>1, <3>2
  <2>2. QED
    BY <2>1
<1>6. DOMAIN around.depth = (Near("outgoing", hops) \cup Near("incoming", hops)) \cap allowed
  BY <1>1, <1>2, <1>3, <1>4, <1>5, ZenonT(60)
<1>7. \A direction \in Directions : \A r \in Trail(direction) :
         r.depth \in 1..hops /\ r.doc \in Near(direction, r.depth)
  BY RowsAreReached
<1>8. ASSUME NEW d \in near
      PROVE  /\ d \in Near("outgoing", around.depth[d]) \cup Near("incoming", around.depth[d])
             /\ around.depth[d] > 0 => d \notin Near("outgoing", around.depth[d] - 1)
                                              \cup Near("incoming", around.depth[d] - 1)
  <2>1. CASE d = seed
    <3>1. around.depth[d] = 0
      BY <1>1, <2>1
    <3>2. QED
      BY <1>2, <1>5, <2>1, <3>1
  <2>2. CASE d # seed
    <3> DEFINE k == Shallowest(trail, d)
    <3>1. d \in ReachableDocIds(trail) /\ around.depth[d] = k
      BY <1>1, <2>2
    <3>2. \A r \in trail : r.depth \in Nat
      BY <1>2, <1>7
    <3>3. /\ k \in Nat /\ \E r \in trail : r.doc = d /\ r.depth = k
          /\ \A r \in trail : r.doc = d => k <= r.depth
      BY <3>1, <3>2, ShallowestIsLeast
    <3>4. d \in Near("outgoing", k) \cup Near("incoming", k) /\ k \in 1..hops
      BY <1>2, <1>7, <3>3
    <3> HIDE DEF k, trail
    <3>5. ASSUME NEW direction \in Directions, d \in Near(direction, k - 1) PROVE FALSE
      <4>1. k - 1 \in 0..hops
        BY <3>4
      <4>2. \E r \in Closure(deps, seed, direction, hops) : r.doc = d /\ r.depth <= k - 1
        <5> DEFINE n == k - 1
        <5>1. n \in 0..hops /\ d \in Within(Along(deps, direction), seed, n)
          BY <3>5, <4>1
        <5> HIDE DEF n
        <5>2. \E r \in Closure(deps, seed, direction, hops) : r.doc = d /\ r.depth <= n
          BY <2>2, <5>1, ReachedHasRow
        <5>3. QED
          BY <5>2 DEF n
      <4>3. PICK r \in trail : r.doc = d /\ r.depth <= k - 1
        BY <3>5, <4>2 DEF Directions, trail
      <4>4. k <= r.depth /\ r.depth \in Nat /\ k \in Nat
        BY <3>2, <3>3, <4>3
      <4>5. QED
        BY <4>3, <4>4
    <3>6. QED
      BY <1>2, <3>1, <3>4, <3>5
  <2>3. QED
    BY <2>1, <2>2
<1>9. DOMAIN around.depth = near
  BY <1>1
<1>10. QED
  BY <1>6, <1>8, <1>9

LEMMA GraphsAreRight == ExportInv => GraphsShowDistances
<1> SUFFICES ASSUME ExportInv, NEW seed \in Readable
             PROVE  LET Near(direction, hops) ==
                            Within(Along(binder.deps, direction), seed, hops)
                        Far(direction, d) == Distance(Along(binder.deps, direction), seed, d)
                        around == Neighborhood(binder.deps, seed, Readable, 2)
                    IN /\ \A direction \in {"outgoing", "incoming"} :
                             CrossReferences(binder.deps, seed, direction, Readable) =
                             [d \in (Near(direction, HopLimit) \cap Readable) \ {seed} |->
                                    Far(direction, d)]
                       /\ DOMAIN around.depth =
                             (Near("outgoing", 2) \cup Near("incoming", 2)) \cap Readable
                       /\ \A d \in DOMAIN around.depth :
                             /\ d \in Near("outgoing", around.depth[d])
                                      \cup Near("incoming", around.depth[d])
                             /\ around.depth[d] > 0 =>
                                   d \notin Near("outgoing", around.depth[d] - 1)
                                            \cup Near("incoming", around.depth[d] - 1)
  BY DEF GraphsShowDistances
<1>1. /\ binder.deps \in SUBSET (Sheets \X Sheets) /\ \A e \in binder.deps : e[1] # e[2]
      /\ seed \in Sheets
  BY CouplingsJoin DEF ExportInv, BinderOK, Readable
<1>2. \A direction \in {"outgoing", "incoming"} :
         CrossReferences(binder.deps, seed, direction, Readable) =
            Distances(binder.deps, seed, direction, Readable)
  BY <1>1, ListShowsDistances DEF Directions
<1>3. 2 \in Nat \ {0}
  OBVIOUS
<1>4. LET around == Neighborhood(binder.deps, seed, Readable, 2)
          Near(direction, n) == Within(Along(binder.deps, direction), seed, n)
      IN /\ DOMAIN around.depth = (Near("outgoing", 2) \cup Near("incoming", 2)) \cap Readable
         /\ \A d \in DOMAIN around.depth :
               /\ d \in Near("outgoing", around.depth[d]) \cup Near("incoming", around.depth[d])
               /\ around.depth[d] > 0 => d \notin Near("outgoing", around.depth[d] - 1)
                                               \cup Near("incoming", around.depth[d] - 1)
  BY <1>1, <1>3, NeighborhoodShowsDistances, ZenonT(60)
<1>5. QED
  BY <1>2, <1>4, Zenon DEF Distances

\* An export misses nothing between what it has, reads from the top down, and the lists and
\* neighbourhoods drawn from the dependencies show least distances (lib/data/export.ts:69-142,
\* crossref.ts:37-91, crossref/route.ts, graph-model.ts): whatever is added, removed or hidden
\* while the closures are read, a document's depth is its distance from the nearest root in
\* the dependencies the closure of that root saw.
THEOREM ExportIsWhole ==
    ExportSpec => [](ExportTypeOK /\ BundleIsClosed /\ BundleReadsDown /\ GraphsShowDistances)
<1>1. ExportInv => ExportTypeOK
  BY DEF ExportInv
<1>2. QED
  BY <1>1, ExportStarts, ExportSteps, AnswersAreClosed, AnswersReadDown, GraphsAreRight, PTL
     DEF ExportSpec

-----------------------------------------------------------------------------
(***************************************************************************)
(* ContextAssembly: what a model is told.                                  *)
(***************************************************************************)

\* What is computed a step at a time from a first value.
StepsOn(S, h) == [(1..h) \X S -> S]

IsCourse(f, g, S, x, h) ==
    f \in [0..h -> S] /\ f[0] = x /\ \A n \in 1..h : f[n] = g[<<n, f[n - 1]>>]

LEMMA CourseExists ==
    ASSUME NEW S, NEW x \in S, NEW h \in Nat, NEW g \in StepsOn(S, h)
    PROVE  \E f : IsCourse(f, g, S, x, h)
<1>0. g \in [(1..h) \X S -> S]
  BY DEF StepsOn
<1> DEFINE Lead(k, f) == /\ f \in [0..h -> S] /\ f[0] = x
                         /\ \A n \in 1..h : n <= k => f[n] = g[<<n, f[n - 1]>>]
           T == {k \in Nat : k <= h /\ ~ \E f : Lead(k, f)}
<1>1. T = {}
  <2> SUFFICES ASSUME T # {} PROVE FALSE
    OBVIOUS
  <2>1. PICK k \in T : \A j \in T : k <= j
    BY LeastExists
  <2>2. k \in Nat /\ k <= h
    BY <2>1
  <2>3. k # 0
    <3> DEFINE f == [n \in 0..h |-> x]
    <3>1. Lead(0, f)
      OBVIOUS
    <3>2. QED
      BY <2>1, <3>1
  <2>4. k - 1 \in Nat /\ k - 1 <= h /\ ~ (k <= k - 1) /\ k \in 1..h
    BY <2>2, <2>3
  <2>5. PICK f : Lead(k - 1, f)
    BY <2>1, <2>4
  <2> DEFINE v == g[<<k, f[k - 1]>>]
  <2>6. v \in S
    <3>1. f[k - 1] \in S
      BY <2>4, <2>5
    <3>2. QED
      BY <1>0, <2>4, <3>1
  <2> HIDE DEF v
  <2> DEFINE c == [f EXCEPT ![k] = v]
  <2>7. /\ c \in [0..h -> S] /\ c[0] = x /\ c[k] = v /\ c[k - 1] = f[k - 1]
        /\ \A n \in 0..h : n # k => c[n] = f[n]
    BY <2>2, <2>4, <2>5, <2>6
  <2> HIDE DEF c
  <2>8. \A n \in 1..h : n <= k => c[n] = g[<<n, c[n - 1]>>]
    <3>1. ASSUME NEW n \in 1..h, n <= k PROVE c[n] = g[<<n, c[n - 1]>>]
      <4>1. CASE n = k
        BY <2>7, <4>1 DEF v
      <4>2. CASE n # k
        <5>1. n <= k - 1 /\ n \in 0..h /\ n - 1 \in 0..h /\ n - 1 # k
          BY <2>2, <3>1, <4>2
        <5>2. c[n] = f[n] /\ c[n - 1] = f[n - 1]
          BY <2>7, <4>2, <5>1
        <5>3. f[n] = g[<<n, f[n - 1]>>]
          BY <2>5, <5>1
        <5>4. QED
          BY <5>2, <5>3
      <4>3. QED
        BY <4>1, <4>2
    <3>2. QED
      BY <3>1
  <2>9. Lead(k, c)
    BY <2>7, <2>8
  <2>10. QED
    BY <2>1, <2>9
<1>2. \E f : Lead(h, f)
  <2> HIDE DEF T
  <2>1. h \notin T
    BY <1>1
  <2>2. h \in Nat /\ h <= h
    OBVIOUS
  <2>3. QED
    BY <2>1, <2>2 DEF T
<1>3. PICK f : Lead(h, f)
  BY <1>2
<1>4. QED
  BY <1>3 DEF IsCourse

Items == [doc : Papers, tier : 1..4, depth : Nat, bulk : Nat]

LEMMA ItemIs ==
    ASSUME NEW d \in Papers, NEW k \in 1..4, NEW n \in Nat, NEW b \in Nat
    PROVE  /\ Item(d, k, n, b) \in Items
           /\ Item(d, k, n, b).tier = k /\ Item(d, k, n, b).depth = n
  BY DEF Item, Items

LEMMA CostIsNat ==
    ASSUME NEW x \in Items
    PROVE  Cost(x) \in Nat /\ Cost(x) <= PerItem + Clipped + Overhead
<1>1. PerItem \in Nat /\ Clipped \in Nat /\ Overhead \in Nat /\ x.bulk \in Nat
  BY ContextAssumption DEF Items
<1>2. QED
  BY <1>1 DEF Cost

\* The sums of Spent.
IsSum(f, s) == f = [n \in 0..Len(s) |-> IF n = 0 THEN 0 ELSE f[n - 1] + Cost(s[n])]

LEMMA SpentSteps ==
    ASSUME NEW s \in Seq(Items)
    PROVE  \E f \in [0..Len(s) -> Nat] :
              /\ f[0] = 0 /\ \A n \in 1..Len(s) : f[n] = f[n - 1] + Cost(s[n])
              /\ Spent(s) = f[Len(s)]
<1> DEFINE h == Len(s)
           g == [p \in (1..h) \X Nat |-> p[2] + Cost(s[p[1]])]
<1>1. h \in Nat /\ \A n \in 1..h : Cost(s[n]) \in Nat
  BY CostIsNat
<1> HIDE DEF h
<1>2. g \in [(1..h) \X Nat -> Nat] /\ \A n \in 1..h, m \in Nat : g[<<n, m>>] = m + Cost(s[n])
  <2>1. \A p \in (1..h) \X Nat : p[2] + Cost(s[p[1]]) \in Nat
    BY <1>1
  <2>2. QED
    BY <2>1
<1> HIDE DEF g
<1>3. PICK c \in [0..h -> Nat] : c[0] = 0 /\ \A n \in 1..h : c[n] = g[<<n, c[n - 1]>>]
  <2> DEFINE z == 0
  <2>1. z \in Nat /\ g \in StepsOn(Nat, h) /\ h \in Nat
    BY <1>1, <1>2 DEF StepsOn
  <2> HIDE DEF z
  <2>2. \E c : IsCourse(c, g, Nat, z, h)
    BY <2>1, CourseExists
  <2>3. QED
    BY <2>2 DEF IsCourse, z
<1>4. ASSUME NEW n \in 1..h PROVE c[n] = c[n - 1] + Cost(s[n])
  <2>1. c[n - 1] \in Nat
    <3>1. n - 1 \in 0..h
      BY <1>1
    <3>2. QED
      BY <1>3, <3>1
  <2>2. QED
    BY <1>2, <1>3, <2>1
<1>5. IsSum(c, s)
  <2>1. c = [n \in 0..h |-> c[n]]
    BY <1>3
  <2>2. \A n \in 0..h : c[n] = IF n = 0 THEN 0 ELSE c[n - 1] + Cost(s[n])
    BY <1>1, <1>3, <1>4
  <2>3. c = [n \in 0..h |-> IF n = 0 THEN 0 ELSE c[n - 1] + Cost(s[n])]
    BY <2>1, <2>2
  <2>4. QED
    BY <2>3 DEF IsSum, h
<1> DEFINE f == CHOOSE v : IsSum(v, s)
<1>6. Spent(s) = f[h]
  BY DEF Spent, IsSum, h
<1>7. IsSum(f, s)
  BY <1>5
<1> HIDE DEF f
<1>8. f = [n \in 0..h |-> IF n = 0 THEN 0 ELSE f[n - 1] + Cost(s[n])]
  BY <1>7 DEF IsSum, h
<1>9. /\ f[0] = 0 /\ \A n \in 1..h : f[n] = f[n - 1] + Cost(s[n])
      /\ DOMAIN f = 0..h
  <2>1. DOMAIN f = 0..h /\ \A n \in 0..h : f[n] = IF n = 0 THEN 0 ELSE f[n - 1] + Cost(s[n])
    BY <1>8
  <2>2. QED
    BY <1>1, <2>1
<1>10. \A n \in 0..h : f[n] = c[n]
  <2> DEFINE T == {n \in Nat : n <= h /\ f[n] # c[n]}
  <2>1. T = {}
    <3> SUFFICES ASSUME T # {} PROVE FALSE
      OBVIOUS
    <3>1. PICK n \in T : \A m \in T : n <= m
      BY LeastExists
    <3>2. n \in Nat /\ n <= h /\ f[n] # c[n]
      BY <3>1
    <3>3. n # 0
      BY <1>3, <1>9, <3>2
    <3>4. n \in 1..h /\ n - 1 \in Nat /\ n - 1 <= h /\ ~ (n <= n - 1)
      BY <1>1, <3>2, <3>3
    <3>5. f[n - 1] = c[n - 1]
      BY <3>1, <3>4
    <3>6. QED
      BY <1>4, <1>9, <3>2, <3>4, <3>5
  <2>2. QED
    BY <1>1, <2>1
<1>11. f \in [0..h -> Nat]
  <2>1. f = [n \in 0..h |-> f[n]]
    BY <1>8
  <2>2. \A n \in 0..h : f[n] \in Nat
    BY <1>3, <1>10
  <2>3. QED
    BY <2>1, <2>2
<1>12. QED
  BY <1>6, <1>9, <1>11 DEF h

\* What the first items of a list cost.
LEMMA SpentUpto ==
    ASSUME NEW s \in Seq(Items)
    PROVE  /\ Spent(SubSeq(s, 1, 0)) = 0
           /\ \A k \in 0..Len(s) : Spent(SubSeq(s, 1, k)) \in Nat
           /\ \A k \in 1..Len(s) :
                 Spent(SubSeq(s, 1, k)) = Spent(SubSeq(s, 1, k - 1)) + Cost(s[k])
           /\ \A j, k \in 0..Len(s) : j <= k => Spent(SubSeq(s, 1, j)) <= Spent(SubSeq(s, 1, k))
           /\ Spent(s) = Spent(SubSeq(s, 1, Len(s)))
<1> DEFINE h == Len(s)
<1>1. PICK f \in [0..h -> Nat] :
         /\ f[0] = 0 /\ \A n \in 1..h : f[n] = f[n - 1] + Cost(s[n])
         /\ Spent(s) = f[h]
  BY SpentSteps
<1>2. h \in Nat /\ \A n \in 1..h : Cost(s[n]) \in Nat
  BY CostIsNat
<1>3. ASSUME NEW k \in 0..h PROVE Spent(SubSeq(s, 1, k)) = f[k]
  <2> DEFINE t == SubSeq(s, 1, k)
  <2>1. t \in Seq(Items) /\ Len(t) = k /\ \A i \in 1..k : t[i] = s[i]
    BY <1>2
  <2> HIDE DEF t
  <2>2. PICK g \in [0..k -> Nat] :
           /\ g[0] = 0 /\ \A n \in 1..k : g[n] = g[n - 1] + Cost(t[n])
           /\ Spent(t) = g[k]
    <3>1. \E g \in [0..Len(t) -> Nat] :
             /\ g[0] = 0 /\ \A n \in 1..Len(t) : g[n] = g[n - 1] + Cost(t[n])
             /\ Spent(t) = g[Len(t)]
      BY <2>1, SpentSteps
    <3>2. QED
      BY <2>1, <3>1
  <2> DEFINE T == {n \in Nat : n <= k /\ g[n] # f[n]}
  <2>3. T = {}
    <3> SUFFICES ASSUME T # {} PROVE FALSE
      OBVIOUS
    <3>1. PICK n \in T : \A m \in T : n <= m
      BY LeastExists
    <3>2. n \in Nat /\ n <= k /\ g[n] # f[n]
      BY <3>1
    <3>3. n # 0
      BY <1>1, <2>2, <3>2
    <3>4. n \in 1..k /\ n \in 1..h /\ n - 1 \in Nat /\ n - 1 <= k /\ ~ (n <= n - 1)
      BY <1>2, <3>2, <3>3
    <3>5. g[n - 1] = f[n - 1]
      BY <3>1, <3>4
    <3>6. QED
      BY <1>1, <2>1, <2>2, <3>2, <3>4, <3>5
  <2>4. g[k] = f[k]
    BY <1>2, <2>3
  <2>5. QED
    BY <2>2, <2>4 DEF t
<1>4. \A i, j \in 1..h : i <= j => f[i] <= f[j]
  <2> HIDE DEF h
  <2>1. \A i \in 1..h : f[i] \in Nat
    BY <1>1, <1>2
  <2>2. \A i \in 1..(h - 1) : f[i] <= f[i + 1]
    <3>1. ASSUME NEW i \in 1..(h - 1) PROVE f[i] <= f[i + 1]
      <4>1. i \in Nat /\ i \in 0..h /\ i + 1 \in 1..h /\ (i + 1) - 1 = i /\ f[i] \in Nat
        BY <1>1, <1>2
      <4>2. f[i + 1] = f[i] + Cost(s[i + 1]) /\ Cost(s[i + 1]) \in Nat
        BY <1>1, <1>2, <4>1
      <4>3. QED
        BY <4>1, <4>2
    <3>2. QED
      BY <3>1
  <2>3. QED
    BY <1>2, <2>1, <2>2, GrowsAlong
<1>5. \A i, j \in 0..h : i <= j => f[i] <= f[j]
  <2>1. ASSUME NEW i \in 0..h, NEW j \in 0..h, i <= j PROVE f[i] <= f[j]
    <3>1. f[i] \in Nat /\ f[j] \in Nat
      BY <1>1
    <3>2. CASE i = 0
      BY <1>1, <3>1, <3>2
    <3>3. CASE i # 0
      <4>1. i \in 1..h /\ j \in 1..h
        BY <1>2, <2>1, <3>3
      <4>2. QED
        BY <1>4, <2>1, <4>1
    <3>4. QED
      BY <3>2, <3>3
  <2>2. QED
    BY <2>1
<1>6. \A k \in 0..h : f[k] \in Nat
  BY <1>1
<1>7. 0 \in 0..h /\ h \in 0..h /\ \A k \in 1..h : k \in 0..h /\ k - 1 \in 0..h
  BY <1>2
<1> HIDE DEF h
<1>8. QED
  BY <1>1, <1>3, <1>5, <1>6, <1>7 DEF h

LEMMA SpentOfMore ==
    ASSUME NEW s \in Seq(Items), NEW x \in Items
    PROVE  /\ \A k \in 0..Len(s) : SubSeq(Append(s, x), 1, k) = SubSeq(s, 1, k)
           /\ Spent(Append(s, x)) = Spent(s) + Cost(x)
<1> DEFINE t == Append(s, x)
           h == Len(s)
<1>1. /\ t \in Seq(Items) /\ Len(t) = h + 1 /\ t[h + 1] = x /\ h \in Nat
      /\ \A i \in 1..h : t[i] = s[i]
  OBVIOUS
<1> HIDE DEF t
<1>2. ASSUME NEW k \in 0..h PROVE SubSeq(t, 1, k) = SubSeq(s, 1, k)
  <2>1. /\ SubSeq(t, 1, k) \in Seq(Items) /\ SubSeq(s, 1, k) \in Seq(Items)
        /\ Len(SubSeq(t, 1, k)) = k /\ Len(SubSeq(s, 1, k)) = k
        /\ \A i \in 1..k : SubSeq(t, 1, k)[i] = t[i] /\ SubSeq(s, 1, k)[i] = s[i]
    BY <1>1
  <2>2. \A i \in 1..k : SubSeq(t, 1, k)[i] = SubSeq(s, 1, k)[i]
    BY <1>1, <2>1
  <2>3. QED
    BY <2>1, <2>2
<1>3. Spent(t) = Spent(SubSeq(t, 1, h + 1))
  BY <1>1, SpentUpto
<1>4. Spent(SubSeq(t, 1, h + 1)) = Spent(SubSeq(t, 1, h)) + Cost(t[h + 1])
  <2>1. h + 1 \in 1..Len(t) /\ (h + 1) - 1 = h
    BY <1>1
  <2>2. Spent(SubSeq(t, 1, h + 1)) = Spent(SubSeq(t, 1, (h + 1) - 1)) + Cost(t[h + 1])
    BY <1>1, <2>1, SpentUpto
  <2>3. QED
    BY <2>1, <2>2
<1>5. SubSeq(t, 1, h) = SubSeq(s, 1, h)
  BY <1>1, <1>2
<1>6. Spent(s) = Spent(SubSeq(s, 1, h))
  BY SpentUpto
<1>7. QED
  BY <1>1, <1>2, <1>3, <1>4, <1>5, <1>6 DEF t

\* One step of packItems.
Packs == [used : Nat, items : Seq(Items), dropped : Seq(Items)]
Unpacked == [used |-> 0, items |-> <<>>, dropped |-> <<>>]
PackOne(so, x) ==
    IF so.used + Cost(x) > Budget
    THEN [so EXCEPT !.dropped = Append(@, x)]
    ELSE [so EXCEPT !.used = @ + Cost(x), !.items = Append(@, x)]

IsPacking(f, list) ==
    f = [n \in 0..Len(list) |-> IF n = 0 THEN Unpacked ELSE PackOne(f[n - 1], list[n])]

LEMMA PackOneIs ==
    ASSUME NEW so \in Packs, NEW x \in Items
    PROVE  LET to == PackOne(so, x) IN
           /\ to \in Packs
           /\ so.used + Cost(x) > Budget =>
                 to.used = so.used /\ to.items = so.items /\ to.dropped = Append(so.dropped, x)
           /\ ~ (so.used + Cost(x) > Budget) =>
                 /\ to.used = so.used + Cost(x) /\ to.items = Append(so.items, x)
                 /\ to.dropped = so.dropped
<1>1. Cost(x) \in Nat /\ so.used \in Nat /\ so.items \in Seq(Items) /\ so.dropped \in Seq(Items)
  BY CostIsNat DEF Packs
<1>2. Append(so.items, x) \in Seq(Items) /\ Append(so.dropped, x) \in Seq(Items)
      /\ so.used + Cost(x) \in Nat
  BY <1>1
<1>3. QED
  BY <1>1, <1>2 DEF Packs, PackOne

LEMMA PackSteps ==
    ASSUME NEW list \in Seq(Items)
    PROVE  \E f \in [0..Len(list) -> Packs] :
              /\ f[0] = Unpacked /\ \A n \in 1..Len(list) : f[n] = PackOne(f[n - 1], list[n])
              /\ PackItems(list) = f[Len(list)]
<1> DEFINE h == Len(list)
           g == [p \in (1..h) \X Packs |-> PackOne(p[2], list[p[1]])]
<1>1. h \in Nat /\ \A n \in 1..h : list[n] \in Items
  OBVIOUS
<1>2. Unpacked \in Packs
  BY DEF Unpacked, Packs
<1> HIDE DEF h
<1>3. /\ g \in StepsOn(Packs, h)
      /\ \A n \in 1..h, so \in Packs : g[<<n, so>>] = PackOne(so, list[n])
  <2>1. \A p \in (1..h) \X Packs : PackOne(p[2], list[p[1]]) \in Packs
    BY <1>1, PackOneIs
  <2>2. QED
    BY <2>1 DEF StepsOn
<1> HIDE DEF g
<1>4. PICK c : IsCourse(c, g, Packs, Unpacked, h)
  BY <1>1, <1>2, <1>3, CourseExists
<1>5. c \in [0..h -> Packs] /\ c[0] = Unpacked
  BY <1>4 DEF IsCourse
<1>6. ASSUME NEW n \in 1..h PROVE c[n] = PackOne(c[n - 1], list[n])
  <2>1. n - 1 \in 0..h
    BY <1>1
  <2>2. c[n - 1] \in Packs /\ c[n] = g[<<n, c[n - 1]>>]
    BY <1>4, <1>5, <2>1 DEF IsCourse
  <2>3. QED
    BY <1>3, <2>2
<1>7. IsPacking(c, list)
  <2>1. c = [n \in 0..h |-> c[n]]
    BY <1>5
  <2>2. \A n \in 0..h : c[n] = IF n = 0 THEN Unpacked ELSE PackOne(c[n - 1], list[n])
    BY <1>1, <1>5, <1>6
  <2>3. c = [n \in 0..h |-> IF n = 0 THEN Unpacked ELSE PackOne(c[n - 1], list[n])]
    BY <2>1, <2>2
  <2>4. QED
    BY <2>3 DEF IsPacking, h
<1> DEFINE f == CHOOSE v : IsPacking(v, list)
<1>8. PackItems(list) = f[h]
  BY DEF PackItems, IsPacking, PackOne, Unpacked, h
<1>9. IsPacking(f, list)
  BY <1>7
<1> HIDE DEF f
<1>10. f = [n \in 0..h |-> IF n = 0 THEN Unpacked ELSE PackOne(f[n - 1], list[n])]
  BY <1>9 DEF IsPacking, h
<1>11. /\ f[0] = Unpacked /\ \A n \in 1..h : f[n] = PackOne(f[n - 1], list[n])
       /\ DOMAIN f = 0..h
  <2>1. /\ DOMAIN f = 0..h
        /\ \A n \in 0..h : f[n] = IF n = 0 THEN Unpacked ELSE PackOne(f[n - 1], list[n])
    BY <1>10
  <2>2. QED
    BY <1>1, <2>1
<1>12. \A n \in 0..h : f[n] = c[n]
  <2> DEFINE T == {n \in Nat : n <= h /\ f[n] # c[n]}
  <2>1. T = {}
    <3> SUFFICES ASSUME T # {} PROVE FALSE
      OBVIOUS
    <3>1. PICK n \in T : \A m \in T : n <= m
      BY LeastExists
    <3>2. n \in Nat /\ n <= h /\ f[n] # c[n]
      BY <3>1
    <3>3. n # 0
      BY <1>5, <1>11, <3>2
    <3>4. n \in 1..h /\ n - 1 \in Nat /\ n - 1 <= h /\ ~ (n <= n - 1)
      BY <1>1, <3>2, <3>3
    <3>5. f[n - 1] = c[n - 1]
      BY <3>1, <3>4
    <3>6. QED
      BY <1>6, <1>11, <3>2, <3>4, <3>5
  <2>2. QED
    BY <1>1, <2>1
<1>13. f \in [0..h -> Packs]
  <2>1. f = [n \in 0..h |-> f[n]]
    BY <1>10
  <2>2. \A n \in 0..h : f[n] \in Packs
    BY <1>5, <1>12
  <2>3. QED
    BY <2>1, <2>2
<1>14. QED
  BY <1>8, <1>11, <1>13 DEF h

\* Is of no later tier, and no further away in its tier.
NoLater(x, y) == x.tier < y.tier \/ (x.tier = y.tier /\ x.depth <= y.depth)

InOrder(s) == \A i, j \in 1..Len(s) : i <= j => NoLater(s[i], s[j])

\* With what was taken of those no later than it, there was no room for it.
DidNotFit(s, x) ==
    \E k \in 0..Len(s) :
        /\ Spent(SubSeq(s, 1, k)) + Cost(x) > Budget
        /\ \A j \in 1..Len(s) : IF j <= k THEN NoLater(s[j], x) ELSE NoLater(x, s[j])

\* What is true after n items of a list.
PackedUpto(so, list, n) ==
    /\ so \in Packs /\ so.used = Spent(so.items) /\ so.used <= Budget
    /\ \A j \in 1..Len(so.items) : \E i \in 1..n : so.items[j] = list[i]
    /\ \A j \in 1..Len(so.dropped) :
          (\E i \in 1..n : so.dropped[j] = list[i]) /\ DidNotFit(so.items, so.dropped[j])
    /\ n # 0 /\ Cost(list[1]) <= Budget => so.items # <<>> /\ so.items[1] = list[1]

LEMMA PackingStarts == ASSUME NEW list PROVE PackedUpto(Unpacked, list, 0)
<1>1. Unpacked \in Packs /\ Unpacked.used = 0 /\ Unpacked.items = <<>> /\ Unpacked.dropped = <<>>
  BY DEF Unpacked, Packs
<1>2. Spent(<<>>) = 0
  <2> DEFINE e == <<>>
  <2>1. e \in Seq(Items) /\ Len(e) = 0
    OBVIOUS
  <2> HIDE DEF e
  <2>2. Spent(SubSeq(e, 1, 0)) = 0 /\ Spent(e) = Spent(SubSeq(e, 1, Len(e)))
    BY <2>1, SpentUpto
  <2>3. QED
    BY <2>1, <2>2 DEF e
<1>3. Budget \in Nat
  BY ContextAssumption
<1>4. QED
  BY <1>1, <1>2, <1>3 DEF PackedUpto

LEMMA PackingGoesOn ==
    ASSUME NEW list \in Seq(Items), InOrder(list), NEW n \in 1..Len(list), NEW so,
           PackedUpto(so, list, n - 1)
    PROVE  PackedUpto(PackOne(so, list[n]), list, n)
<1> DEFINE x == list[n]
           to == PackOne(so, x)
<1>1. /\ x \in Items /\ n \in Nat /\ Len(list) \in Nat /\ so \in Packs /\ Budget \in Nat
      /\ so.items \in Seq(Items) /\ so.dropped \in Seq(Items) /\ so.used \in Nat
  BY ContextAssumption DEF PackedUpto, Packs
<1>2. Cost(x) \in Nat
  BY <1>1, CostIsNat
<1>3. \A i \in 1..n : NoLater(list[i], x)
  BY <1>1 DEF InOrder
<1>4. \A i \in 1..(n - 1) : i \in 1..n
  BY <1>1
<1> HIDE DEF to, x
<1>5. /\ \A j \in 1..Len(so.items) : \E i \in 1..n : so.items[j] = list[i]
      /\ \A j \in 1..Len(so.dropped) : \E i \in 1..n : so.dropped[j] = list[i]
  BY <1>4 DEF PackedUpto
<1>6. n # 1 => n - 1 # 0
  BY <1>1
<1>7. CASE so.used + Cost(x) > Budget
  <2>1. /\ to \in Packs /\ to.used = so.used /\ to.items = so.items
        /\ to.dropped = Append(so.dropped, x)
    BY <1>1, <1>7, PackOneIs DEF to
  <2>2. DidNotFit(so.items, x)
    <3>1. Spent(SubSeq(so.items, 1, Len(so.items))) = so.used
      BY <1>1, SpentUpto DEF PackedUpto
    <3>2. Len(so.items) \in 0..Len(so.items) /\ \A j \in 1..Len(so.items) : j <= Len(so.items)
      BY <1>1
    <3>3. \A j \in 1..Len(so.items) : NoLater(so.items[j], x)
      BY <1>3, <1>5
    <3>4. QED
      BY <1>7, <3>1, <3>2, <3>3 DEF DidNotFit
  <2>3. ASSUME NEW j \in 1..Len(to.dropped)
        PROVE  (\E i \in 1..n : to.dropped[j] = list[i]) /\ DidNotFit(to.items, to.dropped[j])
    <3>1. CASE j \in 1..Len(so.dropped)
      <4>1. to.dropped[j] = so.dropped[j]
        BY <1>1, <2>1, <3>1
      <4>2. QED
        BY <1>5, <2>1, <3>1, <4>1 DEF PackedUpto
    <3>2. CASE j \notin 1..Len(so.dropped)
      <4>1. to.dropped[j] = x
        BY <1>1, <2>1, <3>2
      <4>2. n \in 1..n /\ x = list[n]
        BY <1>1 DEF x
      <4>3. QED
        BY <2>1, <2>2, <4>1, <4>2
    <3>3. QED
      BY <3>1, <3>2
  <2>4. Cost(list[1]) <= Budget => to.items # <<>> /\ to.items[1] = list[1]
    <3>1. CASE n = 1
      <4>1. so.items = <<>>
        <5>1. so.items # <<>> => 1 \in 1..Len(so.items)
          BY <1>1
        <5>2. \A i : i \notin 1..(n - 1)
          BY <3>1
        <5>3. QED
          BY <5>1, <5>2 DEF PackedUpto
      <4>2. so.used = 0
        BY <4>1, PackingStarts DEF PackedUpto, Unpacked
      <4>3. QED
        BY <1>2, <1>7, <3>1, <4>2, <1>1 DEF x
    <3>2. CASE n # 1
      BY <1>6, <2>1, <3>2 DEF PackedUpto
    <3>3. QED
      BY <3>1, <3>2
  <2>5. to.used = Spent(to.items) /\ to.used <= Budget
    BY <2>1 DEF PackedUpto
  <2>6. \A j \in 1..Len(to.items) : \E i \in 1..n : to.items[j] = list[i]
    BY <1>5, <2>1
  <2>7. PackedUpto(to, list, n)
    BY <2>1, <2>3, <2>4, <2>5, <2>6 DEF PackedUpto
  <2>8. QED
    BY <2>7 DEF to, x
<1>8. CASE ~ (so.used + Cost(x) > Budget)
  <2>1. /\ to \in Packs /\ to.used = so.used + Cost(x) /\ to.items = Append(so.items, x)
        /\ to.dropped = so.dropped
    BY <1>1, <1>8, PackOneIs DEF to
  <2>2. to.used = Spent(to.items) /\ to.used <= Budget
    <3>1. Spent(to.items) = Spent(so.items) + Cost(x)
      BY <1>1, <2>1, SpentOfMore
    <3>2. QED
      BY <1>1, <1>2, <1>8, <2>1, <3>1 DEF PackedUpto
  <2>3. /\ Len(to.items) = Len(so.items) + 1 /\ Len(so.items) \in Nat
        /\ \A j \in 1..Len(so.items) : to.items[j] = so.items[j]
        /\ \A j \in 1..Len(to.items) : j \notin 1..Len(so.items) => to.items[j] = x
        /\ to.items # <<>>
    <3> DEFINE s == so.items
               u == Append(s, x)
    <3>1. to.items = u
      BY <2>1
    <3>2. /\ Len(u) = Len(s) + 1 /\ Len(s) \in Nat /\ u # <<>> /\ u[Len(s) + 1] = x
          /\ \A j \in 1..Len(s) : u[j] = s[j]
      BY <1>1
    <3> HIDE DEF u
    <3>3. \A j \in 1..Len(u) : j \notin 1..Len(s) => j = Len(s) + 1
      BY <3>2
    <3>4. QED
      BY <3>1, <3>2, <3>3
  <2>4. ASSUME NEW j \in 1..Len(to.items) PROVE \E i \in 1..n : to.items[j] = list[i]
    <3>1. CASE j \in 1..Len(so.items)
      BY <1>5, <2>3, <3>1
    <3>2. CASE j \notin 1..Len(so.items)
      <4>1. to.items[j] = list[n] /\ n \in 1..n
        BY <1>1, <2>3, <3>2 DEF x
      <4>2. QED
        BY <4>1
    <3>3. QED
      BY <3>1, <3>2
  <2>5. ASSUME NEW i \in 1..Len(so.dropped) PROVE DidNotFit(to.items, so.dropped[i])
    <3> DEFINE y == so.dropped[i]
    <3>1. NoLater(y, x)
      <4>1. PICK m \in 1..n : y = list[m]
        BY <1>5
      <4>2. QED
        BY <1>3, <4>1
    <3>2. DidNotFit(so.items, y)
      BY DEF PackedUpto
    <3> HIDE DEF y
    <3>3. PICK k \in 0..Len(so.items) :
             /\ Spent(SubSeq(so.items, 1, k)) + Cost(y) > Budget
             /\ \A j \in 1..Len(so.items) :
                   IF j <= k THEN NoLater(so.items[j], y) ELSE NoLater(y, so.items[j])
      BY <3>2 DEF DidNotFit
    <3>4. SubSeq(to.items, 1, k) = SubSeq(so.items, 1, k) /\ k \in 0..Len(to.items)
      BY <1>1, <2>1, <2>3, SpentOfMore
    <3>5. ASSUME NEW j \in 1..Len(to.items)
          PROVE  IF j <= k THEN NoLater(to.items[j], y) ELSE NoLater(y, to.items[j])
      <4>1. CASE j \in 1..Len(so.items)
        BY <2>3, <3>3, <4>1
      <4>2. CASE j \notin 1..Len(so.items)
        <5>1. ~ (j <= k) /\ to.items[j] = x
          BY <2>3, <4>2
        <5>2. QED
          BY <3>1, <5>1
      <4>3. QED
        BY <4>1, <4>2
    <3>6. DidNotFit(to.items, y)
      BY <3>3, <3>4, <3>5 DEF DidNotFit
    <3>7. QED
      BY <3>6 DEF y
  <2>6. Cost(list[1]) <= Budget => to.items # <<>> /\ to.items[1] = list[1]
    <3>1. CASE n = 1
      <4>1. so.items = <<>>
        <5>1. so.items # <<>> => 1 \in 1..Len(so.items)
          BY <1>1
        <5>2. \A i : i \notin 1..(n - 1)
          BY <3>1
        <5>3. QED
          BY <5>1, <5>2 DEF PackedUpto
      <4>2. to.items[1] = x
        BY <2>1, <4>1, <2>3
      <4>3. QED
        BY <2>3, <3>1, <4>2 DEF x
    <3>2. CASE n # 1
      <4>1. Cost(list[1]) <= Budget => so.items # <<>> /\ so.items[1] = list[1]
        BY <1>6, <3>2 DEF PackedUpto
      <4>2. so.items # <<>> => to.items[1] = so.items[1]
        BY <1>1, <2>1
      <4>3. QED
        BY <2>3, <4>1, <4>2
    <3>3. QED
      BY <3>1, <3>2
  <2>7. PackedUpto(to, list, n)
    BY <1>5, <2>1, <2>2, <2>4, <2>5, <2>6 DEF PackedUpto
  <2>8. QED
    BY <2>7 DEF to, x
<1>9. QED
  BY <1>7, <1>8

LEMMA PackedWell ==
    ASSUME NEW list \in Seq(Items), InOrder(list)
    PROVE  PackedUpto(PackItems(list), list, Len(list))
<1>1. PICK f \in [0..Len(list) -> Packs] :
         /\ f[0] = Unpacked /\ \A n \in 1..Len(list) : f[n] = PackOne(f[n - 1], list[n])
         /\ PackItems(list) = f[Len(list)]
  BY PackSteps
<1> DEFINE T == {n \in Nat : n <= Len(list) /\ ~ PackedUpto(f[n], list, n)}
<1>2. T = {}
  <2> SUFFICES ASSUME T # {} PROVE FALSE
    OBVIOUS
  <2>1. PICK n \in T : \A m \in T : n <= m
    BY LeastExists
  <2>2. n \in Nat /\ n <= Len(list) /\ ~ PackedUpto(f[n], list, n)
    BY <2>1
  <2>3. n # 0
    BY <1>1, <2>2, PackingStarts
  <2>4. n \in 1..Len(list) /\ n - 1 \in Nat /\ n - 1 <= Len(list) /\ ~ (n <= n - 1)
    BY <2>2, <2>3
  <2>5. PackedUpto(f[n - 1], list, n - 1)
    BY <2>1, <2>4
  <2>6. f[n] = PackOne(f[n - 1], list[n])
    BY <1>1, <2>4
  <2>7. QED
    BY <2>2, <2>4, <2>5, <2>6, PackingGoesOn
<1>3. PackedUpto(f[Len(list)], list, Len(list))
  <2>1. Len(list) \in Nat /\ Len(list) <= Len(list)
    OBVIOUS
  <2> HIDE DEF T
  <2>2. Len(list) \notin T
    BY <1>2
  <2>3. QED
    BY <2>1, <2>2 DEF T
<1>4. QED
  BY <1>1, <1>3

\* What a leg of an assembly brings: items of its tier, nearest first.
Leg(s, k) ==
    /\ s \in Seq(Items) /\ InOrder(s) /\ \A i \in 1..Len(s) : s[i].tier = k

HaveDepths(trail) == \A r \in trail : r.depth \in Nat

PapersOK ==
    /\ papers \in [there : SUBSET Papers, bulk : [Papers -> Nat], deps : SUBSET Refers,
                   mine : SUBSET Papers, notes : 0..MaxNotes]
    /\ \A e \in papers.deps : {e[1], e[2]} \subseteq papers.there

GatherStages == {"none", "reading", "packed", "failed"}

Gathers(f, out, in) ==
    [stage : GatherStages, focus : {f}, sought : BOOLEAN, allowed : SUBSET Papers,
     read : SUBSET Legs, out : {out}, in : {in}, current : Seq(Items),
     dependencies : Seq(Items), hits : Seq(Papers), semantic : Seq(Items),
     comments : Seq(Items), items : Seq(Items), dropped : Seq(Items)]

GatherOK == gather \in Gathers(gather.focus, gather.out, gather.in)

LegsOK ==
    /\ HaveDepths(gather.out) /\ HaveDepths(gather.in)
    /\ Leg(gather.current, 1) /\ Leg(gather.dependencies, 2)
    /\ Leg(gather.semantic, 3) /\ Leg(gather.comments, 4)

PackedOK ==
    /\ Spent(gather.items) <= Budget
    /\ \A i \in 1..Len(gather.dropped) : DidNotFit(gather.items, gather.dropped[i])
    /\ gather.current # <<>> /\ Cost(gather.current[1]) <= Budget =>
          gather.items # <<>> /\ gather.items[1] = gather.current[1]

\* The inductive invariant.
ContextInv ==
    /\ PapersOK /\ GatherOK /\ ContextTypeOK /\ LegsOK
    /\ gather.stage = "reading" => gather.focus \in Papers
    /\ gather.stage = "packed" => PackedOK

LEMMA EmptyLeg == \A k : Leg(<<>>, k)
  BY DEF Leg, InOrder

LEMMA LegOfOneDepth ==
    ASSUME NEW s \in Seq(Items), NEW k \in 1..4,
           \A i \in 1..Len(s) : s[i].tier = k /\ s[i].depth = 0
    PROVE  Leg(s, k)
  BY DEF Leg, InOrder, NoLater

\* An assembly that begins.
Begun(st, f, so, a) ==
    [stage |-> st, focus |-> f, sought |-> so, allowed |-> a, read |-> {}, out |-> {},
     in |-> {}, current |-> <<>>, dependencies |-> <<>>, hits |-> <<>>, semantic |-> <<>>,
     comments |-> <<>>, items |-> <<>>, dropped |-> <<>>]

NoFocus == CHOOSE d \in Papers : TRUE

LEMMA NoGatherIs == NoGather = Begun("none", NoFocus, FALSE, {})
  BY DEF NoGather, Begun, NoFocus

LEMMA BegunIsGather ==
    ASSUME NEW st \in GatherStages, NEW f, NEW so \in BOOLEAN, NEW a \in SUBSET Papers
    PROVE  Begun(st, f, so, a) \in Gathers(f, {}, {})
<1>1. <<>> \in Seq(Items) /\ <<>> \in Seq(Papers) /\ {} \in SUBSET Legs
  OBVIOUS
<1>2. QED
  BY <1>1 DEF Begun, Gathers

LEMMA BegunIs ==
    ASSUME NEW st \in GatherStages, NEW f, NEW so \in BOOLEAN, NEW a \in SUBSET Papers,
           gather' = Begun(st, f, so, a), PapersOK', st # "packed",
           st = "reading" => f \in Papers
    PROVE  ContextInv'
<1>1. /\ gather'.stage = st /\ gather'.focus = f /\ gather'.read = {}
      /\ gather'.out = {} /\ gather'.in = {} /\ gather'.items = <<>> /\ gather'.dropped = <<>>
      /\ gather'.current = <<>> /\ gather'.dependencies = <<>> /\ gather'.semantic = <<>>
      /\ gather'.comments = <<>>
  BY DEF Begun
<1>2. GatherOK'
  BY <1>1, BegunIsGather DEF GatherOK
<1>3. LegsOK'
  BY <1>1, EmptyLeg DEF LegsOK, HaveDepths
<1>4. ContextTypeOK'
  BY <1>1 DEF ContextTypeOK, PapersOK, GatherStages
<1>5. QED
  BY <1>1, <1>2, <1>3, <1>4 DEF ContextInv

LEMMA RefersJoin == Refers \in SUBSET (Papers \X Papers)
  BY ContextAssumption

LEMMA ContextStarts == ContextInit => ContextInv
<1> SUFFICES ASSUME ContextInit PROVE ContextInv
  OBVIOUS
<1>1. gather = Begun("none", NoFocus, FALSE, {})
  BY NoGatherIs DEF ContextInit
<1>2. /\ gather.stage = "none" /\ gather.focus = NoFocus /\ gather.read = {}
      /\ gather.out = {} /\ gather.in = {} /\ gather.items = <<>> /\ gather.dropped = <<>>
      /\ gather.current = <<>> /\ gather.dependencies = <<>> /\ gather.semantic = <<>>
      /\ gather.comments = <<>>
  BY <1>1 DEF Begun
<1>3. GatherOK
  <2>1. {} \in SUBSET Papers /\ "none" \in GatherStages
    BY DEF GatherStages
  <2>2. gather \in Gathers(NoFocus, {}, {})
    BY <1>1, <2>1, BegunIsGather
  <2>3. QED
    BY <1>2, <2>2 DEF GatherOK
<1>4. LegsOK
  BY <1>2, EmptyLeg DEF LegsOK, HaveDepths
<1>5. papers \in [there : {Papers}, bulk : [Papers -> Bulks], deps : SUBSET Refers,
                  mine : {Papers}, notes : {MaxNotes}]
  BY DEF ContextInit
<1>6. Bulks \subseteq Nat /\ MaxNotes \in Nat
  BY ContextAssumption
<1>7. papers.bulk \in [Papers -> Nat]
  BY <1>5, <1>6
<1>8. PapersOK
  BY <1>5, <1>6, <1>7, RefersJoin DEF PapersOK
<1>9. ContextTypeOK
  BY <1>2, <1>8 DEF ContextTypeOK, PapersOK
<1>10. QED
  BY <1>2, <1>3, <1>4, <1>8, <1>9 DEF ContextInv

\* What others do to the documents leaves an assembly as it is.
LEMMA RewriteKeeps == ASSUME ContextInv, gather' = gather, PapersOK' PROVE ContextInv'
<1>1. GatherOK'
  BY DEF ContextInv, GatherOK
<1>2. LegsOK' /\ (PackedOK => PackedOK')
  BY DEF ContextInv, LegsOK, PackedOK, HaveDepths, Leg
<1>3. ContextTypeOK'
  BY DEF ContextInv, ContextTypeOK, PapersOK
<1>4. QED
  BY <1>1, <1>2, <1>3 DEF ContextInv

\* An assembly that goes on reading.
LEMMA ReadingGoesOn ==
    ASSUME ContextInv, UNCHANGED papers, gather.stage = "reading", GatherOK', LegsOK',
           gather'.stage = "reading", gather'.focus = gather.focus,
           gather'.items = gather.items, gather'.dropped = gather.dropped,
           "dependencies" \in gather'.read => {"outgoing", "incoming"} \subseteq gather'.read
    PROVE  ContextInv'
<1>1. PapersOK'
  BY DEF ContextInv, PapersOK
<1>2. gather'.read \subseteq Legs
  BY DEF GatherOK, Gathers
<1>3. ContextTypeOK'
  BY <1>1, <1>2 DEF ContextInv, ContextTypeOK, PapersOK
<1>4. QED
  BY <1>1, <1>3 DEF ContextInv

LEMMA GatherSteps == ASSUME ContextInv, NEW d \in Papers, Gather(d) PROVE ContextInv'
<1> DEFINE a == papers.mine \cap papers.there
<1>1. PICK sought \in BOOLEAN :
        gather' = [NoGather EXCEPT !.stage = "reading", !.focus = d, !.sought = sought,
                                   !.allowed = a]
  BY DEF Gather
<1>2. a \in SUBSET Papers /\ PapersOK'
  BY DEF Gather, ContextInv, PapersOK
<1> HIDE DEF a
<1>3. gather' = Begun("reading", d, sought, a)
  BY <1>1, NoGatherIs DEF Begun
<1>4. "reading" \in GatherStages /\ "reading" # "packed"
  BY DEF GatherStages
<1>5. QED
  BY <1>2, <1>3, <1>4, BegunIs

LEMMA QueryFailsSteps == ASSUME ContextInv, QueryFails PROVE ContextInv'
<1>1. gather' = Begun("failed", NoFocus, FALSE, {})
  BY NoGatherIs DEF QueryFails, Begun
<1>2. PapersOK'
  BY DEF QueryFails, ContextInv, PapersOK
<1>3. "failed" \in GatherStages /\ "failed" # "packed" /\ "failed" # "reading"
      /\ {} \in SUBSET Papers /\ FALSE \in BOOLEAN
  BY DEF GatherStages
<1>4. QED
  BY <1>1, <1>2, <1>3, BegunIs

LEMMA ReadsIs ==
    ASSUME ContextInv, NEW l \in Legs, Reads(l)
    PROVE  /\ gather.stage = "reading" /\ UNCHANGED papers /\ GatherOK /\ LegsOK /\ PapersOK
           /\ gather.focus \in Papers /\ gather.read \cup {l} \in SUBSET Legs
           /\ "dependencies" \in gather.read => {"outgoing", "incoming"} \subseteq gather.read
<1>1. GatherOK /\ ContextTypeOK
  BY DEF ContextInv
<1>2. gather.read \in SUBSET Legs
  BY <1>1 DEF GatherOK, Gathers
<1>3. QED
  BY <1>1, <1>2 DEF Reads, ContextInv, ContextTypeOK

LEMMA ReadCurrentSteps == ASSUME ContextInv, ReadCurrent PROVE ContextInv'
<1> DEFINE v == IF gather.focus \notin papers.there THEN <<>>
                ELSE <<Item(gather.focus, 1, 0, papers.bulk[gather.focus])>>
           r == gather.read \cup {"current"}
<1>1. gather' = [gather EXCEPT !.read = r, !.current = v]
  BY DEF ReadCurrent, Has
<1>2. /\ gather.stage = "reading" /\ UNCHANGED papers /\ GatherOK /\ LegsOK /\ PapersOK
      /\ gather.focus \in Papers /\ r \in SUBSET Legs
      /\ "dependencies" \in gather.read => {"outgoing", "incoming"} \subseteq gather.read
  BY ReadsIs DEF ReadCurrent, Legs
<1>3. v \in Seq(Items) /\ Leg(v, 1)
  <2>1. CASE gather.focus \notin papers.there
    BY <2>1, EmptyLeg DEF Leg
  <2>2. CASE gather.focus \in papers.there
    <3> DEFINE x == Item(gather.focus, 1, 0, papers.bulk[gather.focus])
    <3>1. papers.bulk[gather.focus] \in Nat
      BY <1>2 DEF PapersOK
    <3>2. x \in Items /\ x.tier = 1 /\ x.depth = 0
      BY <1>2, <3>1, ItemIs, SMTT(30)
    <3>3. v = <<x>>
      BY <2>2
    <3> HIDE DEF x, v
    <3>4. v \in Seq(Items) /\ Len(v) = 1 /\ v[1] = x
      BY <3>2, <3>3
    <3>5. QED
      BY <3>2, <3>4, LegOfOneDepth
  <2>3. QED
    BY <2>1, <2>2
<1> HIDE DEF v
<1>4. "dependencies" \in r => {"outgoing", "incoming"} \subseteq r
  BY <1>2
<1> HIDE DEF r
<1>5. /\ gather'.stage = "reading" /\ gather'.focus = gather.focus /\ gather'.read = r
      /\ gather'.out = gather.out /\ gather'.in = gather.in /\ gather'.current = v
      /\ gather'.dependencies = gather.dependencies /\ gather'.semantic = gather.semantic
      /\ gather'.comments = gather.comments
      /\ gather'.items = gather.items /\ gather'.dropped = gather.dropped
  BY <1>1, <1>2 DEF GatherOK, Gathers
<1>6. GatherOK'
  BY <1>1, <1>2, <1>3 DEF GatherOK, Gathers
<1>7. LegsOK'
  BY <1>2, <1>3, <1>5 DEF LegsOK
<1>8. QED
  BY <1>2, <1>4, <1>5, <1>6, <1>7, ReadingGoesOn

LEMMA ReadClosuresSteps ==
    ASSUME ContextInv, ReadOutgoing \/ ReadIncoming PROVE ContextInv'
<1>1. /\ gather.stage = "reading" /\ UNCHANGED papers /\ GatherOK /\ LegsOK /\ PapersOK
      /\ gather.focus \in Papers
      /\ gather.read \cup {"outgoing"} \in SUBSET Legs
      /\ gather.read \cup {"incoming"} \in SUBSET Legs
      /\ "dependencies" \in gather.read => {"outgoing", "incoming"} \subseteq gather.read
  <2>1. {"outgoing", "incoming"} \subseteq Legs
    BY DEF Legs
  <2>2. GatherOK => gather.read \in SUBSET Legs
    BY DEF GatherOK, Gathers
  <2>3. \E l \in {"outgoing", "incoming"} : Reads(l)
    BY DEF ReadOutgoing, ReadIncoming
  <2>4. QED
    BY <2>1, <2>2, <2>3, ReadsIs
<1>2. ASSUME NEW direction \in Directions
      PROVE  HaveDepths(Closure(papers.deps, gather.focus, direction, Hops))
  <2>1. papers.deps \in SUBSET (Papers \X Papers) /\ Hops \in Nat \ {0}
    BY <1>1, RefersJoin, ContextAssumption DEF PapersOK
  <2>2. \A x \in Closure(papers.deps, gather.focus, direction, Hops) : x.depth \in 1..Hops
    BY <1>1, <2>1, RowsAreReached
  <2>3. QED
    BY <2>1, <2>2 DEF HaveDepths
<1>3. CASE ReadOutgoing
  <2> DEFINE v == Closure(papers.deps, gather.focus, "outgoing", Hops)
             r == gather.read \cup {"outgoing"}
  <2>1. gather' = [gather EXCEPT !.read = r, !.out = v]
    BY <1>3 DEF ReadOutgoing
  <2>2. HaveDepths(v) /\ r \in SUBSET Legs
    BY <1>1, <1>2 DEF Directions
  <2>3. "dependencies" \in r => {"outgoing", "incoming"} \subseteq r
    BY <1>1
  <2> HIDE DEF v, r
  <2>4. /\ gather'.stage = "reading" /\ gather'.focus = gather.focus /\ gather'.read = r
        /\ gather'.out = v /\ gather'.in = gather.in /\ gather'.current = gather.current
        /\ gather'.dependencies = gather.dependencies /\ gather'.semantic = gather.semantic
        /\ gather'.comments = gather.comments
        /\ gather'.items = gather.items /\ gather'.dropped = gather.dropped
    BY <1>1, <2>1 DEF GatherOK, Gathers
  <2>5. gather' \in Gathers(gather.focus, v, gather.in)
    BY <1>1, <2>1, <2>2 DEF GatherOK, Gathers
  <2>6. GatherOK'
    BY <2>4, <2>5 DEF GatherOK
  <2>7. LegsOK'
    BY <1>1, <2>2, <2>4 DEF LegsOK
  <2>8. QED
    BY <1>1, <2>3, <2>4, <2>6, <2>7, ReadingGoesOn
<1>4. CASE ReadIncoming
  <2> DEFINE v == Closure(papers.deps, gather.focus, "incoming", Hops)
             r == gather.read \cup {"incoming"}
  <2>1. gather' = [gather EXCEPT !.read = r, !.in = v]
    BY <1>4 DEF ReadIncoming
  <2>2. HaveDepths(v) /\ r \in SUBSET Legs
    BY <1>1, <1>2 DEF Directions
  <2>3. "dependencies" \in r => {"outgoing", "incoming"} \subseteq r
    BY <1>1
  <2> HIDE DEF v, r
  <2>4. /\ gather'.stage = "reading" /\ gather'.focus = gather.focus /\ gather'.read = r
        /\ gather'.out = gather.out /\ gather'.in = v /\ gather'.current = gather.current
        /\ gather'.dependencies = gather.dependencies /\ gather'.semantic = gather.semantic
        /\ gather'.comments = gather.comments
        /\ gather'.items = gather.items /\ gather'.dropped = gather.dropped
    BY <1>1, <2>1 DEF GatherOK, Gathers
  <2>5. gather' \in Gathers(gather.focus, gather.out, v)
    BY <1>1, <2>1, <2>2 DEF GatherOK, Gathers
  <2>6. GatherOK'
    BY <2>4, <2>5 DEF GatherOK
  <2>7. LegsOK'
    BY <1>1, <2>2, <2>4 DEF LegsOK
  <2>8. QED
    BY <1>1, <2>3, <2>4, <2>6, <2>7, ReadingGoesOn
<1>5. QED
  BY <1>3, <1>4

\* The neighbours, nearest first.
LEMMA NeighboursAreALeg ==
    ASSUME PapersOK, NEW trail, HaveDepths(trail), NEW S \in SUBSET Papers,
           S \subseteq ReachableDocIds(trail), NEW s \in Orderings(S), NearerFirst(s, trail)
    PROVE  LET v == [n \in 1..Len(s) |-> Item(s[n], 2, Shallowest(trail, s[n]),
                                              papers.bulk[s[n]])]
           IN v \in Seq(Items) /\ Leg(v, 2)
<1> DEFINE v == [n \in 1..Len(s) |-> Item(s[n], 2, Shallowest(trail, s[n]), papers.bulk[s[n]])]
           f == [n \in 1..Len(s) |-> Shallowest(trail, s[n])]
<1>1. s \in Seq(S)
  <2>1. IsFiniteSet(S)
    BY ContextAssumption, FS_Subset
  <2>2. QED
    BY <2>1, OrderingsList
<1>2. Len(s) \in Nat /\ \A n \in 1..Len(s) : s[n] \in S
  BY <1>1
<1>3. \A n \in 1..Len(s) : Shallowest(trail, s[n]) \in Nat /\ papers.bulk[s[n]] \in Nat
                           /\ s[n] \in Papers
  <2>1. ASSUME NEW d \in S PROVE Shallowest(trail, d) \in Nat
    BY <2>1, ShallowestIsLeast DEF HaveDepths
  <2>2. QED
    BY <1>2, <2>1 DEF PapersOK
<1>4. ASSUME NEW n \in 1..Len(s)
      PROVE  v[n] \in Items /\ v[n].tier = 2 /\ v[n].depth = f[n]
  <2>1. v[n] = Item(s[n], 2, f[n], papers.bulk[s[n]])
    OBVIOUS
  <2>2. s[n] \in Papers /\ f[n] \in Nat /\ papers.bulk[s[n]] \in Nat /\ 2 \in 1..4
    BY <1>3
  <2> HIDE DEF f, v
  <2>3. QED
    BY <2>1, <2>2 DEF Item, Items
<1>5. v \in Seq(Items) /\ Len(v) = Len(s)
  <2>1. v \in [1..Len(s) -> Items]
    BY <1>4
  <2> HIDE DEF v
  <2>2. QED
    BY <1>2, <2>1
<1>6. \A i, j \in 1..Len(s) : i <= j => f[i] <= f[j]
  <2>1. \A i \in 1..(Len(s) - 1) : i \in 1..Len(s) /\ i + 1 \in 1..Len(s)
    BY <1>2
  <2>2. \A i \in 1..(Len(s) - 1) : f[i] <= f[i + 1]
    BY <2>1 DEF NearerFirst
  <2>3. \A i \in 1..Len(s) : f[i] \in Nat
    BY <1>3
  <2> HIDE DEF f
  <2>4. QED
    BY <1>2, <2>2, <2>3, GrowsAlong
<1> HIDE DEF v, f
<1>7. Leg(v, 2)
  BY <1>4, <1>5, <1>6 DEF Leg, InOrder, NoLater
<1>8. QED
  BY <1>5, <1>7 DEF v

LEMMA ReadNeighboursSteps == ASSUME ContextInv, ReadNeighbours PROVE ContextInv'
<1> DEFINE trail == gather.out \cup gather.in
           met == ((ReachableDocIds(trail) \cap gather.allowed) \ {gather.focus})
                     \cap papers.there
           r == gather.read \cup {"dependencies"}
<1>1. /\ gather.stage = "reading" /\ UNCHANGED papers /\ GatherOK /\ LegsOK /\ PapersOK
      /\ gather.focus \in Papers /\ r \in SUBSET Legs
      /\ {"outgoing", "incoming"} \subseteq r
  BY ReadsIs DEF ReadNeighbours, Legs
<1>2. PICK s \in Orderings(met) :
        /\ NearerFirst(s, trail)
        /\ gather' = Has("dependencies",
                         [n \in 1..Len(s) |-> Item(s[n], 2, Shallowest(trail, s[n]),
                                                   papers.bulk[s[n]])])
  BY DEF ReadNeighbours
<1> DEFINE v == [n \in 1..Len(s) |-> Item(s[n], 2, Shallowest(trail, s[n]), papers.bulk[s[n]])]
<1>3. gather' = [gather EXCEPT !.read = r, !.dependencies = v]
  BY <1>2 DEF Has
<1>4. v \in Seq(Items) /\ Leg(v, 2)
  <2>1. HaveDepths(trail) /\ met \subseteq ReachableDocIds(trail) /\ met \in SUBSET Papers
    BY <1>1 DEF LegsOK, HaveDepths, PapersOK
  <2> HIDE DEF met, trail
  <2>2. QED
    BY <1>1, <1>2, <2>1, NeighboursAreALeg
<1> HIDE DEF v, r
<1>5. /\ gather'.stage = "reading" /\ gather'.focus = gather.focus /\ gather'.read = r
      /\ gather'.out = gather.out /\ gather'.in = gather.in /\ gather'.current = gather.current
      /\ gather'.dependencies = v /\ gather'.semantic = gather.semantic
      /\ gather'.comments = gather.comments
      /\ gather'.items = gather.items /\ gather'.dropped = gather.dropped
  BY <1>1, <1>3 DEF GatherOK, Gathers
<1>6. GatherOK'
  BY <1>1, <1>3, <1>4 DEF GatherOK, Gathers
<1>7. LegsOK'
  BY <1>1, <1>4, <1>5 DEF LegsOK
<1>8. QED
  BY <1>1, <1>5, <1>6, <1>7, ReadingGoesOn

LEMMA ReadHitsSteps == ASSUME ContextInv, ReadHits PROVE ContextInv'
<1> DEFINE r == gather.read \cup {"hits"}
           nearest == Only(HitOrder, (gather.allowed \cap papers.there) \ {gather.focus})
<1>1. /\ gather.stage = "reading" /\ UNCHANGED papers /\ GatherOK /\ LegsOK /\ PapersOK
      /\ gather.focus \in Papers /\ r \in SUBSET Legs
      /\ "dependencies" \in r => {"outgoing", "incoming"} \subseteq r
  BY ReadsIs DEF ReadHits, Legs
<1>2. PICK v \in {<<>>, nearest} : gather' = Has("hits", v)
  BY DEF ReadHits
<1>3. v \in Seq(Papers)
  <2>1. HitOrder \in Seq(Papers)
    BY ContextAssumption
  <2>2. nearest \in Seq(Papers)
    BY <2>1, OnlyKeeps
  <2> HIDE DEF nearest
  <2>3. <<>> \in Seq(Papers)
    OBVIOUS
  <2>4. QED
    BY <2>2, <2>3
<1>4. gather' = [gather EXCEPT !.read = r, !.hits = v]
  BY <1>2 DEF Has
<1> HIDE DEF r
<1>5. /\ gather'.stage = "reading" /\ gather'.focus = gather.focus /\ gather'.read = r
      /\ gather'.out = gather.out /\ gather'.in = gather.in /\ gather'.current = gather.current
      /\ gather'.dependencies = gather.dependencies /\ gather'.semantic = gather.semantic
      /\ gather'.comments = gather.comments
      /\ gather'.items = gather.items /\ gather'.dropped = gather.dropped
  BY <1>1, <1>4 DEF GatherOK, Gathers
<1>6. GatherOK'
  BY <1>1, <1>3, <1>4 DEF GatherOK, Gathers
<1>7. LegsOK'
  BY <1>1, <1>5 DEF LegsOK
<1>8. QED
  BY <1>1, <1>5, <1>6, <1>7, ReadingGoesOn

LEMMA PassageIsNat == Passage \in Nat
  BY ContextAssumption

LEMMA ReadHitTitlesSteps == ASSUME ContextInv, ReadHitTitles PROVE ContextInv'
<1> DEFINE r == gather.read \cup {"semantic"}
           those == Only(gather.hits, papers.there)
           v == [n \in 1..Len(those) |-> Item(those[n], 3, 0, Passage)]
<1>1. /\ gather.stage = "reading" /\ UNCHANGED papers /\ GatherOK /\ LegsOK /\ PapersOK
      /\ gather.focus \in Papers /\ r \in SUBSET Legs
      /\ "dependencies" \in r => {"outgoing", "incoming"} \subseteq r
  BY ReadsIs DEF ReadHitTitles, Legs
<1>2. gather' = [gather EXCEPT !.read = r, !.semantic = v]
  BY DEF ReadHitTitles, Has
<1>3. v \in Seq(Items) /\ Leg(v, 3)
  <2>1. gather.hits \in Seq(Papers)
    BY <1>1 DEF GatherOK, Gathers
  <2>2. those \in Seq(Papers)
    BY <2>1, OnlyKeeps
  <2> HIDE DEF those
  <2>3. Len(those) \in Nat /\ \A n \in 1..Len(those) : those[n] \in Papers
    BY <2>2
  <2>4. ASSUME NEW n \in 1..Len(those)
        PROVE  v[n] \in Items /\ v[n].tier = 3 /\ v[n].depth = 0
    <3>1. v[n] = Item(those[n], 3, 0, Passage)
      OBVIOUS
    <3>2. those[n] \in Papers /\ Passage \in Nat /\ 3 \in 1..4 /\ 0 \in Nat
      BY <2>3, PassageIsNat
    <3> HIDE DEF v
    <3>3. QED
      BY <3>1, <3>2, ItemIs
  <2>5. v \in [1..Len(those) -> Items]
    BY <2>4
  <2> HIDE DEF v
  <2>6. v \in Seq(Items) /\ Len(v) = Len(those)
    BY <2>3, <2>5
  <2>7. QED
    BY <2>4, <2>6, LegOfOneDepth
<1> HIDE DEF v, r
<1>4. /\ gather'.stage = "reading" /\ gather'.focus = gather.focus /\ gather'.read = r
      /\ gather'.out = gather.out /\ gather'.in = gather.in /\ gather'.current = gather.current
      /\ gather'.dependencies = gather.dependencies /\ gather'.semantic = v
      /\ gather'.comments = gather.comments
      /\ gather'.items = gather.items /\ gather'.dropped = gather.dropped
  BY <1>1, <1>2 DEF GatherOK, Gathers
<1>5. GatherOK'
  BY <1>1, <1>2, <1>3 DEF GatherOK, Gathers
<1>6. LegsOK'
  BY <1>1, <1>3, <1>4 DEF LegsOK
<1>7. QED
  BY <1>1, <1>4, <1>5, <1>6, ReadingGoesOn

LEMMA ReadCommentsSteps == ASSUME ContextInv, ReadComments PROVE ContextInv'
<1> DEFINE r == gather.read \cup {"comments"}
           x == Item(gather.focus, 4, 0, Passage)
           v == IF gather.focus \notin papers.there THEN <<>> ELSE [n \in 1..papers.notes |-> x]
<1>1. /\ gather.stage = "reading" /\ UNCHANGED papers /\ GatherOK /\ LegsOK /\ PapersOK
      /\ gather.focus \in Papers /\ r \in SUBSET Legs
      /\ "dependencies" \in r => {"outgoing", "incoming"} \subseteq r
  BY ReadsIs DEF ReadComments, Legs
<1>2. gather' = [gather EXCEPT !.read = r, !.comments = v]
  BY DEF ReadComments, Has
<1>3. v \in Seq(Items) /\ Leg(v, 4)
  <2>1. x \in Items /\ x.tier = 4 /\ x.depth = 0
    <3> DEFINE k == 4
               none == 0
    <3>1. gather.focus \in Papers /\ Passage \in Nat /\ k \in 1..4 /\ none \in Nat
      BY <1>1, PassageIsNat
    <3>2. x = Item(gather.focus, k, none, Passage)
      OBVIOUS
    <3> HIDE DEF k, none, x, v, r
    <3>3. x \in Items /\ x.tier = k /\ x.depth = none
      BY <3>1, <3>2, ItemIs
    <3>4. QED
      BY <3>3 DEF k, none
  <2>2. papers.notes \in Nat
    BY <1>1, ContextAssumption DEF PapersOK
  <2> HIDE DEF x
  <2>3. CASE gather.focus \notin papers.there
    BY <2>3, EmptyLeg DEF Leg
  <2>4. CASE gather.focus \in papers.there
    <3>1. v = [n \in 1..papers.notes |-> x]
      BY <2>4
    <3> HIDE DEF v
    <3>2. v \in Seq(Items) /\ Len(v) = papers.notes /\ \A n \in 1..papers.notes : v[n] = x
      BY <2>1, <2>2, <3>1
    <3>3. QED
      BY <2>1, <3>2, LegOfOneDepth
  <2>5. QED
    BY <2>3, <2>4
<1> HIDE DEF v, r
<1>4. /\ gather'.stage = "reading" /\ gather'.focus = gather.focus /\ gather'.read = r
      /\ gather'.out = gather.out /\ gather'.in = gather.in /\ gather'.current = gather.current
      /\ gather'.dependencies = gather.dependencies /\ gather'.semantic = gather.semantic
      /\ gather'.comments = v
      /\ gather'.items = gather.items /\ gather'.dropped = gather.dropped
  BY <1>1, <1>2 DEF GatherOK, Gathers
<1>5. GatherOK'
  BY <1>1, <1>2, <1>3 DEF GatherOK, Gathers
<1>6. LegsOK'
  BY <1>1, <1>3, <1>4 DEF LegsOK
<1>7. QED
  BY <1>1, <1>4, <1>5, <1>6, ReadingGoesOn

\* Legs one after the other, each of a later tier.
Legged(s, k) ==
    /\ s \in Seq(Items) /\ InOrder(s) /\ \A i \in 1..Len(s) : s[i].tier <= k

LEMMA LegsFollow ==
    ASSUME NEW s, NEW t, NEW k \in 1..3, Legged(s, k), Leg(t, k + 1)
    PROVE  Legged(s \o t, k + 1)
<1> DEFINE u == s \o t
<1>1. /\ s \in Seq(Items) /\ t \in Seq(Items) /\ InOrder(s) /\ InOrder(t)
      /\ \A i \in 1..Len(s) : s[i].tier \in Nat /\ s[i].tier <= k
      /\ \A i \in 1..Len(t) : t[i].tier = k + 1
  <2>1. /\ s \in Seq(Items) /\ t \in Seq(Items) /\ InOrder(s) /\ InOrder(t)
        /\ \A i \in 1..Len(s) : s[i].tier <= k
        /\ \A i \in 1..Len(t) : t[i].tier = k + 1
    BY DEF Leg, Legged
  <2>2. ASSUME NEW i \in 1..Len(s) PROVE s[i].tier \in Nat
    <3>1. s[i] \in Items
      BY <2>1
    <3>2. QED
      BY <3>1 DEF Items
  <2>3. QED
    BY <2>1, <2>2
<1>2. /\ u \in Seq(Items) /\ Len(u) = Len(s) + Len(t)
      /\ \A i \in 1..Len(s) : u[i] = s[i]
      /\ \A i \in 1..Len(u) : i > Len(s) =>
            i - Len(s) \in 1..Len(t) /\ u[i] = t[i - Len(s)]
      /\ Len(s) \in Nat /\ Len(t) \in Nat
  BY <1>1, OneAfterTheOther
<1> HIDE DEF u
<1>3. ASSUME NEW i \in 1..Len(u) PROVE u[i].tier <= k + 1
  <2>1. CASE i <= Len(s)
    <3>1. i \in 1..Len(s)
      BY <1>2, <2>1
    <3>2. QED
      BY <1>1, <1>2, <3>1, SMTT(30)
  <2>2. CASE i > Len(s)
    BY <1>1, <1>2, <2>2, SMTT(30)
  <2>3. QED
    BY <1>2, <2>1, <2>2
<1>4. ASSUME NEW i \in 1..Len(u), NEW j \in 1..Len(u), i <= j PROVE NoLater(u[i], u[j])
  <2>1. CASE j <= Len(s)
    <3>1. i \in 1..Len(s) /\ j \in 1..Len(s)
      BY <1>2, <1>4, <2>1
    <3>2. QED
      BY <1>1, <1>2, <1>4, <3>1 DEF InOrder
  <2>2. CASE i <= Len(s) /\ j > Len(s)
    <3>1. i \in 1..Len(s)
      BY <1>2, <2>2
    <3>2. u[i].tier \in Nat /\ u[i].tier <= k /\ u[j].tier = k + 1
      BY <1>1, <1>2, <2>2, <3>1
    <3>3. QED
      BY <3>2 DEF NoLater
  <2>3. CASE i > Len(s)
    <3>1. /\ i - Len(s) \in 1..Len(t) /\ j - Len(s) \in 1..Len(t) /\ i - Len(s) <= j - Len(s)
          /\ u[i] = t[i - Len(s)] /\ u[j] = t[j - Len(s)]
      BY <1>2, <1>4, <2>3
    <3>2. QED
      BY <1>1, <3>1 DEF InOrder
  <2>4. QED
    BY <1>2, <1>4, <2>1, <2>2, <2>3
<1>5. QED
  BY <1>2, <1>3, <1>4 DEF Legged, InOrder, u

LEMMA FirstOfTwo ==
    ASSUME NEW S, NEW s \in Seq(S), NEW t \in Seq(S), s # <<>>
    PROVE  s \o t \in Seq(S) /\ s \o t # <<>> /\ (s \o t)[1] = s[1]
<1>1. 1 \in 1..Len(s) /\ Len(s) \in Nat /\ Len(t) \in Nat
  OBVIOUS
<1>2. /\ s \o t \in Seq(S) /\ Len(s \o t) = Len(s) + Len(t)
      /\ \A i \in 1..Len(s) : (s \o t)[i] = s[i]
  BY OneAfterTheOther
<1>3. QED
  BY <1>1, <1>2

LEMMA AssembleSteps == ASSUME ContextInv, Assemble PROVE ContextInv'
<1> DEFINE two == gather.current \o gather.dependencies
           three == two \o gather.semantic
           list == three \o gather.comments
           packed == PackItems(list)
<1>1. /\ gather.stage = "reading" /\ UNCHANGED papers /\ GatherOK /\ LegsOK /\ PapersOK
      /\ gather.read = Legs
      /\ gather' = [gather EXCEPT !.stage = "packed", !.items = packed.items,
                                  !.dropped = packed.dropped]
  BY DEF Assemble, ContextInv
<1>2. Legged(list, 4)
  <2>1. Legged(gather.current, 1)
    BY <1>1 DEF LegsOK, Leg, Legged
  <2>2. Legged(two, 2)
    BY <1>1, <2>1, LegsFollow DEF LegsOK
  <2> HIDE DEF two
  <2>3. Legged(three, 3)
    BY <1>1, <2>2, LegsFollow DEF LegsOK
  <2> HIDE DEF three
  <2>4. QED
    BY <1>1, <2>3, LegsFollow DEF LegsOK
<1>3. ASSUME gather.current # <<>> PROVE list # <<>> /\ list[1] = gather.current[1]
  <2>1. gather.current \in Seq(Items) /\ gather.dependencies \in Seq(Items)
        /\ gather.semantic \in Seq(Items) /\ gather.comments \in Seq(Items)
    BY <1>1 DEF LegsOK, Leg
  <2>2. two \in Seq(Items) /\ two # <<>> /\ two[1] = gather.current[1]
    BY <1>3, <2>1, FirstOfTwo
  <2> HIDE DEF two
  <2>3. three \in Seq(Items) /\ three # <<>> /\ three[1] = two[1]
    BY <2>1, <2>2, FirstOfTwo
  <2> HIDE DEF three
  <2>4. list # <<>> /\ list[1] = three[1]
    BY <2>1, <2>3, FirstOfTwo
  <2>5. QED
    BY <2>2, <2>3, <2>4
<1> HIDE DEF list
<1>4. PackedUpto(packed, list, Len(list)) /\ list \in Seq(Items)
  BY <1>2, PackedWell DEF Legged
<1>5. packed.items \in Seq(Items) /\ packed.dropped \in Seq(Items)
  BY <1>4 DEF PackedUpto, Packs
<1> HIDE DEF packed
<1>6. /\ gather'.stage = "packed" /\ gather'.read = Legs
      /\ gather'.out = gather.out /\ gather'.in = gather.in /\ gather'.current = gather.current
      /\ gather'.dependencies = gather.dependencies /\ gather'.semantic = gather.semantic
      /\ gather'.comments = gather.comments
      /\ gather'.items = packed.items /\ gather'.dropped = packed.dropped
  BY <1>1 DEF GatherOK, Gathers
<1>7. GatherOK'
  <2> DEFINE items == packed.items
             dropped == packed.dropped
  <2>1. gather' = [gather EXCEPT !.stage = "packed", !.items = items, !.dropped = dropped]
    BY <1>1
  <2>2. items \in Seq(Items) /\ dropped \in Seq(Items)
    BY <1>5
  <2> HIDE DEF items, dropped
  <2>3. QED
    BY <1>1, <2>1, <2>2 DEF GatherOK, Gathers, GatherStages
<1>8. LegsOK' /\ PapersOK'
  BY <1>1, <1>6 DEF LegsOK, PapersOK
<1>9. ContextTypeOK'
  BY <1>6, <1>8 DEF ContextTypeOK, PapersOK, Legs
<1>10. PackedOK'
  <2>1. list # <<>> => Len(list) # 0
    BY <1>4
  <2>2. QED
    BY <1>3, <1>4, <1>6, <2>1 DEF PackedOK, PackedUpto
<1>11. QED
  BY <1>6, <1>7, <1>8, <1>9, <1>10 DEF ContextInv

\* What others do to the documents.
LEMMA PapersMove ==
    ASSUME ContextInv, NEW d, NEW b, NEW e,
           \/ (b \in Bulks /\ Lengthen(d, b))
           \/ (d \in Papers /\ RemovePaper(d))
           \/ (e \in Refers /\ Refer(e))
           \/ ResolveNote
    PROVE  ContextInv'
<1>0. /\ PapersOK /\ papers.there \subseteq Papers /\ papers.deps \subseteq Refers
      /\ papers.bulk \in [Papers -> Nat] /\ papers.notes \in 0..MaxNotes /\ MaxNotes \in Nat
      /\ \A c \in papers.deps : {c[1], c[2]} \subseteq papers.there
  BY ContextAssumption DEF ContextInv, PapersOK
<1>1. CASE b \in Bulks /\ Lengthen(d, b)
  <2> DEFINE bulk == [papers.bulk EXCEPT ![d] = b]
  <2>1. papers' = [papers EXCEPT !.bulk = bulk] /\ gather' = gather
    BY <1>1 DEF Lengthen, Rewrite
  <2>2. bulk \in [Papers -> Nat]
    <3>1. b \in Nat
      BY <1>1, ContextAssumption
    <3>2. QED
      BY <1>0, <3>1
  <2> HIDE DEF bulk
  <2>3. PapersOK'
    BY <1>0, <2>1, <2>2 DEF PapersOK
  <2>4. QED
    BY <2>1, <2>3, RewriteKeeps
<1>2. CASE d \in Papers /\ RemovePaper(d)
  <2> DEFINE deps == {c \in papers.deps : d \notin {c[1], c[2]}}
  <2>1. /\ papers' = [papers EXCEPT !.there = papers.there \ {d}, !.deps = deps]
        /\ gather' = gather
    BY <1>2 DEF RemovePaper, Rewrite
  <2>2. deps \subseteq papers.deps /\ \A c \in deps : {c[1], c[2]} \subseteq papers.there \ {d}
    BY <1>0
  <2> HIDE DEF deps
  <2>3. PapersOK'
    BY <1>0, <2>1, <2>2 DEF PapersOK
  <2>4. QED
    BY <2>1, <2>3, RewriteKeeps
<1>3. CASE e \in Refers /\ Refer(e)
  <2>1. /\ papers' = [papers EXCEPT !.deps = papers.deps \cup {e}] /\ gather' = gather
        /\ {e[1], e[2]} \subseteq papers.there
    BY <1>3 DEF Refer, Rewrite
  <2>2. PapersOK'
    BY <1>0, <1>3, <2>1 DEF PapersOK
  <2>3. QED
    BY <2>1, <2>2, RewriteKeeps
<1>4. CASE ResolveNote
  <2>1. /\ papers' = [papers EXCEPT !.notes = papers.notes - 1] /\ gather' = gather
        /\ papers.notes > 0
    BY <1>4 DEF ResolveNote, Rewrite
  <2>2. papers.notes - 1 \in 0..MaxNotes
    BY <1>0, <2>1
  <2>3. PapersOK'
    BY <1>0, <2>1, <2>2 DEF PapersOK
  <2>4. QED
    BY <2>1, <2>3, RewriteKeeps
<1>5. QED
  BY <1>1, <1>2, <1>3, <1>4

LEMMA ContextSteps == ContextInv /\ [ContextNext]_contextVars => ContextInv'
<1> SUFFICES ASSUME ContextInv, [ContextNext]_contextVars PROVE ContextInv'
  OBVIOUS
<1>1. CASE \/ ReadCurrent \/ ReadOutgoing \/ ReadIncoming \/ ReadNeighbours \/ ReadHits
           \/ ReadHitTitles \/ ReadComments \/ QueryFails \/ Assemble
  BY <1>1, ReadCurrentSteps, ReadClosuresSteps, ReadNeighboursSteps, ReadHitsSteps,
     ReadHitTitlesSteps, ReadCommentsSteps, QueryFailsSteps, AssembleSteps
<1>2. CASE ResolveNote
  BY <1>2, PapersMove
<1>3. ASSUME NEW d \in Papers,
             Gather(d) \/ RemovePaper(d) \/ \E b \in Bulks : Lengthen(d, b)
      PROVE  ContextInv'
  BY <1>3, GatherSteps, PapersMove
<1>4. ASSUME NEW e \in Refers, Refer(e) PROVE ContextInv'
  BY <1>4, PapersMove
<1>5. CASE UNCHANGED contextVars
  <2>1. gather' = gather /\ PapersOK'
    BY <1>5 DEF contextVars, ContextInv, PapersOK
  <2>2. QED
    BY <2>1, RewriteKeeps
<1>6. CASE ContextNext
  BY <1>1, <1>2, <1>3, <1>4, <1>6 DEF ContextNext
<1>7. QED
  BY <1>5, <1>6

LEMMA PacksFit == ContextInv => ContextFits
<1> SUFFICES ASSUME ContextInv, gather.stage = "packed"
             PROVE  /\ Spent(gather.items) <= Budget
                    /\ (gather.current # <<>> /\ PerItem + Clipped + Overhead <= Budget) =>
                          gather.items # <<>> /\ gather.items[1] = gather.current[1]
  BY DEF ContextFits
<1>1. PackedOK /\ gather.current \in Seq(Items)
  BY DEF ContextInv, LegsOK, Leg
<1>2. ASSUME gather.current # <<>>, PerItem + Clipped + Overhead <= Budget
      PROVE  Cost(gather.current[1]) <= Budget
  <2>1. gather.current[1] \in Items
    BY <1>1, <1>2
  <2>2. /\ Cost(gather.current[1]) \in Nat
        /\ Cost(gather.current[1]) <= PerItem + Clipped + Overhead
    BY <2>1, CostIsNat
  <2>3. PerItem + Clipped + Overhead \in Nat /\ Budget \in Nat
    BY ContextAssumption
  <2>4. QED
    BY <1>2, <2>2, <2>3
<1>3. QED
  BY <1>1, <1>2 DEF PackedOK

\* What is left out would not have fitted.
LEMMA PacksLeaveOutRightly == ContextInv => LeftOutDidNotFit
<1> SUFFICES ASSUME ContextInv, gather.stage = "packed", NEW i \in 1..Len(gather.dropped)
             PROVE  LET left == gather.dropped[i]
                        before == {j \in 1..Len(gather.items) :
                                     \/ gather.items[j].tier < left.tier
                                     \/ /\ gather.items[j].tier = left.tier
                                        /\ gather.items[j].depth <= left.depth}
                    IN Spent(SubSeq(gather.items, 1, Cardinality(before))) + Cost(left) > Budget
  BY DEF LeftOutDidNotFit
<1> DEFINE left == gather.dropped[i]
           before == {j \in 1..Len(gather.items) : NoLater(gather.items[j], left)}
           c == Cardinality(before)
           h == Len(gather.items)
<1>1. /\ gather.items \in Seq(Items) /\ gather.dropped \in Seq(Items) /\ PackedOK
      /\ h \in Nat /\ left \in Items
  BY DEF ContextInv, GatherOK, Gathers
<1>2. Cost(left) \in Nat /\ Budget \in Nat
  BY <1>1, CostIsNat, ContextAssumption
<1>3. DidNotFit(gather.items, left)
  BY <1>1 DEF PackedOK
<1> HIDE DEF left
<1>4. PICK k \in 0..h :
         /\ Spent(SubSeq(gather.items, 1, k)) + Cost(left) > Budget
         /\ \A j \in 1..h : IF j <= k THEN NoLater(gather.items[j], left)
                                      ELSE NoLater(left, gather.items[j])
  BY <1>3 DEF DidNotFit
<1>5. c \in 0..h /\ k <= c
  <2>1. IsFiniteSet(1..h) /\ Cardinality(1..h) = h
    <3> HIDE DEF h
    <3>1. QED
      BY <1>1, FS_Interval
  <2>2. 1..k \subseteq before /\ before \subseteq 1..h
    BY <1>1, <1>4
  <2>3. IsFiniteSet(1..k) /\ Cardinality(1..k) = k
    <3>1. k \in Nat
      BY <1>1, <1>4
    <3> HIDE DEF h
    <3>2. QED
      BY <3>1, FS_Interval
  <2> HIDE DEF before
  <2>4. IsFiniteSet(before) /\ c <= h
    BY <2>1, <2>2, FS_Subset
  <2>5. c \in Nat /\ k <= c
    BY <2>2, <2>3, <2>4, FS_Subset, FS_CardinalityType
  <2>6. QED
    BY <1>1, <2>4, <2>5
<1> HIDE DEF c
<1>6. /\ Spent(SubSeq(gather.items, 1, k)) <= Spent(SubSeq(gather.items, 1, c))
      /\ Spent(SubSeq(gather.items, 1, k)) \in Nat /\ Spent(SubSeq(gather.items, 1, c)) \in Nat
  BY <1>1, <1>5, SpentUpto
<1>7. Spent(SubSeq(gather.items, 1, c)) + Cost(left) > Budget
  BY <1>2, <1>4, <1>6
<1>8. QED
  BY <1>7 DEF left, c, NoLater

\* A neighbour further away takes no place of a nearer one.
LEMMA PacksNearestFirst == ContextInv => NeighboursByDistance
<1> SUFFICES ASSUME ContextInv, gather.stage = "packed",
                    NEW i \in 1..Len(gather.dropped), NEW j \in 1..Len(gather.items),
                    gather.dropped[i].tier = 2, gather.items[j].tier = 2,
                    gather.dropped[i].depth < gather.items[j].depth
             PROVE  Cost(gather.items[j]) < Cost(gather.dropped[i])
  BY DEF NeighboursByDistance
<1> DEFINE near == gather.dropped[i]
           far == gather.items[j]
           h == Len(gather.items)
<1>1. /\ gather.items \in Seq(Items) /\ gather.dropped \in Seq(Items) /\ PackedOK
      /\ h \in Nat /\ near \in Items /\ far \in Items
  BY DEF ContextInv, GatherOK, Gathers
<1>2. Cost(near) \in Nat /\ Cost(far) \in Nat /\ Budget \in Nat
  BY <1>1, CostIsNat, ContextAssumption
<1>3. DidNotFit(gather.items, near)
  BY <1>1 DEF PackedOK
<1>4. ~ NoLater(far, near)
  <2>1. /\ near.tier = 2 /\ far.tier = 2 /\ near.depth < far.depth
    OBVIOUS
  <2> HIDE DEF near, far
  <2>2. near.depth \in Nat /\ far.depth \in Nat
    BY <1>1 DEF Items
  <2>3. QED
    BY <2>1, <2>2 DEF NoLater
<1> HIDE DEF near
<1>5. PICK k \in 0..h :
         /\ Spent(SubSeq(gather.items, 1, k)) + Cost(near) > Budget
         /\ \A n \in 1..h : IF n <= k THEN NoLater(gather.items[n], near)
                                      ELSE NoLater(near, gather.items[n])
  BY <1>3 DEF DidNotFit
<1>6. k <= j - 1 /\ j - 1 \in 0..h /\ j \in 0..h /\ h \in 0..h /\ j <= h
  BY <1>1, <1>4, <1>5
<1>7. /\ Spent(SubSeq(gather.items, 1, k)) <= Spent(SubSeq(gather.items, 1, j - 1))
      /\ Spent(SubSeq(gather.items, 1, j)) = Spent(SubSeq(gather.items, 1, j - 1)) + Cost(far)
      /\ Spent(SubSeq(gather.items, 1, j)) <= Spent(SubSeq(gather.items, 1, h))
      /\ Spent(gather.items) = Spent(SubSeq(gather.items, 1, h))
      /\ Spent(SubSeq(gather.items, 1, k)) \in Nat /\ Spent(SubSeq(gather.items, 1, j)) \in Nat
      /\ Spent(SubSeq(gather.items, 1, j - 1)) \in Nat
      /\ Spent(SubSeq(gather.items, 1, h)) \in Nat
  BY <1>1, <1>6, SpentUpto
<1>8. Spent(gather.items) <= Budget
  BY <1>1 DEF PackedOK
<1> HIDE DEF far, h
<1>9. Cost(far) < Cost(near)
  BY <1>2, <1>5, <1>7, <1>8
<1>10. QED
  BY <1>9 DEF near, far

\* A context fits its budget, leaves out only what did not fit, and has no neighbour in
\* the place of a nearer one (context/assemble.ts, retrieve.ts): the legs follow in their
\* tiers, neighbours by distance, so that the list that is packed is in order, and whatever
\* is taken after something was left out is no earlier than that.
THEOREM ContextIsWhole ==
    ContextSpec => [](ContextTypeOK /\ ContextFits /\ LeftOutDidNotFit /\ NeighboursByDistance)
<1>1. ContextInv => ContextTypeOK
  BY DEF ContextInv
<1>2. QED
  BY <1>1, ContextStarts, ContextSteps, PacksFit, PacksLeaveOutRightly, PacksNearestFirst, PTL
     DEF ContextSpec

-----------------------------------------------------------------------------
\* Each number up to that of some places is the rank of one.
LEMMA RankIsTaken ==
    ASSUME NEW h \in Nat, NEW P \in SUBSET (1..h)
    PROVE  \A n \in 1..Cardinality(P) : \E i \in P : Cardinality({j \in P : j <= i}) = n
<1> DEFINE c == Cardinality(P)
           rank(i) == Cardinality({j \in P : j <= i})
           f == [i \in P |-> rank(i)]
<1>2. /\ IsFiniteSet(P) /\ c \in Nat
      /\ \A i \in P : rank(i) \in 1..c
      /\ \A i, j \in P : i < j => rank(i) < rank(j)
  BY PlacesCount
<1> HIDE DEF c, rank
<1>3. \A i \in P : i \in Nat
  OBVIOUS
<1>4. \A i, j \in P : rank(i) = rank(j) => i = j
  BY <1>2, <1>3
<1>5. f \in Injection(P, 1..c)
  BY <1>2, <1>4 DEF Injection, IsInjective
<1>6. f \in Surjection(P, 1..c)
  <2>1. IsFiniteSet(1..c) /\ Cardinality(1..c) = c
    BY <1>2, FS_Interval
  <2> HIDE DEF f
  <2>2. QED
    BY <1>5, <2>1, FS_Injection DEF c
<1>7. \A n \in 1..c : \E i \in P : rank(i) = n
  BY <1>6 DEF Surjection
<1>8. QED
  BY <1>7 DEF c, rank

-----------------------------------------------------------------------------
(***************************************************************************)
(* VersionDiff.                                                            *)
(***************************************************************************)

\* A hunk, and where it stands: what was removed before what is at its place now.
HunksOf(a, b) == {Removed(a, i) : i \in 1..Len(a)} \cup {HunkOf(a, b, j) : j \in 1..Len(b)}
Slot(x) == IF x.op = "removed" THEN 2 * x.from ELSE 2 * x.to + 1

Rising(s) == \A m, n \in 1..Len(s) : m < n => Slot(s[m]) < Slot(s[n])

LEMMA RemovedStands ==
    ASSUME NEW a, NEW i \in Nat
    PROVE  /\ Removed(a, i).op = "removed" /\ Removed(a, i).from = i
           /\ Slot(Removed(a, i)) = 2 * i
  BY DEF Removed, Slot

LEMMA KeptStands ==
    ASSUME NEW a, NEW b, NEW j \in Nat
    PROVE  /\ HunkOf(a, b, j).op # "removed" /\ HunkOf(a, b, j).to = j
           /\ HunkOf(a, b, j).from = PlaceIn(a, BlockKey(b, j))
           /\ Slot(HunkOf(a, b, j)) = 2 * j + 1
<1>1. HunkOf(a, b, j).op # "removed" /\ HunkOf(a, b, j).to = j
      /\ HunkOf(a, b, j).from = PlaceIn(a, BlockKey(b, j))
  BY DEF HunkOf
<1>2. QED
  BY <1>1 DEF Slot

LEMMA SlotIsNat ==
    ASSUME NEW a, NEW b, Len(a) \in Nat, Len(b) \in Nat, NEW x \in HunksOf(a, b)
    PROVE  Slot(x) \in Nat
<1>1. CASE x \in {Removed(a, i) : i \in 1..Len(a)}
  BY <1>1, RemovedStands
<1>2. CASE x \in {HunkOf(a, b, j) : j \in 1..Len(b)}
  BY <1>2, KeptStands
<1>3. QED
  BY <1>1, <1>2 DEF HunksOf

\* One list after the other, the second one of what stands further down.
LEMMA RisesOn ==
    ASSUME NEW a, NEW b, Len(a) \in Nat, Len(b) \in Nat,
           NEW s \in Seq(HunksOf(a, b)), NEW t \in Seq(HunksOf(a, b)), Rising(s), Rising(t),
           NEW k \in Nat, \A x \in Elems(s) : Slot(x) < k, \A x \in Elems(t) : k <= Slot(x)
    PROVE  /\ s \o t \in Seq(HunksOf(a, b)) /\ Rising(s \o t)
           /\ Elems(s \o t) = Elems(s) \cup Elems(t)
<1> DEFINE u == s \o t
<1>1. /\ u \in Seq(HunksOf(a, b)) /\ Len(u) = Len(s) + Len(t)
      /\ \A i \in 1..Len(s) : u[i] = s[i]
      /\ \A i \in 1..Len(u) : i > Len(s) => i - Len(s) \in 1..Len(t) /\ u[i] = t[i - Len(s)]
      /\ Elems(u) = Elems(s) \cup Elems(t) /\ Len(s) \in Nat /\ Len(t) \in Nat
  BY OneAfterTheOther
<1>2. /\ \A i \in 1..Len(s) : Slot(s[i]) \in Nat /\ Slot(s[i]) < k
      /\ \A i \in 1..Len(t) : Slot(t[i]) \in Nat /\ k <= Slot(t[i])
  <2>1. /\ \A i \in 1..Len(s) : s[i] \in HunksOf(a, b) /\ s[i] \in Elems(s)
        /\ \A i \in 1..Len(t) : t[i] \in HunksOf(a, b) /\ t[i] \in Elems(t)
    BY DEF Elems
  <2>2. QED
    BY <2>1, SlotIsNat
<1> HIDE DEF u
<1>3. ASSUME NEW m \in 1..Len(u), NEW n \in 1..Len(u), m < n PROVE Slot(u[m]) < Slot(u[n])
  <2>1. CASE n <= Len(s)
    <3>1. m \in 1..Len(s) /\ n \in 1..Len(s)
      BY <1>1, <1>3, <2>1
    <3>2. u[m] = s[m] /\ u[n] = s[n]
      BY <1>1, <3>1
    <3>3. QED
      BY <1>3, <3>1, <3>2 DEF Rising
  <2>2. CASE m <= Len(s) /\ n > Len(s)
    <3>1. m \in 1..Len(s) /\ n - Len(s) \in 1..Len(t) /\ u[m] = s[m] /\ u[n] = t[n - Len(s)]
      BY <1>1, <1>3, <2>2
    <3>2. /\ Slot(s[m]) \in Nat /\ Slot(s[m]) < k
          /\ Slot(t[n - Len(s)]) \in Nat /\ k <= Slot(t[n - Len(s)])
      BY <1>2, <3>1
    <3>3. QED
      BY <3>1, <3>2
  <2>3. CASE m > Len(s)
    <3>1. n > Len(s)
      BY <1>1, <1>3, <2>3
    <3>2. m - Len(s) \in 1..Len(t) /\ n - Len(s) \in 1..Len(t) /\ m - Len(s) < n - Len(s)
      BY <1>1, <1>3, <2>3, <3>1
    <3>3. u[m] = t[m - Len(s)] /\ u[n] = t[n - Len(s)]
      BY <1>1, <2>3, <3>1
    <3>4. QED
      BY <3>2, <3>3 DEF Rising
  <2>4. QED
    BY <1>1, <1>3, <2>1, <2>2, <2>3
<1>4. Rising(u)
  BY <1>3 DEF Rising
<1>5. QED
  BY <1>1, <1>4 DEF u

\* The removed blocks at some places, in their order.
LEMMA RemovedRise ==
    ASSUME NEW a, Len(a) \in Nat, NEW b, NEW places \in SUBSET (1..Len(a))
    PROVE  /\ RemovedAt(a, places) \in Seq(HunksOf(a, b)) /\ Rising(RemovedAt(a, places))
           /\ Elems(RemovedAt(a, places)) = {Removed(a, i) : i \in places}
<1> DEFINE all == [i \in 1..Len(a) |-> Removed(a, i)]
           s == RemovedAt(a, places)
<1>1. all \in Seq(HunksOf(a, b)) /\ Len(all) = Len(a)
  BY DEF HunksOf
<1>2. \A i \in 1..Len(a) : all[i] = Removed(a, i)
  OBVIOUS
<1> HIDE DEF all
<1>3. s = Picked(all, places)
  <2> DEFINE rank(i) == Cardinality({j \in places : j <= i})
             at(n) == CHOOSE i \in places : rank(i) = n
  <2>1. PICK f \in [1..Cardinality(places) -> places] : PickedAt(all, places, f)
    BY <1>1, PickedIsInOrder
  <2>2. /\ s = [n \in 1..Cardinality(places) |-> Removed(a, at(n))]
        /\ Picked(all, places) = [n \in 1..Cardinality(places) |-> all[at(n)]]
    BY DEF RemovedAt, Picked
  <2>3. \A n \in 1..Cardinality(places) : \E i \in places : rank(i) = n
    BY <1>1, RankIsTaken
  <2>4. \A n \in 1..Cardinality(places) : at(n) \in places
    BY <2>3
  <2> HIDE DEF at
  <2>5. \A n \in 1..Cardinality(places) : all[at(n)] = Removed(a, at(n))
    BY <1>2, <2>4
  <2>6. QED
    BY <2>2, <2>5
<1>4. PICK at \in [1..Cardinality(places) -> places] : PickedAt(all, places, at)
  BY <1>1, PickedIsInOrder
<1>5. s \in Seq(HunksOf(a, b)) /\ Len(s) = Cardinality(places)
  BY <1>1, <1>3, PickedIsInOrder
<1>6. /\ \A n \in 1..Len(s) : s[n] = all[at[n]] /\ at[n] \in places
      /\ \A m, n \in 1..Len(s) : m < n => at[m] < at[n]
      /\ \A i \in places : i \in {at[n] : n \in 1..Len(s)}
  BY <1>3, <1>4, <1>5 DEF PickedAt
<1> HIDE DEF s
<1>7. \A n \in 1..Len(s) : s[n] = Removed(a, at[n]) /\ at[n] \in Nat /\ Slot(s[n]) = 2 * at[n]
  <2>1. ASSUME NEW n \in 1..Len(s)
        PROVE  s[n] = Removed(a, at[n]) /\ at[n] \in Nat /\ Slot(s[n]) = 2 * at[n]
    <3>1. s[n] = all[at[n]] /\ at[n] \in places
      BY <1>6
    <3>2. at[n] \in 1..Len(a)
      BY <3>1
    <3>3. s[n] = Removed(a, at[n]) /\ at[n] \in Nat
      BY <1>2, <3>1, <3>2
    <3>4. QED
      BY <3>3, RemovedStands
  <2>2. QED
    BY <2>1
<1>8. Rising(s)
  <2>1. ASSUME NEW m \in 1..Len(s), NEW n \in 1..Len(s), m < n PROVE Slot(s[m]) < Slot(s[n])
    <3>1. at[m] < at[n] /\ at[m] \in Nat /\ at[n] \in Nat
      BY <1>6, <1>7, <2>1
    <3>2. Slot(s[m]) = 2 * at[m] /\ Slot(s[n]) = 2 * at[n]
      BY <1>7
    <3>3. QED
      BY <3>1, <3>2
  <2>2. QED
    BY <2>1 DEF Rising
<1>9. Elems(s) = {Removed(a, i) : i \in places}
  <2>1. \A n \in 1..Len(s) : s[n] \in {Removed(a, i) : i \in places}
    BY <1>6, <1>7
  <2>2. ASSUME NEW i \in places PROVE Removed(a, i) \in Elems(s)
    <3>1. PICK n \in 1..Len(s) : at[n] = i
      BY <1>6
    <3>2. s[n] = Removed(a, i)
      BY <1>7, <3>1
    <3>3. QED
      BY <3>2 DEF Elems
  <2>3. QED
    BY <2>1, <2>2 DEF Elems
<1>10. QED
  BY <1>5, <1>8, <1>9 DEF s

\* What the hunks are up to a block of the later version.
HunksAre(s, a, b, j) ==
    /\ s \in Seq(HunksOf(a, b)) /\ Rising(s)
    /\ Elems(s) = {Removed(a, i) : i \in {g \in Gone(a, b) : g <= j}} \cup {HunkOf(a, b, k) : k \in 1..j}

LEMMA NoHunks == ASSUME NEW a, NEW b PROVE HunksAre(<<>>, a, b, 0)
<1>1. Elems(<<>>) = {} /\ 1..0 = {}
  BY DEF Elems
<1>2. {g \in Gone(a, b) : g <= 0} = {}
  BY DEF Gone
<1>3. QED
  BY <1>1, <1>2 DEF HunksAre, Rising

LEMMA HunksGoOn ==
    ASSUME NEW a, NEW b, Len(a) \in Nat, Len(b) \in Nat, NEW j \in 1..Len(b), NEW s,
           HunksAre(s, a, b, j - 1)
    PROVE  HunksAre(s \o RemovedBefore(a, b, j) \o <<HunkOf(a, b, j)>>, a, b, j)
<1> DEFINE t == RemovedBefore(a, b, j)
           x == HunkOf(a, b, j)
           P == {i \in Gone(a, b) : i = j}
<1>1. j \in Nat /\ j - 1 \in Nat /\ Gone(a, b) \in SUBSET (1..Len(a))
  BY DEF Gone
<1>2. t \in Seq(HunksOf(a, b)) /\ Rising(t) /\ Elems(t) = {Removed(a, i) : i \in P}
  <2>1. P \in SUBSET (1..Len(a)) /\ t = RemovedAt(a, P)
    BY <1>1 DEF RemovedBefore
  <2> HIDE DEF P, t
  <2>2. QED
    BY <2>1, RemovedRise
<1>3. <<x>> \in Seq(HunksOf(a, b)) /\ Rising(<<x>>) /\ Elems(<<x>>) = {x}
  <2>1. x \in HunksOf(a, b)
    BY DEF HunksOf
  <2> HIDE DEF x
  <2>2. QED
    BY <2>1 DEF Rising, Elems
<1>4. Slot(x) = 2 * j + 1
  BY <1>1, KeptStands
<1> HIDE DEF t, x
<1>5. ASSUME NEW y \in Elems(s) PROVE Slot(y) < 2 * j
  <2>1. CASE y \in {Removed(a, i) : i \in {g \in Gone(a, b) : g <= j - 1}}
    <3>1. PICK i \in Gone(a, b) : i <= j - 1 /\ y = Removed(a, i)
      BY <2>1
    <3>2. i \in Nat /\ Slot(y) = 2 * i
      BY <1>1, <3>1, RemovedStands
    <3>3. QED
      BY <1>1, <3>1, <3>2
  <2>2. CASE y \in {HunkOf(a, b, k) : k \in 1..(j - 1)}
    <3>1. PICK k \in 1..(j - 1) : y = HunkOf(a, b, k)
      BY <2>2
    <3>2. k \in Nat /\ Slot(y) = 2 * k + 1
      BY <1>1, <3>1, KeptStands
    <3>3. QED
      BY <1>1, <3>1, <3>2
  <2>3. QED
    BY <2>1, <2>2 DEF HunksAre
<1>6. \A y \in Elems(t) : Slot(y) = 2 * j
  <2>1. ASSUME NEW y \in Elems(t) PROVE Slot(y) = 2 * j
    <3>1. y = Removed(a, j)
      BY <1>2
    <3>2. QED
      BY <1>1, <3>1, RemovedStands
  <2>2. QED
    BY <2>1
<1>7. /\ s \o t \in Seq(HunksOf(a, b)) /\ Rising(s \o t)
      /\ Elems(s \o t) = Elems(s) \cup Elems(t)
  <2> DEFINE k == 2 * j
  <2>1. k \in Nat /\ (\A y \in Elems(s) : Slot(y) < k) /\ \A y \in Elems(t) : k <= Slot(y)
    BY <1>1, <1>5, <1>6
  <2>2. s \in Seq(HunksOf(a, b)) /\ Rising(s)
    BY DEF HunksAre
  <2> HIDE DEF k
  <2>3. QED
    BY <1>2, <2>1, <2>2, RisesOn
<1>8. /\ (s \o t) \o <<x>> \in Seq(HunksOf(a, b)) /\ Rising((s \o t) \o <<x>>)
      /\ Elems((s \o t) \o <<x>>) = Elems(s \o t) \cup {x}
  <2> DEFINE k == 2 * j + 1
  <2>1. \A y \in Elems(s) \cup Elems(t) : Slot(y) < k
    <3>1. ASSUME NEW y \in Elems(s) PROVE Slot(y) < k
      <4>1. Slot(y) < 2 * j /\ Slot(y) \in Nat
        BY <1>5, SlotIsNat DEF HunksAre, Elems
      <4>2. QED
        BY <1>1, <4>1
    <3>2. ASSUME NEW y \in Elems(t) PROVE Slot(y) < k
      BY <1>1, <1>6, <3>2
    <3>3. QED
      BY <3>1, <3>2
  <2>2. k \in Nat /\ (\A y \in Elems(s \o t) : Slot(y) < k) /\ \A y \in Elems(<<x>>) : k <= Slot(y)
    BY <1>1, <1>3, <1>4, <1>7, <2>1
  <2> HIDE DEF k
  <2> DEFINE u == s \o t
             v == <<x>>
  <2>3. u \in Seq(HunksOf(a, b)) /\ Rising(u) /\ v \in Seq(HunksOf(a, b)) /\ Rising(v)
        /\ (\A y \in Elems(u) : Slot(y) < k) /\ \A y \in Elems(v) : k <= Slot(y)
    BY <1>3, <1>7, <2>2
  <2> HIDE DEF u, v
  <2>4. u \o v \in Seq(HunksOf(a, b)) /\ Rising(u \o v) /\ Elems(u \o v) = Elems(u) \cup Elems(v)
    BY <2>2, <2>3, RisesOn
  <2>5. QED
    BY <1>3, <2>4 DEF u, v
<1>9. Elems((s \o t) \o <<x>>) =
         {Removed(a, i) : i \in {g \in Gone(a, b) : g <= j}} \cup {HunkOf(a, b, k) : k \in 1..j}
  <2>1. {g \in Gone(a, b) : g <= j} = {g \in Gone(a, b) : g <= j - 1} \cup P
    BY <1>1
  <2>2. 1..j = 1..(j - 1) \cup {j}
    BY <1>1
  <2>3. {HunkOf(a, b, k) : k \in 1..j} = {HunkOf(a, b, k) : k \in 1..(j - 1)} \cup {x}
    BY <2>2 DEF x
  <2>4. QED
    BY <1>2, <1>7, <1>8, <2>1, <2>3 DEF HunksAre
<1>10. QED
  BY <1>8, <1>9 DEF HunksAre, t, x

\* The recursion of Hunks.
IsAlong(f, a, b) ==
    f = [j \in 0..Len(b) |->
           IF j = 0 THEN <<>> ELSE f[j - 1] \o RemovedBefore(a, b, j) \o <<HunkOf(a, b, j)>>]

LEMMA AlongExists ==
    ASSUME NEW a, NEW b, Len(a) \in Nat, Len(b) \in Nat
    PROVE  \E f : IsAlong(f, a, b)
<1> DEFINE h == Len(b)
           S == Seq(HunksOf(a, b))
           more(j) == RemovedBefore(a, b, j)
           one(j) == <<HunkOf(a, b, j)>>
           g == [p \in (1..h) \X S |-> p[2] \o more(p[1]) \o one(p[1])]
           none == <<>>
<1>1. h \in Nat /\ none \in S
  OBVIOUS
<1>2. \A j \in 1..h : more(j) \in S /\ one(j) \in S
  <2>1. ASSUME NEW j \in 1..h PROVE more(j) \in S /\ one(j) \in S
    <3> DEFINE P == {i \in Gone(a, b) : i = j}
    <3>1. P \in SUBSET (1..Len(a)) /\ more(j) = RemovedAt(a, P)
      BY DEF Gone, RemovedBefore
    <3>2. HunkOf(a, b, j) \in HunksOf(a, b)
      BY DEF HunksOf
    <3>3. one(j) \in S
      BY <3>2
    <3> HIDE DEF P, more, one
    <3>4. QED
      BY <3>1, <3>3, RemovedRise
  <2>2. QED
    BY <2>1
<1> HIDE DEF more, one, h, none
<1>3. g \in StepsOn(S, h) /\ \A j \in 1..h, s \in S : g[<<j, s>>] = s \o more(j) \o one(j)
  <2>1. \A p \in (1..h) \X S : p[2] \o more(p[1]) \o one(p[1]) \in S
    BY <1>2
  <2>2. QED
    BY <2>1 DEF StepsOn
<1> HIDE DEF g, S
<1>4. PICK f : IsCourse(f, g, S, none, h)
  BY <1>1, <1>3, CourseExists
<1>5. \A j \in 0..h : f[j] \in S
  BY <1>4 DEF IsCourse
<1>6. \A j \in 0..h : f[j] = IF j = 0 THEN <<>> ELSE f[j - 1] \o more(j) \o one(j)
  <2>1. ASSUME NEW j \in 0..h PROVE f[j] = IF j = 0 THEN <<>> ELSE f[j - 1] \o more(j) \o one(j)
    <3>1. CASE j = 0
      BY <1>4, <3>1 DEF IsCourse, none
    <3>2. CASE j # 0
      <4>1. j \in 1..h /\ j - 1 \in 0..h
        BY <1>1, <3>2
      <4>2. f[j] = g[<<j, f[j - 1]>>] /\ f[j - 1] \in S
        BY <1>4, <1>5, <4>1 DEF IsCourse
      <4>3. QED
        BY <1>3, <3>2, <4>1, <4>2
    <3>3. QED
      BY <3>1, <3>2
  <2>2. QED
    BY <2>1
<1>7. f = [j \in 0..h |-> f[j]]
  BY <1>4 DEF IsCourse
<1>8. f = [j \in 0..h |-> IF j = 0 THEN <<>> ELSE f[j - 1] \o more(j) \o one(j)]
  BY <1>6, <1>7
<1>9. QED
  BY <1>8 DEF IsAlong, h, more, one

\* The hunks: every block that has gone, and every block of the later version, in order.
LEMMA HunksShowAll ==
    ASSUME NEW a, NEW b, Len(a) \in Nat, Len(b) \in Nat
    PROVE  /\ Hunks(a, b) \in Seq(HunksOf(a, b)) /\ Rising(Hunks(a, b))
           /\ Elems(Hunks(a, b)) = {Removed(a, i) : i \in Gone(a, b)}
                                      \cup {HunkOf(a, b, j) : j \in 1..Len(b)}
<1> DEFINE h == Len(b)
           f == CHOOSE v : IsAlong(v, a, b)
           P == {i \in Gone(a, b) : i > Len(b)}
<1>1. Hunks(a, b) = f[h] \o RemovedAt(a, P)
  BY DEF Hunks, IsAlong
<1>2. IsAlong(f, a, b)
  BY AlongExists
<1> HIDE DEF f
<1>3. \A j \in 0..h : f[j] = IF j = 0 THEN <<>>
                             ELSE f[j - 1] \o RemovedBefore(a, b, j) \o <<HunkOf(a, b, j)>>
  BY <1>2 DEF IsAlong
<1>0. f[0] = <<>>
  <2>1. 0 \in 0..h
    OBVIOUS
  <2> DEFINE next(j) == f[j - 1] \o RemovedBefore(a, b, j) \o <<HunkOf(a, b, j)>>
             early == 0..h
  <2>2. \A j \in early : f[j] = IF j = 0 THEN <<>> ELSE next(j)
    BY <1>3
  <2> HIDE DEF next, early
  <2>3. 0 \in early
    BY <2>1 DEF early
  <2>4. QED
    BY <2>2, <2>3
<1>4. \A j \in 0..h : HunksAre(f[j], a, b, j)
  <2> DEFINE T == {j \in Nat : j <= h /\ ~ HunksAre(f[j], a, b, j)}
  <2>1. T = {}
    <3> SUFFICES ASSUME T # {} PROVE FALSE
      OBVIOUS
    <3>1. PICK j \in T : \A k \in T : j <= k
      BY LeastExists
    <3>2. j \in Nat /\ j <= h /\ ~ HunksAre(f[j], a, b, j) /\ j \in 0..h
      BY <3>1
    <3>3. j # 0
      BY <1>0, <3>2, NoHunks
    <3>4. j \in 1..Len(b) /\ j - 1 \in Nat /\ j - 1 <= h /\ ~ (j <= j - 1)
      BY <3>2, <3>3
    <3>5. HunksAre(f[j - 1], a, b, j - 1)
      BY <3>1, <3>4
    <3>6. f[j] = f[j - 1] \o RemovedBefore(a, b, j) \o <<HunkOf(a, b, j)>>
      BY <1>3, <3>2, <3>3
    <3> DEFINE was == f[j - 1]
    <3> HIDE DEF was, T
    <3>7. HunksAre(was \o RemovedBefore(a, b, j) \o <<HunkOf(a, b, j)>>, a, b, j)
      BY <3>4, <3>5, HunksGoOn DEF was
    <3>8. QED
      BY <3>2, <3>6, <3>7 DEF was
  <2>2. QED
    BY <2>1
<1>5. HunksAre(f[h], a, b, h) /\ h \in Nat
  BY <1>4
<1> DEFINE s == f[h]
           t == RemovedAt(a, P)
<1>6. P \in SUBSET (1..Len(a)) /\ Gone(a, b) \in SUBSET (1..Len(a))
  BY DEF Gone
<1>7. t \in Seq(HunksOf(a, b)) /\ Rising(t) /\ Elems(t) = {Removed(a, i) : i \in P}
  <2> HIDE DEF P
  <2>1. QED
    BY <1>6, RemovedRise
<1> HIDE DEF s, t, h
<1>8. ASSUME NEW y \in Elems(s) PROVE Slot(y) < 2 * h + 2
  <2>1. CASE y \in {Removed(a, i) : i \in {g \in Gone(a, b) : g <= h}}
    <3>1. PICK i \in Gone(a, b) : i <= h /\ y = Removed(a, i)
      BY <2>1
    <3>2. i \in Nat /\ Slot(y) = 2 * i
      BY <1>6, <3>1, RemovedStands
    <3>3. QED
      BY <1>5, <3>1, <3>2
  <2>2. CASE y \in {HunkOf(a, b, k) : k \in 1..h}
    <3>1. PICK k \in 1..h : y = HunkOf(a, b, k)
      BY <2>2
    <3>2. k \in Nat /\ k <= h /\ Slot(y) = 2 * k + 1
      BY <1>5, <3>1, KeptStands
    <3>3. QED
      BY <1>5, <3>2
  <2>3. QED
    BY <1>5, <2>1, <2>2 DEF HunksAre, s
<1>9. ASSUME NEW y \in Elems(t) PROVE 2 * h + 2 <= Slot(y)
  <2>1. PICK i \in P : y = Removed(a, i)
    BY <1>7
  <2>2. i \in Nat /\ i > h
    BY <1>6, <2>1 DEF h
  <2>3. Slot(y) = 2 * i
    BY <2>1, <2>2, RemovedStands
  <2>4. QED
    BY <1>5, <2>2, <2>3
<1>10. /\ s \o t \in Seq(HunksOf(a, b)) /\ Rising(s \o t)
       /\ Elems(s \o t) = Elems(s) \cup Elems(t)
  <2> DEFINE k == 2 * h + 2
  <2>1. k \in Nat /\ (\A y \in Elems(s) : Slot(y) < k) /\ \A y \in Elems(t) : k <= Slot(y)
    BY <1>5, <1>8, <1>9
  <2>2. s \in Seq(HunksOf(a, b)) /\ Rising(s)
    BY <1>5 DEF HunksAre, s
  <2> HIDE DEF k
  <2>3. QED
    BY <1>7, <2>1, <2>2, RisesOn
<1>11. Gone(a, b) = {g \in Gone(a, b) : g <= h} \cup P
  BY <1>5, <1>6 DEF h
<1>12. Elems(s) \cup Elems(t) =
          {Removed(a, i) : i \in Gone(a, b)} \cup {HunkOf(a, b, j) : j \in 1..h}
  <2> HIDE DEF P
  <2>1. QED
    BY <1>5, <1>7, <1>11 DEF HunksAre, s
<1>13. QED
  BY <1>1, <1>10, <1>12 DEF s, t, h

\* What a version is.
LEMMA VersionHas ==
    ASSUME NEW s \in BlockLists
    PROVE  /\ Len(s) \in Nat /\ Version(s) /\ DOMAIN s = 1..Len(s)
           /\ \A i \in 1..Len(s) : s[i] \in BlockOf
<1>1. PICK n \in 0..MaxOfVersion : s \in [1..n -> BlockOf]
  BY DEF BlockLists
<1>2. n \in Nat
  BY DiffAssumption
<1>3. s \in Seq(BlockOf) /\ Len(s) = n
  BY <1>1, <1>2
<1>4. Version(s)
  BY DEF BlockLists
<1>5. QED
  BY <1>1, <1>2, <1>3, <1>4

\* A key tells the blocks of a version apart.
LEMMA KeysTell ==
    ASSUME NEW s \in BlockLists, NEW i \in 1..Len(s), NEW j \in 1..Len(s),
           BlockKey(s, i) = BlockKey(s, j)
    PROVE  i = j
<1>1. Len(s) \in Nat /\ Version(s) /\ i \in Nat /\ j \in Nat /\ i # 0 /\ j # 0
  BY VersionHas
<1>2. CASE s[i].id = NoId
  <2>1. BlockKey(s, i) = <<NoId, i>>
    BY <1>2 DEF BlockKey
  <2>2. BlockKey(s, j) = <<NoId, j>> \/ BlockKey(s, j) = <<s[j].id, 0>>
    BY DEF BlockKey
  <2>3. QED
    BY <1>1, <2>1, <2>2
<1>3. CASE s[i].id # NoId
  <2>1. BlockKey(s, i) = <<s[i].id, 0>>
    BY <1>3 DEF BlockKey
  <2>2. BlockKey(s, j) = <<NoId, j>> \/ BlockKey(s, j) = <<s[j].id, 0>>
    BY DEF BlockKey
  <2>3. s[j].id = s[i].id
    BY <1>1, <2>1, <2>2
  <2>4. QED
    BY <1>1, <1>3, <2>3 DEF Version
<1>4. QED
  BY <1>2, <1>3

\* The place of a key.
LEMMA PlaceHas ==
    ASSUME NEW s \in BlockLists, NEW key
    PROVE  /\ PlaceIn(s, key) \in 0..Len(s)
           /\ PlaceIn(s, key) # 0 => /\ PlaceIn(s, key) \in 1..Len(s)
                                     /\ BlockKey(s, PlaceIn(s, key)) = key
           /\ PlaceIn(s, key) = 0 => \A i \in 1..Len(s) : BlockKey(s, i) # key
<1>1. Len(s) \in Nat
  BY VersionHas
<1>2. CASE \E i \in 1..Len(s) : BlockKey(s, i) = key
  <2>1. PlaceIn(s, key) \in 1..Len(s) /\ BlockKey(s, PlaceIn(s, key)) = key
    BY <1>2 DEF PlaceIn
  <2>2. QED
    BY <1>1, <2>1
<1>3. CASE ~ \E i \in 1..Len(s) : BlockKey(s, i) = key
  <2>1. PlaceIn(s, key) = 0
    BY <1>3 DEF PlaceIn
  <2>2. QED
    BY <1>1, <1>3, <2>1
<1>4. QED
  BY <1>2, <1>3

LEMMA PlaceIs ==
    ASSUME NEW s \in BlockLists, NEW i \in 1..Len(s)
    PROVE  PlaceIn(s, BlockKey(s, i)) = i
<1> DEFINE p == PlaceIn(s, BlockKey(s, i))
<1>1. p # 0
  BY PlaceHas
<1>2. p \in 1..Len(s) /\ BlockKey(s, p) = BlockKey(s, i)
  BY <1>1, PlaceHas
<1> HIDE DEF p
<1>3. p = i
  BY <1>2, KeysTell
<1>4. QED
  BY <1>3 DEF p

-----------------------------------------------------------------------------
\* The hunks of two versions: what they are of, and in which order.
HunksTell(H, a, b) ==
    /\ H \in Seq(HunksOf(a, b)) /\ Len(H) \in Nat
    /\ \A m, n \in 1..Len(H) : m < n => Slot(H[m]) < Slot(H[n])
    /\ \A m, n \in 1..Len(H) : Slot(H[m]) = Slot(H[n]) => m = n
    /\ \A n \in 1..Len(H) : Slot(H[n]) \in Nat
    /\ \A n \in 1..Len(H) : \/ \E i \in Gone(a, b) : H[n] = Removed(a, i)
                            \/ \E j \in 1..Len(b) : H[n] = HunkOf(a, b, j)
    /\ \A i \in Gone(a, b) : \E n \in 1..Len(H) : H[n] = Removed(a, i)
    /\ \A j \in 1..Len(b) : \E n \in 1..Len(H) : H[n] = HunkOf(a, b, j)

LEMMA HunksOfTwo ==
    ASSUME NEW a \in BlockLists, NEW b \in BlockLists
    PROVE  HunksTell(Hunks(a, b), a, b)
<1> DEFINE H == Hunks(a, b)
<1>1. Len(a) \in Nat /\ Len(b) \in Nat
  BY VersionHas
<1>2. /\ H \in Seq(HunksOf(a, b)) /\ Rising(H)
      /\ Elems(H) = {Removed(a, i) : i \in Gone(a, b)} \cup {HunkOf(a, b, j) : j \in 1..Len(b)}
  BY <1>1, HunksShowAll
<1> HIDE DEF H
<1>3. Len(H) \in Nat /\ \A n \in 1..Len(H) : H[n] \in HunksOf(a, b) /\ H[n] \in Elems(H)
  BY <1>2 DEF Elems
<1>4. \A n \in 1..Len(H) : Slot(H[n]) \in Nat
  BY <1>1, <1>3, SlotIsNat
<1>5. \A m, n \in 1..Len(H) : m < n => Slot(H[m]) < Slot(H[n])
  BY <1>2 DEF Rising
<1>6. \A m, n \in 1..Len(H) : Slot(H[m]) = Slot(H[n]) => m = n
  <2>1. ASSUME NEW m \in 1..Len(H), NEW n \in 1..Len(H), Slot(H[m]) = Slot(H[n]) PROVE m = n
    <3>1. ~ (Slot(H[m]) < Slot(H[n])) /\ ~ (Slot(H[n]) < Slot(H[m]))
      BY <1>4, <2>1
    <3>2. ~ (m < n) /\ ~ (n < m)
      BY <1>5, <3>1
    <3>3. QED
      BY <1>3, <3>2
  <2>2. QED
    BY <2>1
<1>7. \A n \in 1..Len(H) : \/ \E i \in Gone(a, b) : H[n] = Removed(a, i)
                           \/ \E j \in 1..Len(b) : H[n] = HunkOf(a, b, j)
  BY <1>2, <1>3
<1>8. \A x \in Elems(H) : \E n \in 1..Len(H) : H[n] = x
  BY DEF Elems
<1>9. QED
  BY <1>2, <1>3, <1>4, <1>5, <1>6, <1>7, <1>8 DEF HunksTell, H

\* Without what was removed it is the later version.
LEMMA LaterIsThere ==
    ASSUME NEW a \in BlockLists, NEW b \in BlockLists, NEW H, HunksTell(H, a, b)
    PROVE  /\ {H[n].to : n \in {m \in 1..Len(H) : H[m].op # "removed"}} = 1..Len(b)
           /\ \A m, n \in {k \in 1..Len(H) : H[k].op # "removed"} : m < n => H[m].to < H[n].to
<1> DEFINE later == {k \in 1..Len(H) : H[k].op # "removed"}
<1>1. Len(a) \in Nat /\ Len(b) \in Nat /\ Gone(a, b) \in SUBSET (1..Len(a))
  BY VersionHas DEF Gone
<1>2. ASSUME NEW n \in later PROVE H[n].to \in 1..Len(b) /\ Slot(H[n]) = 2 * H[n].to + 1
  <2>1. n \in 1..Len(H) /\ H[n].op # "removed"
    OBVIOUS
  <2>2. ~ \E i \in Gone(a, b) : H[n] = Removed(a, i)
    BY <1>1, <2>1, RemovedStands
  <2>3. PICK j \in 1..Len(b) : H[n] = HunkOf(a, b, j)
    BY <2>1, <2>2 DEF HunksTell
  <2>4. j \in Nat
    BY <1>1
  <2>5. QED
    BY <2>3, <2>4, KeptStands
<1>3. ASSUME NEW j \in 1..Len(b) PROVE \E n \in later : H[n].to = j
  <2>1. PICK n \in 1..Len(H) : H[n] = HunkOf(a, b, j)
    BY DEF HunksTell
  <2>2. j \in Nat
    BY <1>1
  <2>3. H[n].op # "removed" /\ H[n].to = j
    BY <2>1, <2>2, KeptStands
  <2>4. QED
    BY <2>3
<1>4. ASSUME NEW m \in later, NEW n \in later, m < n PROVE H[m].to < H[n].to
  <2>1. Slot(H[m]) < Slot(H[n])
    BY <1>4 DEF HunksTell
  <2>2. /\ H[m].to \in Nat /\ Slot(H[m]) = 2 * H[m].to + 1
        /\ H[n].to \in Nat /\ Slot(H[n]) = 2 * H[n].to + 1
    BY <1>1, <1>2
  <2>3. QED
    BY <2>1, <2>2
<1>5. {H[n].to : n \in later} = 1..Len(b)
  BY <1>2, <1>3
<1>6. QED
  BY <1>4, <1>5

\* Every block of the earlier version is there once.
LEMMA EarlierIsThere ==
    ASSUME NEW a \in BlockLists, NEW b \in BlockLists, NEW H, HunksTell(H, a, b),
           NEW i \in 1..Len(a)
    PROVE  Cardinality({n \in 1..Len(H) : H[n].from = i}) = 1
<1> DEFINE p == PlaceIn(b, BlockKey(a, i))
           of == {n \in 1..Len(H) : H[n].from = i}
<1>1. Len(a) \in Nat /\ Len(b) \in Nat /\ Gone(a, b) \in SUBSET (1..Len(a)) /\ i \in Nat /\ i # 0
  BY VersionHas DEF Gone
<1>2. CASE i \in Gone(a, b)
  <2>1. PICK n \in 1..Len(H) : H[n] = Removed(a, i)
    BY <1>2 DEF HunksTell
  <2>2. ASSUME NEW m \in of PROVE m = n
    <3>1. m \in 1..Len(H) /\ H[m].from = i
      OBVIOUS
    <3>2. CASE \E k \in Gone(a, b) : H[m] = Removed(a, k)
      <4>1. PICK k \in Gone(a, b) : H[m] = Removed(a, k)
        BY <3>2
      <4>2. k \in Nat /\ k = i
        BY <1>1, <3>1, <4>1, RemovedStands
      <4>3. H[m] = H[n]
        BY <2>1, <4>1, <4>2
      <4>4. QED
        BY <3>1, <4>3 DEF HunksTell
    <3>3. CASE \E k \in 1..Len(b) : H[m] = HunkOf(a, b, k)
      <4>1. PICK k \in 1..Len(b) : H[m] = HunkOf(a, b, k)
        BY <3>3
      <4>2. k \in Nat
        BY <1>1
      <4>3. PlaceIn(a, BlockKey(b, k)) = i
        BY <3>1, <4>1, <4>2, KeptStands
      <4>4. BlockKey(a, i) = BlockKey(b, k)
        BY <1>1, <4>3, PlaceHas
      <4>5. PlaceIn(b, BlockKey(a, i)) = k
        BY <4>4, PlaceIs
      <4>6. QED
        BY <1>1, <1>2, <4>2, <4>5 DEF Gone
    <3>4. QED
      BY <3>1, <3>2, <3>3 DEF HunksTell
  <2>3. n \in of
    BY <1>1, <2>1, RemovedStands
  <2>4. of = {n}
    BY <2>2, <2>3
  <2> HIDE DEF of
  <2>5. QED
    BY <2>4, FS_Singleton DEF of
<1>3. CASE i \notin Gone(a, b)
  <2>1. p # 0
    BY <1>3 DEF Gone
  <2>2. p \in 1..Len(b) /\ BlockKey(b, p) = BlockKey(a, i)
    BY <2>1, PlaceHas
  <2> HIDE DEF p
  <2>3. PlaceIn(a, BlockKey(b, p)) = i /\ p \in Nat
    BY <1>1, <2>2, PlaceIs
  <2>4. PICK n \in 1..Len(H) : H[n] = HunkOf(a, b, p)
    BY <2>2 DEF HunksTell
  <2>5. ASSUME NEW m \in of PROVE m = n
    <3>1. m \in 1..Len(H) /\ H[m].from = i
      OBVIOUS
    <3>2. CASE \E k \in Gone(a, b) : H[m] = Removed(a, k)
      <4>1. PICK k \in Gone(a, b) : H[m] = Removed(a, k)
        BY <3>2
      <4>2. k \in Nat /\ k = i
        BY <1>1, <3>1, <4>1, RemovedStands
      <4>3. QED
        BY <1>3, <4>2
    <3>3. CASE \E k \in 1..Len(b) : H[m] = HunkOf(a, b, k)
      <4>1. PICK k \in 1..Len(b) : H[m] = HunkOf(a, b, k)
        BY <3>3
      <4>2. k \in Nat
        BY <1>1
      <4>3. PlaceIn(a, BlockKey(b, k)) = i
        BY <3>1, <4>1, <4>2, KeptStands
      <4>4. BlockKey(a, i) = BlockKey(b, k)
        BY <1>1, <4>3, PlaceHas
      <4>5. k = p
        BY <2>2, <4>4, KeysTell
      <4>6. H[m] = H[n]
        BY <2>4, <4>1, <4>5
      <4>7. QED
        BY <3>1, <4>6 DEF HunksTell
    <3>4. QED
      BY <3>1, <3>2, <3>3 DEF HunksTell
  <2>6. n \in of
    BY <2>3, <2>4, KeptStands
  <2>7. of = {n}
    BY <2>5, <2>6
  <2> HIDE DEF of
  <2>8. QED
    BY <2>7, FS_Singleton DEF of
<1>4. QED
  BY <1>2, <1>3

\* A block that is not said to have changed has the text it had.
LEMMA SameTextIsTrue ==
    ASSUME NEW a \in BlockLists, NEW b \in BlockLists, NEW H, HunksTell(H, a, b),
           NEW n \in 1..Len(H), H[n].op \in {"unchanged", "moved"}
    PROVE  b[H[n].to].text = a[H[n].from].text
<1>1. Len(b) \in Nat /\ Gone(a, b) \in SUBSET Nat
  BY VersionHas DEF Gone
<1>2. ~ \E i \in Gone(a, b) : H[n] = Removed(a, i)
  BY <1>1, RemovedStands
<1>3. PICK j \in 1..Len(b) : H[n] = HunkOf(a, b, j)
  BY <1>2 DEF HunksTell
<1>4. H[n].to = j /\ H[n].from = PlaceIn(a, BlockKey(b, j)) /\ j \in Nat
  BY <1>1, <1>3, KeptStands
<1>5. a[PlaceIn(a, BlockKey(b, j))].text = b[j].text
  <2> DEFINE i == PlaceIn(a, BlockKey(b, j))
             op == IF i = 0 THEN "added" ELSE IF a[i].text # b[j].text THEN "changed"
                   ELSE IF i # j THEN "moved" ELSE "unchanged"
  <2>1. HunkOf(a, b, j).op = op
    BY DEF HunkOf
  <2>2. op \in {"unchanged", "moved"}
    BY <1>3, <2>1
  <2> HIDE DEF i
  <2>3. QED
    BY <2>2 DEF i
<1>6. QED
  BY <1>4, <1>5

\* What was removed is shown before what is at its place or after it.
LEMMA RemovedInPlace ==
    ASSUME NEW a \in BlockLists, NEW b \in BlockLists, NEW H, HunksTell(H, a, b),
           NEW m \in 1..Len(H), NEW n \in 1..Len(H),
           H[m].op = "removed", H[n].op # "removed"
    PROVE  m < n <=> H[m].from <= H[n].to
<1>1. Len(b) \in Nat /\ Gone(a, b) \in SUBSET Nat
  BY VersionHas DEF Gone
<1>2. H[n].to \in Nat /\ Slot(H[n]) = 2 * H[n].to + 1
  <2>1. ~ \E i \in Gone(a, b) : H[n] = Removed(a, i)
    BY <1>1, RemovedStands
  <2>2. PICK j \in 1..Len(b) : H[n] = HunkOf(a, b, j)
    BY <2>1 DEF HunksTell
  <2>3. QED
    BY <1>1, <2>2, KeptStands
<1>3. H[m].from \in Nat /\ Slot(H[m]) = 2 * H[m].from
  <2>1. ~ \E j \in 1..Len(b) : H[m] = HunkOf(a, b, j)
    BY <1>1, KeptStands
  <2>2. PICK i \in Gone(a, b) : H[m] = Removed(a, i)
    BY <2>1 DEF HunksTell
  <2>3. QED
    BY <1>1, <2>2, RemovedStands
<1>4. m \in Nat /\ n \in Nat
  BY DEF HunksTell
<1>5. m < n => Slot(H[m]) < Slot(H[n])
  BY DEF HunksTell
<1>6. n < m => Slot(H[n]) < Slot(H[m])
  BY DEF HunksTell
<1>7. m # n
  OBVIOUS
<1>8. Slot(H[m]) < Slot(H[n]) <=> H[m].from <= H[n].to
  BY <1>2, <1>3
<1>9. Slot(H[n]) < Slot(H[m]) => ~ (Slot(H[m]) < Slot(H[n]))
  BY <1>2, <1>3
<1>10. QED
  BY <1>4, <1>5, <1>6, <1>7, <1>8, <1>9

\* Two versions that are told to differ in nothing, or that do not differ.
Alike(a, b) ==
    /\ Len(a) = Len(b)
    /\ \A i \in 1..Len(a) : a[i].id = b[i].id /\ a[i].text = b[i].text

LEMMA AlikeIsSame ==
    ASSUME NEW a \in BlockLists, NEW b \in BlockLists
    PROVE  Alike(a, b) <=> /\ [i \in 1..Len(a) |-> a[i].text] = [j \in 1..Len(b) |-> b[j].text]
                           /\ [i \in 1..Len(a) |-> a[i].id] = [j \in 1..Len(b) |-> b[j].id]
<1> DEFINE fa == [i \in 1..Len(a) |-> a[i].text]
           fb == [j \in 1..Len(b) |-> b[j].text]
           ga == [i \in 1..Len(a) |-> a[i].id]
           gb == [j \in 1..Len(b) |-> b[j].id]
<1>1. Len(a) \in Nat /\ Len(b) \in Nat
  BY VersionHas
<1>2. ASSUME Alike(a, b) PROVE fa = fb /\ ga = gb
  BY <1>2 DEF Alike
<1>3. ASSUME fa = fb, ga = gb PROVE Alike(a, b)
  <2>1. DOMAIN fa = 1..Len(a) /\ DOMAIN fb = 1..Len(b)
    OBVIOUS
  <2>2. 1..Len(a) = 1..Len(b)
    BY <1>3, <2>1
  <2>3. Len(a) = Len(b)
    BY <1>1, <2>2
  <2>4. ASSUME NEW i \in 1..Len(a) PROVE a[i].id = b[i].id /\ a[i].text = b[i].text
    <3>1. fa[i] = a[i].text /\ ga[i] = a[i].id
      OBVIOUS
    <3>2. fb[i] = b[i].text /\ gb[i] = b[i].id
      BY <2>2
    <3> HIDE DEF fa, fb, ga, gb
    <3>3. QED
      BY <1>3, <3>1, <3>2
  <2>5. QED
    BY <2>3, <2>4 DEF Alike
<1>4. QED
  BY <1>2, <1>3

LEMMA NothingTold ==
    ASSUME NEW a \in BlockLists, NEW b \in BlockLists, NEW H, HunksTell(H, a, b)
    PROVE  Alike(a, b) <=> \A n \in 1..Len(H) : H[n].op \notin {"added", "removed", "moved", "changed"}
<1>1. Len(a) \in Nat /\ Len(b) \in Nat /\ Gone(a, b) \in SUBSET (1..Len(a))
  BY VersionHas DEF Gone
<1>2. ASSUME Alike(a, b), NEW n \in 1..Len(H)
      PROVE  H[n].op \notin {"added", "removed", "moved", "changed"}
  <2>1. \A i \in 1..Len(a) : BlockKey(a, i) = BlockKey(b, i)
    BY <1>2 DEF Alike, BlockKey
  <2>2. ASSUME NEW i \in Gone(a, b) PROVE FALSE
    <3>1. i \in 1..Len(a) /\ i \in 1..Len(b) /\ i # 0
      BY <1>1, <1>2 DEF Alike
    <3>2. PlaceIn(b, BlockKey(b, i)) = i
      BY <3>1, PlaceIs
    <3>3. QED
      BY <2>1, <3>1, <3>2 DEF Gone
  <2>3. PICK j \in 1..Len(b) : H[n] = HunkOf(a, b, j)
    BY <2>2 DEF HunksTell
  <2>4. j \in 1..Len(a) /\ j # 0
    BY <1>1, <1>2 DEF Alike
  <2>5. PlaceIn(a, BlockKey(b, j)) = j
    BY <2>1, <2>4, PlaceIs
  <2>6. a[j].text = b[j].text
    BY <1>2, <2>4 DEF Alike
  <2>7. HunkOf(a, b, j).op = "unchanged"
    BY <2>4, <2>5, <2>6 DEF HunkOf
  <2>8. QED
    BY <2>3, <2>7
<1>3. ASSUME \A n \in 1..Len(H) : H[n].op \notin {"added", "removed", "moved", "changed"}
      PROVE  Alike(a, b)
  <2>1. ASSUME NEW j \in 1..Len(b)
        PROVE  j \in 1..Len(a) /\ BlockKey(a, j) = BlockKey(b, j) /\ a[j].text = b[j].text
    <3> DEFINE i == PlaceIn(a, BlockKey(b, j))
    <3>1. PICK n \in 1..Len(H) : H[n] = HunkOf(a, b, j)
      BY DEF HunksTell
    <3>2. HunkOf(a, b, j).op \notin {"added", "removed", "moved", "changed"}
      BY <1>3, <3>1
    <3>3. i # 0 /\ ~ (a[i].text # b[j].text) /\ i = j
      BY <3>2 DEF HunkOf
    <3>4. i \in 1..Len(a) /\ BlockKey(a, i) = BlockKey(b, j)
      BY <3>3, PlaceHas
    <3>5. QED
      BY <3>3, <3>4
  <2>2. ASSUME NEW i \in 1..Len(a) PROVE i \in 1..Len(b)
    <3> DEFINE p == PlaceIn(b, BlockKey(a, i))
    <3>1. i \notin Gone(a, b)
      <4>1. SUFFICES ASSUME i \in Gone(a, b) PROVE FALSE
        OBVIOUS
      <4>2. PICK n \in 1..Len(H) : H[n] = Removed(a, i)
        BY <4>1 DEF HunksTell
      <4>3. i \in Nat
        BY <1>1
      <4>4. QED
        BY <1>3, <4>2, <4>3, RemovedStands
    <3>2. p # 0
      BY <3>1 DEF Gone
    <3>3. p \in 1..Len(b) /\ BlockKey(b, p) = BlockKey(a, i)
      BY <3>2, PlaceHas
    <3> HIDE DEF p
    <3>4. p \in 1..Len(a) /\ BlockKey(a, p) = BlockKey(a, i)
      BY <2>1, <3>3
    <3>5. p = i
      BY <3>4, KeysTell
    <3>6. QED
      BY <3>3, <3>5
  <2>3. Len(a) = Len(b)
    <3>1. \A k \in Nat : k # 0 /\ k <= Len(a) => k <= Len(b)
      BY <1>1, <2>2
    <3>2. \A k \in Nat : k # 0 /\ k <= Len(b) => k <= Len(a)
      BY <1>1, <2>1
    <3>3. QED
      BY <1>1, <3>1, <3>2
  <2>4. ASSUME NEW i \in 1..Len(a) PROVE a[i].id = b[i].id /\ a[i].text = b[i].text
    <3>1. BlockKey(a, i) = BlockKey(b, i) /\ a[i].text = b[i].text
      BY <2>1, <2>2
    <3>2. BlockKey(a, i)[1] = a[i].id /\ BlockKey(b, i)[1] = b[i].id
      BY DEF BlockKey
    <3>3. QED
      BY <3>1, <3>2
  <2>5. QED
    BY <2>3, <2>4 DEF Alike
<1>4. QED
  BY <1>2, <1>3

-----------------------------------------------------------------------------
Ops == {"added", "removed", "moved", "changed", "unchanged"}
StatsOf(H) == [op \in Ops |-> Cardinality({n \in 1..Len(H) : H[n].op = op})]

\* The inductive invariant.
DiffInv ==
    /\ compared.a \in BlockLists /\ compared.b \in BlockLists
    /\ shown.done \in BOOLEAN
    /\ shown.done => /\ HunksTell(shown.hunks, compared.a, compared.b)
                     /\ shown.stats = StatsOf(shown.hunks)

LEMMA DiffStarts == DiffInit => DiffInv
  BY DEF DiffInit, DiffInv, NotCompared

LEMMA DiffSteps == DiffInv /\ [DiffNext]_diffVars => DiffInv'
<1> SUFFICES ASSUME DiffInv, [DiffNext]_diffVars PROVE DiffInv'
  OBVIOUS
<1>1. CASE CompareVersions
  <2> DEFINE H == Hunks(compared.a, compared.b)
  <2>1. HunksTell(H, compared.a, compared.b)
    BY HunksOfTwo DEF DiffInv
  <2>2. /\ shown' = [done |-> TRUE, hunks |-> H, stats |-> StatsOf(H)]
        /\ compared' = compared
    BY <1>1 DEF CompareVersions, StatsOf, Ops
  <2> HIDE DEF H
  <2>3. shown'.done = TRUE /\ shown'.hunks = H /\ shown'.stats = StatsOf(H)
    BY <2>2
  <2>4. QED
    BY <2>1, <2>2, <2>3 DEF DiffInv
<1>2. CASE UNCHANGED diffVars
  BY <1>2 DEF diffVars, DiffInv
<1>3. QED
  BY <1>1, <1>2 DEF DiffNext

LEMMA DiffTells == DiffInv => DiffTellsBoth /\ RemovedStandWhereTheyStood
<1> SUFFICES ASSUME DiffInv, shown.done PROVE DiffTellsBoth /\ RemovedStandWhereTheyStood
  BY DEF DiffTellsBoth, RemovedStandWhereTheyStood
<1> DEFINE a == compared.a
           b == compared.b
           H == shown.hunks
           stats == shown.stats
           told == {"added", "removed", "moved", "changed"}
<1>1. a \in BlockLists /\ b \in BlockLists /\ HunksTell(H, a, b) /\ stats = StatsOf(H)
  BY DEF DiffInv
<1> HIDE DEF a, b, H, stats
<1>2. /\ {H[n].to : n \in {m \in 1..Len(H) : H[m].op # "removed"}} = 1..Len(b)
      /\ \A m, n \in {k \in 1..Len(H) : H[k].op # "removed"} : m < n => H[m].to < H[n].to
  BY <1>1, LaterIsThere
<1>3. \A i \in 1..Len(a) : Cardinality({n \in 1..Len(H) : H[n].from = i}) = 1
  <2>1. ASSUME NEW i \in 1..Len(a) PROVE Cardinality({n \in 1..Len(H) : H[n].from = i}) = 1
    BY <1>1, EarlierIsThere
  <2>2. QED
    BY <2>1
<1>4. \A n \in 1..Len(H) : H[n].op \in {"unchanged", "moved"} =>
         b[H[n].to].text = a[H[n].from].text
  BY <1>1, SameTextIsTrue
<1>5. \A op \in told : stats[op] = 0 <=> \A n \in 1..Len(H) : H[n].op # op
  <2>1. ASSUME NEW op \in told PROVE stats[op] = 0 <=> \A n \in 1..Len(H) : H[n].op # op
    <3> DEFINE S == {n \in 1..Len(H) : H[n].op = op}
    <3>1. stats[op] = Cardinality(S)
      BY <1>1 DEF StatsOf, Ops
    <3>2. IsFiniteSet(1..Len(H)) /\ S \in SUBSET (1..Len(H))
      <4>1. Len(H) \in Nat
        BY <1>1 DEF HunksTell
      <4>2. 1 \in Int /\ Len(H) \in Int
        BY <4>1
      <4>3. QED
        BY <4>2, FS_Interval
    <3>3. S = {} <=> \A n \in 1..Len(H) : H[n].op # op
      OBVIOUS
    <3> HIDE DEF S
    <3>4. IsFiniteSet(S)
      BY <3>2, FS_Subset
    <3>5. Cardinality(S) = 0 <=> S = {}
      BY <3>4, FS_EmptySet
    <3>6. QED
      BY <3>1, <3>3, <3>5
  <2>2. QED
    BY <2>1
<1>6. (\A op \in told : stats[op] = 0)
        <=> [i \in 1..Len(a) |-> a[i].text] = [j \in 1..Len(b) |-> b[j].text]
            /\ [i \in 1..Len(a) |-> a[i].id] = [j \in 1..Len(b) |-> b[j].id]
  <2>1. (\A op \in told : stats[op] = 0) <=> \A n \in 1..Len(H) : H[n].op \notin told
    BY <1>5
  <2>2. Alike(a, b) <=> \A n \in 1..Len(H) : H[n].op \notin told
    BY <1>1, NothingTold
  <2>3. QED
    BY <1>1, <2>1, <2>2, AlikeIsSame
<1>7. DiffTellsBoth
  BY <1>2, <1>3, <1>4, <1>6 DEF DiffTellsBoth, a, b, H, stats
<1>8. RemovedStandWhereTheyStood
  <2>1. \A m, n \in 1..Len(H) :
           H[m].op = "removed" /\ H[n].op # "removed" => (m < n <=> H[m].from <= H[n].to)
    BY <1>1, RemovedInPlace
  <2>2. QED
    BY <2>1 DEF RemovedStandWhereTheyStood, H
<1>9. QED
  BY <1>7, <1>8

\* For any two versions whose ids are given once: the hunks are the later version and what
\* was removed, where it stood, and the statistics are all zero only if nothing differs.
THEOREM DiffIsExact == DiffSpec => [](DiffTellsBoth /\ RemovedStandWhereTheyStood)
<1>1. DiffInv /\ [DiffNext]_diffVars => DiffInv'
  BY DiffSteps
<1>2. QED
  BY DiffStarts, <1>1, DiffTells, PTL DEF DiffSpec

-----------------------------------------------------------------------------
(***************************************************************************)
(* ArchitecturePlan.                                                       *)
(***************************************************************************)

Listings == UNION {[1..n -> Nodes] : n \in 0..MaxNodes}

LEMMA ListingHas ==
    ASSUME NEW nodes \in Listings
    PROVE  /\ Len(nodes) \in Nat /\ DOMAIN nodes = 1..Len(nodes)
           /\ \A i \in 1..Len(nodes) : nodes[i] \in Nodes
           /\ Distinct(nodes) \in SUBSET (1..Len(nodes))
<1>1. PICK n \in 0..MaxNodes : nodes \in [1..n -> Nodes]
  BY DEF Listings
<1>2. n \in Nat
  BY PlanAssumption
<1>3. nodes \in Seq(Nodes) /\ Len(nodes) = n
  BY <1>1, <1>2
<1>4. DOMAIN nodes = 1..Len(nodes)
  BY <1>1, <1>3
<1>5. QED
  BY <1>1, <1>2, <1>3, <1>4 DEF Distinct

\* A reference has one node, the first one that says it.
LEMMA OnePerRef ==
    ASSUME NEW nodes \in Listings, NEW i \in Distinct(nodes), NEW j \in Distinct(nodes),
           nodes[i].ref = nodes[j].ref
    PROVE  i = j
<1>1. i \in DOMAIN nodes /\ j \in DOMAIN nodes /\ i \in Nat /\ j \in Nat
  BY ListingHas DEF Distinct
<1>2. nodes[i].valid /\ nodes[j].valid
  BY DEF Distinct
<1>3. ~ (i < j) /\ ~ (j < i)
  BY <1>1, <1>2 DEF Distinct
<1>4. QED
  BY <1>1, <1>3

LEMMA FirstOfRef ==
    ASSUME NEW nodes \in Listings, NEW i \in DOMAIN nodes, nodes[i].valid
    PROVE  \E j \in Distinct(nodes) : nodes[j].ref = nodes[i].ref
<1> DEFINE T == {j \in Nat : j \in DOMAIN nodes /\ nodes[j].valid /\ nodes[j].ref = nodes[i].ref}
<1>1. DOMAIN nodes \in SUBSET Nat
  BY ListingHas
<1>2. i \in T /\ T \in SUBSET Nat
  BY <1>1
<1>3. PICK j \in T : \A k \in T : j <= k
  BY <1>2, LeastExists
<1>4. j \in DOMAIN nodes /\ nodes[j].valid /\ nodes[j].ref = nodes[i].ref /\ j \in Nat
  BY <1>3
<1>5. ASSUME NEW k \in DOMAIN nodes, k < j, nodes[k].valid, nodes[k].ref = nodes[j].ref PROVE FALSE
  <2>1. k \in T
    BY <1>1, <1>4, <1>5
  <2>2. j <= k /\ k \in Nat
    BY <1>1, <1>3, <2>1
  <2>3. QED
    BY <1>4, <1>5, <2>2
<1>6. QED
  BY <1>4, <1>5 DEF Distinct

\* The parent of a node is another one of the nodes.
LEMMA ParentIs ==
    ASSUME NEW nodes \in Listings, NEW i \in 1..Len(nodes), ParentIn(nodes, i) # NoParent
    PROVE  /\ ParentIn(nodes, i) # nodes[i].ref
           /\ NodeOf(nodes, ParentIn(nodes, i)) \in Distinct(nodes)
           /\ nodes[NodeOf(nodes, ParentIn(nodes, i))].ref = ParentIn(nodes, i)
<1> DEFINE p == ParentIn(nodes, i)
<1>1. p = nodes[i].parent /\ p # nodes[i].ref /\ \E j \in Distinct(nodes) : nodes[j].ref = p
  BY DEF ParentIn
<1> HIDE DEF p
<1>2. NodeOf(nodes, p) \in Distinct(nodes) /\ nodes[NodeOf(nodes, p)].ref = p
  BY <1>1 DEF NodeOf
<1>3. QED
  BY <1>1, <1>2 DEF p

-----------------------------------------------------------------------------
RefsOf(nodes, o) == {nodes[o[m]].ref : m \in 1..Len(o)}

\* A document right after its parent.
Follows(nodes, o, x) == nodes[o[x - 1]].ref = ParentIn(nodes, o[x])

\* What is being visited: a node, after its parent, after the parent of that.
IsLine(nodes, line, i, out) ==
    /\ line \in Seq(Distinct(nodes)) /\ Len(line) \in Nat \ {0} /\ line[Len(line)] = i
    /\ Once(line)
    /\ \A k \in 1..Len(line) : nodes[line[k]].ref \notin out
    /\ \A x \in 2..Len(line) : Follows(nodes, line, x)

\* There is no parent left to visit first.
Stops(nodes, line, out) ==
    LET p == ParentIn(nodes, line[1]) IN
    p = NoParent \/ p \in out \/ p \in {nodes[line[k]].ref : k \in 1..Len(line)}

LEMMA OneIsLine ==
    ASSUME NEW nodes, NEW i \in Distinct(nodes), NEW out, nodes[i].ref \notin out
    PROVE  IsLine(nodes, <<i>>, i, out)
<1> DEFINE line == <<i>>
<1>1. line \in Seq(Distinct(nodes)) /\ Len(line) = 1 /\ line[1] = i
  OBVIOUS
<1> HIDE DEF line
<1>2. QED
  BY <1>1 DEF IsLine, Once, line

LEMMA ClimbStops ==
    ASSUME NEW nodes, NEW line, NEW out, Stops(nodes, line, out)
    PROVE  Climb(nodes, line, out) = line
  BY DEF Climb, Stops

LEMMA ClimbGoesOn ==
    ASSUME NEW nodes \in Listings, NEW line, NEW i, NEW out, IsLine(nodes, line, i, out),
           ~ Stops(nodes, line, out)
    PROVE  /\ IsLine(nodes, Climb(nodes, line, out), i, out)
           /\ Len(Climb(nodes, line, out)) = Len(line) + 1
<1> DEFINE p == ParentIn(nodes, line[1])
           q == NodeOf(nodes, p)
           one == <<q>>
           up == one \o line
           D == Distinct(nodes)
<1>1. line \in Seq(D) /\ Len(line) \in Nat /\ Len(line) # 0 /\ line[Len(line)] = i
  BY DEF IsLine
<1>2. p # NoParent /\ p \notin out /\ p \notin {nodes[line[k]].ref : k \in 1..Len(line)}
  BY DEF Stops
<1>3. Climb(nodes, line, out) = up
  BY <1>2 DEF Climb
<1>4. line[1] \in D /\ line[1] \in 1..Len(nodes)
  BY <1>1, ListingHas
<1>5. q \in D /\ nodes[q].ref = p
  BY <1>2, <1>4, ParentIs
<1> HIDE DEF p, q, D
<1>6. one \in Seq(D) /\ Len(one) = 1 /\ one[1] = q
  BY <1>5
<1> HIDE DEF one
<1>7. /\ up \in Seq(D) /\ Len(up) = Len(line) + 1 /\ up[1] = q
      /\ \A k \in 1..Len(up) : k # 1 => k - 1 \in 1..Len(line) /\ up[k] = line[k - 1]
  <2>1. /\ up \in Seq(D) /\ Len(up) = Len(one) + Len(line)
        /\ \A k \in 1..Len(one) : up[k] = one[k]
        /\ \A k \in 1..Len(up) : k > Len(one) => k - Len(one) \in 1..Len(line) /\ up[k] = line[k - Len(one)]
    BY <1>1, <1>6, OneAfterTheOther
  <2> HIDE DEF up
  <2>2. QED
    BY <1>1, <1>6, <2>1
<1> HIDE DEF up
<1>8. Len(up) \in Nat \ {0} /\ up[Len(up)] = i
  <2>1. Len(up) \in 1..Len(up) /\ Len(up) # 1 /\ Len(up) - 1 = Len(line)
    BY <1>1, <1>7
  <2>2. QED
    BY <1>1, <1>7, <2>1
<1>9. \A k \in 1..Len(line) : line[k] # q /\ nodes[line[k]].ref \notin out
  BY <1>2, <1>5 DEF IsLine
<1>10. Once(up)
  <2>1. ASSUME NEW k \in 1..Len(up), NEW m \in 1..Len(up), k # m PROVE up[k] # up[m]
    <3>1. CASE k = 1
      BY <1>7, <1>9, <2>1, <3>1
    <3>2. CASE m = 1
      BY <1>7, <1>9, <2>1, <3>2
    <3>3. CASE k # 1 /\ m # 1
      <4>1. /\ k - 1 \in 1..Len(line) /\ m - 1 \in 1..Len(line) /\ k - 1 # m - 1
            /\ up[k] = line[k - 1] /\ up[m] = line[m - 1]
        BY <1>7, <2>1, <3>3
      <4>2. line[k - 1] # line[m - 1]
        BY <4>1 DEF IsLine, Once
      <4>3. QED
        BY <4>1, <4>2
    <3>4. QED
      BY <3>1, <3>2, <3>3
  <2>2. QED
    BY <2>1 DEF Once
<1>11. ASSUME NEW k \in 1..Len(up) PROVE nodes[up[k]].ref \notin out
  <2>1. CASE k = 1
    BY <1>2, <1>5, <1>7, <2>1
  <2>2. CASE k # 1
    BY <1>7, <1>9, <2>2
  <2>3. QED
    BY <2>1, <2>2
<1>12. ASSUME NEW x \in 2..Len(up) PROVE Follows(nodes, up, x)
  <2>1. x \in 1..Len(up) /\ x # 1 /\ x - 1 \in 1..Len(line) /\ up[x] = line[x - 1]
    BY <1>7
  <2>2. CASE x = 2
    <3>1. up[x - 1] = q /\ up[x] = line[1]
      BY <1>7, <2>1, <2>2
    <3>2. QED
      BY <1>5, <3>1 DEF Follows, p
  <2>3. CASE x # 2
    <3>1. x - 1 \in 1..Len(up) /\ x - 1 # 1 /\ x - 1 \in 2..Len(line)
      BY <1>1, <1>7, <2>1, <2>3
    <3>2. up[x - 1] = line[(x - 1) - 1]
      BY <1>7, <3>1
    <3>3. Follows(nodes, line, x - 1)
      BY <3>1 DEF IsLine
    <3>4. QED
      BY <2>1, <3>2, <3>3 DEF Follows
  <2>4. QED
    BY <2>2, <2>3
<1>13. IsLine(nodes, up, i, out)
  BY <1>7, <1>8, <1>10, <1>11, <1>12 DEF IsLine, D
<1>14. QED
  BY <1>3, <1>7, <1>13

\* A line has no more nodes than there are.
LEMMA LineIsShort ==
    ASSUME NEW nodes \in Listings, NEW line, NEW i, NEW out, IsLine(nodes, line, i, out)
    PROVE  Len(line) <= Len(nodes)
<1> DEFINE n == Len(line)
           h == Len(nodes)
           A == 1..n
           B == 1..h
<1>1. /\ line \in Seq(Distinct(nodes)) /\ n \in Nat /\ h \in Nat /\ Once(line)
      /\ Distinct(nodes) \in SUBSET B
  BY ListingHas DEF IsLine
<1>2. line \in [A -> B]
  BY <1>1
<1>3. line \in Injection(A, B)
  BY <1>2, <1>1 DEF Injection, IsInjective, Once
<1> HIDE DEF n, h
<1>4. IsFiniteSet(A) /\ Cardinality(A) = n /\ IsFiniteSet(B) /\ Cardinality(B) = h
  <2>1. IsFiniteSet(1..n) /\ Cardinality(1..n) = n
    BY <1>1, FS_Interval
  <2>2. IsFiniteSet(1..h) /\ Cardinality(1..h) = h
    BY <1>1, FS_Interval
  <2>3. QED
    BY <2>1, <2>2
<1> HIDE DEF A, B
<1>5. Cardinality(A) <= Cardinality(B)
  BY <1>3, <1>4, FS_Injection
<1>6. QED
  BY <1>4, <1>5 DEF n, h

\* The recursion of Visit.
IsClimbed(f, nodes, i, out) ==
    f = [n \in 0..Len(nodes) |-> IF n = 0 THEN <<i>> ELSE Climb(nodes, f[n - 1], out)]

\* A node is visited after its parents, up to one that is out or has none or is in the line.
LEMMA VisitIs ==
    ASSUME NEW nodes \in Listings, NEW i \in Distinct(nodes), NEW out, nodes[i].ref \notin out
    PROVE  IsLine(nodes, Visit(nodes, i, out), i, out) /\ Stops(nodes, Visit(nodes, i, out), out)
<1> DEFINE h == Len(nodes)
           S == {line \in Seq(Distinct(nodes)) : IsLine(nodes, line, i, out)}
           g == [p \in (1..h) \X S |-> Climb(nodes, p[2], out)]
           first == <<i>>
           f == CHOOSE v : IsClimbed(v, nodes, i, out)
<1>1. Visit(nodes, i, out) = f[h]
  BY DEF Visit, IsClimbed
<1>2. h \in Nat /\ first \in S
  <2>1. IsLine(nodes, first, i, out)
    BY OneIsLine
  <2>2. QED
    BY <2>1, ListingHas DEF IsLine
<1>3. \A line \in S : /\ Climb(nodes, line, out) \in S
                      /\ Stops(nodes, line, out) => Climb(nodes, line, out) = line
                      /\ ~ Stops(nodes, line, out) =>
                            Len(Climb(nodes, line, out)) = Len(line) + 1
  <2>1. ASSUME NEW line \in S, Stops(nodes, line, out) PROVE Climb(nodes, line, out) = line
    BY <2>1, ClimbStops
  <2>2. ASSUME NEW line \in S, ~ Stops(nodes, line, out)
        PROVE  /\ Climb(nodes, line, out) \in S
               /\ Len(Climb(nodes, line, out)) = Len(line) + 1
    <3>1. IsLine(nodes, line, i, out)
      OBVIOUS
    <3>2. /\ IsLine(nodes, Climb(nodes, line, out), i, out)
          /\ Len(Climb(nodes, line, out)) = Len(line) + 1
      BY <2>2, <3>1, ClimbGoesOn
    <3>3. QED
      BY <3>2 DEF IsLine
  <2> HIDE DEF S
  <2>3. QED
    BY <2>1, <2>2
<1>4. \A line \in S : IsLine(nodes, line, i, out) /\ Len(line) \in Nat /\ Len(line) <= h
  <2>1. ASSUME NEW line \in S PROVE IsLine(nodes, line, i, out) /\ Len(line) \in Nat /\ Len(line) <= h
    <3>1. IsLine(nodes, line, i, out)
      OBVIOUS
    <3>2. QED
      BY <3>1, LineIsShort DEF IsLine
  <2>2. QED
    BY <2>1
<1>5. Len(first) = 1
  OBVIOUS
<1> HIDE DEF S, h, first
<1>6. g \in StepsOn(S, h) /\ \A n \in 1..h, line \in S : g[<<n, line>>] = Climb(nodes, line, out)
  <2>1. \A p \in (1..h) \X S : Climb(nodes, p[2], out) \in S
    BY <1>3
  <2>2. QED
    BY <2>1 DEF StepsOn
<1> HIDE DEF g
<1>7. IsClimbed(f, nodes, i, out)
  <2>1. PICK v : IsCourse(v, g, S, first, h)
    BY <1>2, <1>6, CourseExists
  <2>2. \A n \in 0..h : v[n] \in S
    BY <2>1 DEF IsCourse
  <2>3. ASSUME NEW n \in 0..h
        PROVE  v[n] = IF n = 0 THEN first ELSE Climb(nodes, v[n - 1], out)
    <3>1. CASE n = 0
      BY <2>1, <3>1 DEF IsCourse
    <3>2. CASE n # 0
      <4>1. n \in 1..h /\ n - 1 \in 0..h
        BY <1>2, <3>2
      <4>2. v[n] = g[<<n, v[n - 1]>>] /\ v[n - 1] \in S
        BY <2>1, <2>2, <4>1 DEF IsCourse
      <4>3. QED
        BY <1>6, <3>2, <4>1, <4>2
    <3>3. QED
      BY <3>1, <3>2
  <2>4. v = [n \in 0..h |-> v[n]]
    BY <2>1 DEF IsCourse
  <2>5. v = [n \in 0..h |-> IF n = 0 THEN first ELSE Climb(nodes, v[n - 1], out)]
    BY <2>3, <2>4
  <2>6. IsClimbed(v, nodes, i, out)
    BY <2>5 DEF IsClimbed, h, first
  <2>7. QED
    BY <2>6
<1> HIDE DEF f
<1>8. /\ \A n \in 0..h : f[n] = IF n = 0 THEN first ELSE Climb(nodes, f[n - 1], out)
  BY <1>7 DEF IsClimbed, h, first
<1>9. f[0] = first /\ \A n \in 1..h : f[n] = Climb(nodes, f[n - 1], out) /\ n - 1 \in 0..h
  <2> DEFINE next(n) == Climb(nodes, f[n - 1], out)
             places == 0..h
  <2>1. \A n \in places : f[n] = IF n = 0 THEN first ELSE next(n)
    BY <1>8
  <2>2. 0 \in places /\ \A n \in 1..h : n \in places /\ n # 0 /\ n - 1 \in places
    BY <1>2
  <2> HIDE DEF next, places
  <2>3. f[0] = first
    BY <2>1, <2>2
  <2>4. \A n \in 1..h : f[n] = next(n)
    BY <2>1, <2>2
  <2>5. QED
    BY <2>2, <2>3, <2>4 DEF next, places
<1> DEFINE Good(n) == f[n] \in S /\ (Stops(nodes, f[n], out) \/ Len(f[n]) = n + 1)
           T == {n \in Nat : n <= h /\ ~ Good(n)}
<1>10. Good(0)
  BY <1>2, <1>5, <1>9
<1>11. ASSUME NEW n \in 1..h, Good(n - 1) PROVE Good(n)
  <2> DEFINE was == f[n - 1]
  <2>1. f[n] = Climb(nodes, was, out) /\ n \in Nat
    BY <1>2, <1>9
  <2>2. was \in S /\ (Stops(nodes, was, out) \/ Len(was) = (n - 1) + 1)
    BY <1>11
  <2> HIDE DEF was
  <2>3. CASE Stops(nodes, was, out)
    <3>1. f[n] = was
      BY <1>3, <2>1, <2>2, <2>3
    <3>2. QED
      BY <2>2, <2>3, <3>1
  <2>4. CASE ~ Stops(nodes, was, out)
    <3>1. Len(f[n]) = Len(was) + 1 /\ f[n] \in S
      BY <1>3, <2>1, <2>2, <2>4
    <3>2. QED
      BY <2>1, <2>2, <2>4, <3>1
  <2>5. QED
    BY <2>3, <2>4
<1> HIDE DEF Good
<1>12. T = {}
  <2> SUFFICES ASSUME T # {} PROVE FALSE
    OBVIOUS
  <2>1. PICK n \in T : \A k \in T : n <= k
    BY LeastExists
  <2>2. n \in Nat /\ n <= h /\ ~ Good(n) /\ n # 0
    BY <1>10, <2>1
  <2>3. n \in 1..h /\ n - 1 \in Nat /\ n - 1 <= h /\ ~ (n <= n - 1)
    BY <1>2, <2>2
  <2>4. Good(n - 1)
    BY <2>1, <2>3
  <2>5. QED
    BY <1>11, <2>2, <2>3, <2>4
<1>13. Good(h)
  BY <1>2, <1>12
<1>14. f[h] \in S /\ Stops(nodes, f[h], out)
  <2> DEFINE end == f[h]
  <2>1. end \in S /\ (Stops(nodes, end, out) \/ Len(end) = h + 1)
    BY <1>13 DEF Good
  <2> HIDE DEF end
  <2>2. Len(end) \in Nat /\ Len(end) <= h
    BY <1>4, <2>1
  <2>3. QED
    BY <1>2, <2>1, <2>2 DEF end
<1>15. QED
  BY <1>1, <1>4, <1>14

-----------------------------------------------------------------------------
\* A document that is one of a circle, the rest of which follows it.
Circled(nodes, o, q) ==
    \E m \in 1..Len(o) : /\ q < m /\ nodes[o[m]].ref = ParentIn(nodes, o[q])
                         /\ \A x \in 1..Len(o) : q < x /\ x <= m => Follows(nodes, o, x)

\* A document has no parent, or follows it, or begins a circle.
Rooted(nodes, o, q) ==
    \/ ParentIn(nodes, o[q]) = NoParent
    \/ \E p \in 1..Len(o) : p < q /\ nodes[o[p]].ref = ParentIn(nodes, o[q])
    \/ Circled(nodes, o, q)

\* An order of nodes, with all up to one of them.
IsOrder(nodes, o, n) ==
    /\ o \in Seq(Distinct(nodes)) /\ Once(o)
    /\ \A i \in Distinct(nodes) : i <= n => i \in Elems(o)
    /\ \A q \in 1..Len(o) : Rooted(nodes, o, q)

LEMMA EmptyOrder == ASSUME NEW nodes \in Listings PROVE IsOrder(nodes, <<>>, 0)
<1>1. \A i \in Distinct(nodes) : ~ (i <= 0)
  BY ListingHas
<1>2. 1..Len(<<>>) = {}
  OBVIOUS
<1>3. Once(<<>>) /\ \A q \in 1..Len(<<>>) : Rooted(nodes, <<>>, q)
  BY <1>2 DEF Once
<1>4. QED
  BY <1>1, <1>3 DEF IsOrder

\* What was in order stays so as the order goes on.
LEMMA RootedStays ==
    ASSUME NEW nodes \in Listings, NEW o \in Seq(Distinct(nodes)), NEW line \in Seq(Distinct(nodes)),
           NEW q \in 1..Len(o), Rooted(nodes, o, q)
    PROVE  Rooted(nodes, o \o line, q)
<1> DEFINE u == o \o line
<1> SUFFICES Rooted(nodes, u, q)
  OBVIOUS
<1>1. /\ Len(u) = Len(o) + Len(line) /\ Len(o) \in Nat /\ Len(line) \in Nat
      /\ \A k \in 1..Len(o) : u[k] = o[k]
  BY OneAfterTheOther
<1> HIDE DEF u
<1>2. \A k \in 1..Len(o) : k \in 1..Len(u)
  BY <1>1
<1>3. CASE ParentIn(nodes, o[q]) = NoParent
  <2>1. u[q] = o[q]
    BY <1>1
  <2>2. QED
    BY <1>3, <2>1 DEF Rooted
<1>4. CASE \E p \in 1..Len(o) : p < q /\ nodes[o[p]].ref = ParentIn(nodes, o[q])
  <2>1. PICK p \in 1..Len(o) : p < q /\ nodes[o[p]].ref = ParentIn(nodes, o[q])
    BY <1>4
  <2>2. p \in 1..Len(u) /\ u[p] = o[p] /\ u[q] = o[q]
    BY <1>1, <1>2
  <2>3. QED
    BY <2>1, <2>2 DEF Rooted
<1>5. CASE Circled(nodes, o, q)
  <2>1. PICK m \in 1..Len(o) :
           /\ q < m /\ nodes[o[m]].ref = ParentIn(nodes, o[q])
           /\ \A x \in 1..Len(o) : q < x /\ x <= m => Follows(nodes, o, x)
    BY <1>5 DEF Circled
  <2>2. m \in 1..Len(u) /\ u[m] = o[m] /\ u[q] = o[q]
    BY <1>1, <1>2
  <2>3. ASSUME NEW x \in 1..Len(u), q < x, x <= m PROVE Follows(nodes, u, x)
    <3>1. x \in 1..Len(o) /\ x - 1 \in 1..Len(o)
      BY <1>1, <2>3
    <3>2. u[x] = o[x] /\ u[x - 1] = o[x - 1]
      BY <1>1, <3>1
    <3>3. Follows(nodes, o, x)
      BY <2>1, <2>3, <3>1
    <3>4. QED
      BY <3>2, <3>3 DEF Follows
  <2>4. Circled(nodes, u, q)
    BY <2>1, <2>2, <2>3 DEF Circled
  <2>5. QED
    BY <2>4 DEF Rooted
<1>6. QED
  BY <1>3, <1>4, <1>5 DEF Rooted

LEMMA OrderGoesOn ==
    ASSUME NEW nodes \in Listings, NEW o, NEW n \in Distinct(nodes), IsOrder(nodes, o, n - 1)
    PROVE  IsOrder(nodes, o \o Visit(nodes, n, RefsOf(nodes, o)), n)
<1> DEFINE D == Distinct(nodes)
           out == RefsOf(nodes, o)
           line == Visit(nodes, n, out)
           u == o \o line
<1>1. /\ o \in Seq(D) /\ Len(o) \in Nat /\ n \in Nat /\ Len(nodes) \in Nat
      /\ D \in SUBSET (1..Len(nodes))
  BY ListingHas DEF IsOrder
<1>2. \A k \in 1..Len(o) : nodes[o[k]].ref \in out
  BY DEF RefsOf
<1>3. CASE nodes[n].ref \in out
  <2>1. line = <<>>
    BY <1>3 DEF Visit
  <2>2. u = o
    BY <1>1, <2>1
  <2>3. n \in Elems(o)
    <3>1. PICK k \in 1..Len(o) : nodes[o[k]].ref = nodes[n].ref
      BY <1>3 DEF RefsOf
    <3>2. o[k] \in D
      BY <1>1
    <3> HIDE DEF D
    <3>3. o[k] = n
      BY <3>1, <3>2, OnePerRef DEF D
    <3>4. QED
      BY <3>3 DEF Elems
  <2>4. \A i \in D : i <= n => i <= n - 1 \/ i = n
    BY <1>1
  <2>5. \A i \in D : i <= n => i \in Elems(o)
    BY <2>3, <2>4 DEF IsOrder
  <2> HIDE DEF line
  <2>6. QED
    BY <2>2, <2>5 DEF IsOrder, line
<1>4. CASE nodes[n].ref \notin out
  <2>1. IsLine(nodes, line, n, out) /\ Stops(nodes, line, out)
    <3> HIDE DEF out
    <3>1. QED
      BY <1>4, VisitIs
  <2> HIDE DEF line, out
  <2>2. line \in Seq(D) /\ Len(line) \in Nat /\ Len(line) # 0
    BY <2>1 DEF IsLine
  <2>3. /\ u \in Seq(D) /\ Len(u) = Len(o) + Len(line)
        /\ \A k \in 1..Len(o) : u[k] = o[k]
        /\ \A k \in 1..Len(u) : k > Len(o) => k - Len(o) \in 1..Len(line) /\ u[k] = line[k - Len(o)]
        /\ Elems(u) = Elems(o) \cup Elems(line)
    <3> HIDE DEF D
    <3>1. QED
      BY <1>1, <2>2, OneAfterTheOther
  <2>l. Len(o) \in Nat /\ Len(line) \in Nat /\ Len(u) = Len(o) + Len(line)
    BY <1>1, <2>2, <2>3
  <2> HIDE DEF u
  <2>4. \A k \in 1..Len(line) : Len(o) + k \in 1..Len(u) /\ u[Len(o) + k] = line[k]
    <3>1. ASSUME NEW k \in 1..Len(line) PROVE Len(o) + k \in 1..Len(u) /\ u[Len(o) + k] = line[k]
      <4> DEFINE m == Len(o) + k
      <4>1. m \in 1..Len(u) /\ m > Len(o) /\ m - Len(o) = k
        BY <2>l
      <4> HIDE DEF m
      <4>2. u[m] = line[k] /\ m \in 1..Len(u)
        BY <2>3, <4>1
      <4>3. QED
        BY <4>2 DEF m
    <3>2. QED
      BY <3>1
  <2>5. Once(u)
    <3>1. ASSUME NEW k \in 1..Len(u), NEW m \in 1..Len(u), k < m PROVE u[k] # u[m]
      <4>1. CASE m <= Len(o)
        <5>1. k \in 1..Len(o) /\ m \in 1..Len(o) /\ k # m
          BY <1>1, <3>1, <4>1
        <5>2. QED
          BY <2>3, <5>1 DEF IsOrder, Once
      <4>2. CASE k <= Len(o) /\ m > Len(o)
        <5>1. k \in 1..Len(o) /\ m - Len(o) \in 1..Len(line) /\ u[k] = o[k] /\ u[m] = line[m - Len(o)]
          <6>1. k \in 1..Len(o)
            BY <1>1, <2>3, <4>2
          <6>2. m \in 1..Len(u) /\ m > Len(o)
            BY <4>2
          <6>3. QED
            BY <2>3, <6>1, <6>2
        <5>2. nodes[u[k]].ref \in out /\ nodes[u[m]].ref \notin out
          BY <1>2, <2>1, <5>1 DEF IsLine
        <5>3. QED
          BY <5>2
      <4>3. CASE k > Len(o)
        <5>1. /\ k - Len(o) \in 1..Len(line) /\ u[k] = line[k - Len(o)]
              /\ m - Len(o) \in 1..Len(line) /\ u[m] = line[m - Len(o)]
              /\ k - Len(o) # m - Len(o)
          <6>1. k \in Nat /\ m \in Nat /\ m > Len(o)
            BY <2>l, <3>1, <4>3
          <6>2. k - Len(o) \in 1..Len(line) /\ u[k] = line[k - Len(o)]
            BY <2>3, <4>3
          <6>3. m - Len(o) \in 1..Len(line) /\ u[m] = line[m - Len(o)]
            BY <2>3, <6>1
          <6>4. k - Len(o) # m - Len(o)
            BY <2>l, <3>1, <6>1
          <6>5. QED
            BY <6>2, <6>3, <6>4
        <5>2. line[k - Len(o)] # line[m - Len(o)]
          BY <2>1, <5>1 DEF IsLine, Once
        <5>3. QED
          BY <5>1, <5>2
      <4>4. QED
        BY <1>1, <2>3, <4>1, <4>2, <4>3
    <3>2. \A k, m \in 1..Len(u) : k # m => k < m \/ m < k
      BY <1>1, <2>2, <2>3
    <3>3. QED
      BY <3>1, <3>2 DEF Once
  <2>6. \A i \in D : i <= n => i \in Elems(u)
    <3>1. n \in Elems(line)
      BY <2>1, <2>2 DEF IsLine, Elems
    <3>2. \A i \in D : i <= n => i <= n - 1 \/ i = n
      BY <1>1
    <3>3. QED
      BY <2>3, <3>1, <3>2 DEF IsOrder
  <2>7. ASSUME NEW q \in 1..Len(u) PROVE Rooted(nodes, u, q)
    <3>1. CASE q <= Len(o)
      <4>1. q \in 1..Len(o)
        BY <1>1, <3>1
      <4>2. Rooted(nodes, o, q)
        BY <4>1 DEF IsOrder
      <4>3. o \in Seq(Distinct(nodes)) /\ line \in Seq(Distinct(nodes))
        BY <1>1, <2>2
      <4>4. Rooted(nodes, o \o line, q)
        BY <4>1, <4>2, <4>3, RootedStays
      <4>5. QED
        BY <4>4 DEF u
    <3>2. CASE q > Len(o) + 1
      <4> DEFINE k == q - Len(o)
      <4>1. k \in 2..Len(line) /\ u[q] = line[k] /\ q \in Nat /\ k - 1 \in 1..Len(line)
            /\ q - 1 = Len(o) + (k - 1) /\ q - 1 \in 1..Len(u) /\ q - 1 < q
        <5>1. q \in Nat /\ q > Len(o)
          BY <2>l, <3>2
        <5>2. k \in 1..Len(line) /\ u[q] = line[k]
          BY <2>3, <5>1
        <5>3. k \in 2..Len(line) /\ k - 1 \in 1..Len(line)
          BY <2>l, <3>2, <5>1, <5>2
        <5>4. q - 1 = Len(o) + (k - 1) /\ q - 1 \in 1..Len(u) /\ q - 1 < q
          BY <2>l, <3>2, <5>1
        <5>5. QED
          BY <5>1, <5>2, <5>3, <5>4
      <4> HIDE DEF k
      <4>2. Follows(nodes, line, k)
        BY <2>1, <4>1 DEF IsLine
      <4>3. u[q - 1] = line[k - 1]
        BY <2>4, <4>1
      <4>4. nodes[u[q - 1]].ref = ParentIn(nodes, u[q])
        BY <4>1, <4>2, <4>3 DEF Follows
      <4>5. QED
        BY <4>1, <4>4 DEF Rooted
    <3>3. CASE q = Len(o) + 1
      <4> DEFINE p == ParentIn(nodes, u[q])
      <4>1. u[q] = line[1] /\ 1 \in 1..Len(line)
        <5> DEFINE k == 1
        <5>1. k \in 1..Len(line) /\ q = Len(o) + k
          BY <2>2, <3>3
        <5> HIDE DEF k
        <5>2. u[Len(o) + k] = line[k]
          BY <2>4, <5>1
        <5>3. QED
          BY <5>1, <5>2 DEF k
      <4>2. p = NoParent \/ p \in out \/ p \in {nodes[line[k]].ref : k \in 1..Len(line)}
        BY <2>1, <4>1 DEF Stops
      <4>3. CASE p = NoParent
        BY <4>3 DEF Rooted
      <4>4. CASE p \in out
        <5>1. PICK k \in 1..Len(o) : nodes[o[k]].ref = p
          BY <4>4 DEF out, RefsOf
        <5>2. k \in 1..Len(u) /\ k < q /\ u[k] = o[k]
          BY <1>1, <2>2, <2>3, <3>3
        <5>3. QED
          BY <5>1, <5>2 DEF Rooted
      <4>5. CASE p # NoParent /\ p \in {nodes[line[k]].ref : k \in 1..Len(line)}
        <5>1. PICK k \in 1..Len(line) : nodes[line[k]].ref = p
          BY <4>5
        <5>2. k # 1
          <6>1. u[q] \in 1..Len(nodes)
            <7>1. u[q] \in D
              BY <2>3
            <7>2. QED
              BY <1>1, <7>1
          <6>2. p # nodes[u[q]].ref
            BY <4>5, <6>1, ParentIs
          <6>3. QED
            BY <4>1, <5>1, <6>2
        <5> DEFINE m == Len(o) + k
        <5>3. m \in 1..Len(u) /\ u[m] = line[k] /\ q < m
          BY <1>1, <2>2, <2>4, <3>3, <5>2
        <5>4. ASSUME NEW x \in 1..Len(u), q < x, x <= m PROVE Follows(nodes, u, x)
          <6> DEFINE y == x - Len(o)
          <6>1. /\ y \in 2..Len(line) /\ y - 1 \in 1..Len(line) /\ u[x] = line[y]
                /\ x - 1 = Len(o) + (y - 1)
            <7>1. x \in Nat /\ x > Len(o) + 1 /\ x \in 1..Len(u)
              BY <1>1, <2>2, <2>3, <3>3, <5>4
            <7>2. y = x - Len(o)
              OBVIOUS
            <7> HIDE DEF y
            <7>3. y \in 1..Len(line) /\ u[x] = line[y]
              <8>1. x \in 1..Len(u) /\ x > Len(o)
                BY <1>1, <7>1
              <8>2. QED
                BY <2>3, <7>2, <8>1
            <7>4. y \in 2..Len(line) /\ y - 1 \in 1..Len(line) /\ x - 1 = Len(o) + (y - 1)
              <8>1. y \in Int /\ y > 1 /\ y <= Len(line) /\ Len(line) \in Nat
                BY <1>1, <2>2, <7>1, <7>2, <7>3
              <8>2. x - 1 = Len(o) + (y - 1)
                BY <1>1, <7>1, <7>2
              <8>3. QED
                BY <8>1, <8>2
            <7>5. QED
              BY <7>3, <7>4
          <6> HIDE DEF y
          <6>2. u[x - 1] = line[y - 1]
            BY <2>4, <6>1
          <6>3. Follows(nodes, line, y)
            BY <2>1, <6>1 DEF IsLine
          <6>4. QED
            BY <6>1, <6>2, <6>3 DEF Follows
        <5> HIDE DEF m
        <5>5. Circled(nodes, u, q)
          BY <5>1, <5>3, <5>4 DEF Circled
        <5>6. QED
          BY <5>5 DEF Rooted
      <4>6. QED
        BY <4>2, <4>3, <4>4, <4>5
    <3>4. q \in Nat /\ Len(o) \in Nat
      BY <1>1, <2>2, <2>3
    <3>5. q <= Len(o) \/ q > Len(o) + 1 \/ q = Len(o) + 1
      BY <3>4
    <3>6. QED
      BY <3>1, <3>2, <3>3, <3>5
  <2>8. IsOrder(nodes, u, n)
    BY <2>3, <2>5, <2>6, <2>7 DEF IsOrder
  <2>9. QED
    BY <2>8 DEF u, line, out
<1>5. QED
  BY <1>3, <1>4

\* The recursion of Ordered.
IsOrdered(f, nodes) ==
    f = [n \in 0..Len(nodes) |->
           IF n = 0 THEN <<>>
           ELSE IF n \notin Distinct(nodes) THEN f[n - 1]
           ELSE f[n - 1] \o Visit(nodes, n, RefsOf(nodes, f[n - 1]))]

LEMMA OrderedIs ==
    ASSUME NEW nodes \in Listings
    PROVE  IsOrder(nodes, Ordered(nodes), Len(nodes))
<1> DEFINE h == Len(nodes)
           D == Distinct(nodes)
           S == {o \in Seq(D) : \E n \in 0..h : IsOrder(nodes, o, n)}
           further(n, o) == o \o Visit(nodes, n, RefsOf(nodes, o))
           g == [p \in (1..h) \X Seq(D) |-> IF p[1] \notin D THEN p[2] ELSE further(p[1], p[2])]
           first == <<>>
           f == CHOOSE v : IsOrdered(v, nodes)
<1>1. Ordered(nodes) = f[h]
  BY DEF Ordered, IsOrdered, RefsOf
<1>2. h \in Nat /\ D \in SUBSET (1..h) /\ first \in Seq(D) /\ IsOrder(nodes, first, 0)
  BY ListingHas, EmptyOrder
<1>3. ASSUME NEW n \in D, NEW o \in Seq(D) PROVE further(n, o) \in Seq(D)
  <2> DEFINE out == RefsOf(nodes, o)
             line == Visit(nodes, n, out)
  <2>1. line \in Seq(D)
    <3>1. CASE nodes[n].ref \in out
      <4>1. line = <<>>
        BY <3>1 DEF Visit
      <4>2. QED
        BY <4>1
    <3>2. CASE nodes[n].ref \notin out
      <4> HIDE DEF out
      <4>1. IsLine(nodes, line, n, out)
        BY <3>2, VisitIs
      <4>2. QED
        BY <4>1 DEF IsLine
    <3>3. QED
      BY <3>1, <3>2
  <2> HIDE DEF line, D
  <2>2. o \o line \in Seq(D)
    BY <2>1
  <2>3. QED
    BY <2>2 DEF line
<1>4. ASSUME NEW n \in D, NEW o, IsOrder(nodes, o, n - 1) PROVE IsOrder(nodes, further(n, o), n)
  BY <1>4, OrderGoesOn
<1>5. ASSUME NEW n \in 1..h, n \notin D, NEW o, IsOrder(nodes, o, n - 1) PROVE IsOrder(nodes, o, n)
  <2>1. \A i \in D : i <= n => i <= n - 1
    BY <1>2, <1>5
  <2>2. QED
    BY <1>5, <2>1 DEF IsOrder
<1> DEFINE T == Seq(D)
<1> HIDE DEF D, further, first, h
<1>6. g \in StepsOn(T, h) /\ \A n \in 1..h, o \in T :
         g[<<n, o>>] = IF n \notin D THEN o ELSE further(n, o)
  <2>1. \A p \in (1..h) \X T : (IF p[1] \notin D THEN p[2] ELSE further(p[1], p[2])) \in T
    BY <1>3
  <2>2. QED
    BY <2>1 DEF StepsOn
<1>7. first \in T
  BY <1>2
<1> HIDE DEF g, T
<1>8. IsOrdered(f, nodes)
  <2>1. PICK v : IsCourse(v, g, T, first, h)
    BY <1>2, <1>6, <1>7, CourseExists
  <2>2. \A n \in 0..h : v[n] \in T
    BY <2>1 DEF IsCourse
  <2>3. ASSUME NEW n \in 0..h
        PROVE  v[n] = IF n = 0 THEN first
                      ELSE IF n \notin D THEN v[n - 1] ELSE further(n, v[n - 1])
    <3>1. CASE n = 0
      BY <2>1, <3>1 DEF IsCourse
    <3>2. CASE n # 0
      <4>1. n \in 1..h /\ n - 1 \in 0..h
        BY <1>2, <3>2
      <4>2. v[n] = g[<<n, v[n - 1]>>] /\ v[n - 1] \in T
        BY <2>1, <2>2, <4>1 DEF IsCourse
      <4>3. QED
        BY <1>6, <3>2, <4>1, <4>2
    <3>3. QED
      BY <3>1, <3>2
  <2>4. v = [n \in 0..h |-> v[n]]
    BY <2>1 DEF IsCourse
  <2>5. v = [n \in 0..h |-> IF n = 0 THEN first
                            ELSE IF n \notin D THEN v[n - 1] ELSE further(n, v[n - 1])]
    BY <2>3, <2>4
  <2>6. IsOrdered(v, nodes)
    BY <2>5 DEF IsOrdered, h, first, D, further
  <2>7. QED
    BY <2>6
<1> HIDE DEF f
<1>9. \A n \in 0..h : f[n] = IF n = 0 THEN first
                             ELSE IF n \notin D THEN f[n - 1] ELSE further(n, f[n - 1])
  BY <1>8 DEF IsOrdered, h, first, D, further
<1>10. /\ f[0] = first
       /\ \A n \in 1..h : f[n] = IF n \notin D THEN f[n - 1] ELSE further(n, f[n - 1])
  <2> DEFINE next(n) == IF n \notin D THEN f[n - 1] ELSE further(n, f[n - 1])
             places == 0..h
  <2>1. \A n \in places : f[n] = IF n = 0 THEN first ELSE next(n)
    BY <1>9
  <2>2. 0 \in places /\ \A n \in 1..h : n \in places /\ n # 0
    BY <1>2
  <2> HIDE DEF next, places
  <2>3. f[0] = first /\ \A n \in 1..h : f[n] = next(n)
    BY <2>1, <2>2
  <2>4. QED
    BY <2>3 DEF next
<1> DEFINE Bad == {n \in Nat : n <= h /\ ~ IsOrder(nodes, f[n], n)}
<1>11. Bad = {}
  <2> SUFFICES ASSUME Bad # {} PROVE FALSE
    OBVIOUS
  <2>1. PICK n \in Bad : \A k \in Bad : n <= k
    BY LeastExists
  <2>2. n \in Nat /\ n <= h /\ ~ IsOrder(nodes, f[n], n)
    BY <2>1
  <2>3. n # 0
    BY <1>2, <1>10, <2>2
  <2>4. n \in 1..h /\ n - 1 \in Nat /\ n - 1 <= h /\ ~ (n <= n - 1)
    BY <1>2, <2>2, <2>3
  <2> DEFINE was == f[n - 1]
  <2>5. IsOrder(nodes, was, n - 1)
    BY <2>1, <2>4
  <2>6. f[n] = IF n \notin D THEN was ELSE further(n, was)
    BY <1>10, <2>4
  <2> HIDE DEF was, Bad
  <2>7. CASE n \in D
    <3>1. IsOrder(nodes, further(n, was), n)
      BY <1>4, <2>5, <2>7
    <3>2. QED
      BY <2>2, <2>6, <2>7, <3>1
  <2>8. CASE n \notin D
    <3>1. IsOrder(nodes, was, n)
      BY <1>5, <2>4, <2>5, <2>8
    <3>2. QED
      BY <2>2, <2>6, <2>8, <3>1
  <2>9. QED
    BY <2>7, <2>8
<1>12. IsOrder(nodes, f[h], h)
  BY <1>2, <1>11
<1>13. QED
  BY <1>1, <1>12 DEF h

-----------------------------------------------------------------------------
\* The documents of a plan of some nodes.
DocumentsOf(nodes) ==
    LET o == Ordered(nodes) IN
    [n \in 1..Len(o) |-> [ref |-> nodes[o[n]].ref, node |-> o[n],
                           parent |-> ParentIn(nodes, o[n])]]

\* The inductive invariant.
PlanInv ==
    /\ given \in Listings /\ plan.built \in BOOLEAN
    /\ plan.built => /\ plan.documents = DocumentsOf(given)
                     /\ plan.edges = EdgesKept(plan.documents)

LEMMA PlanStarts == PlanInit => PlanInv
  BY DEF PlanInit, PlanInv, NoPlan, Listings

LEMMA PlanSteps == PlanInv /\ [PlanNext]_planVars => PlanInv'
<1> SUFFICES ASSUME PlanInv, [PlanNext]_planVars PROVE PlanInv'
  OBVIOUS
<1>1. CASE BuildPlan
  <2> DEFINE docs == DocumentsOf(given)
  <2>1. plan' = [built |-> TRUE, documents |-> docs, edges |-> EdgesKept(docs)] /\ given' = given
    BY <1>1 DEF BuildPlan, DocumentsOf
  <2> HIDE DEF docs
  <2>2. plan'.built = TRUE /\ plan'.documents = docs /\ plan'.edges = EdgesKept(docs)
    BY <2>1
  <2>3. docs = DocumentsOf(given')
    BY <2>1 DEF docs
  <2>4. EdgesKept(plan'.documents) = plan'.edges
    BY <2>2
  <2>5. QED
    BY <2>1, <2>2, <2>3, <2>4 DEF PlanInv
<1>2. CASE UNCHANGED planVars
  BY <1>2 DEF planVars, PlanInv
<1>3. QED
  BY <1>1, <1>2 DEF PlanNext

\* The documents of a plan: each of its own node, in an order.
LEMMA DocumentsAre ==
    ASSUME NEW nodes \in Listings, NEW o, o = Ordered(nodes), NEW docs, docs = DocumentsOf(nodes)
    PROVE  /\ IsOrder(nodes, o, Len(nodes)) /\ Len(docs) = Len(o) /\ Len(o) \in Nat
           /\ \A n \in 1..Len(o) : /\ o[n] \in Distinct(nodes) /\ docs[n].ref = nodes[o[n]].ref
                                   /\ docs[n].node = o[n] /\ docs[n].parent = ParentIn(nodes, o[n])
           /\ \A m, n \in 1..Len(o) : docs[m].ref = docs[n].ref => m = n
           /\ \A n \in 1..Len(o) : docs[n].ref # NoParent
<1>1. IsOrder(nodes, o, Len(nodes))
  BY OrderedIs
<1>2. o \in Seq(Distinct(nodes)) /\ Len(o) \in Nat /\ Once(o)
  BY <1>1 DEF IsOrder
<1>3. docs = [n \in 1..Len(o) |-> [ref |-> nodes[o[n]].ref, node |-> o[n],
                                   parent |-> ParentIn(nodes, o[n])]]
  BY DEF DocumentsOf
<1>4. Len(docs) = Len(o)
  BY <1>2, <1>3
<1>5. \A n \in 1..Len(o) : /\ o[n] \in Distinct(nodes) /\ docs[n].ref = nodes[o[n]].ref
                           /\ docs[n].node = o[n] /\ docs[n].parent = ParentIn(nodes, o[n])
  BY <1>2, <1>3
<1>6. ASSUME NEW m \in 1..Len(o), NEW n \in 1..Len(o), docs[m].ref = docs[n].ref PROVE m = n
  <2>1. o[m] \in Distinct(nodes) /\ o[n] \in Distinct(nodes) /\ nodes[o[m]].ref = nodes[o[n]].ref
    BY <1>5, <1>6
  <2>2. o[m] = o[n]
    BY <2>1, OnePerRef
  <2>3. QED
    BY <1>2, <2>2 DEF Once
<1>7. \A n \in 1..Len(o) : docs[n].ref # NoParent
  <2>1. ASSUME NEW n \in 1..Len(o) PROVE docs[n].ref # NoParent
    <3>1. o[n] \in 1..Len(nodes)
      BY <1>5, ListingHas
    <3>2. nodes[o[n]] \in Nodes
      BY <3>1, ListingHas
    <3>3. QED
      BY <1>5, <3>2, PlanAssumption DEF Nodes
  <2>2. QED
    BY <2>1
<1>8. QED
  BY <1>1, <1>2, <1>4, <1>5, <1>6, <1>7

LEMMA PlansAreOnce == PlanInv => EachOnce
<1> SUFFICES ASSUME PlanInv, plan.built PROVE EachOnce
  BY DEF EachOnce
<1> DEFINE nodes == given
           o == Ordered(given)
           docs == plan.documents
           refs == {docs[n].ref : n \in 1..Len(docs)}
           A == 1..Len(docs)
           f == [n \in A |-> docs[n].ref]
<1>1. nodes \in Listings /\ docs = DocumentsOf(nodes) /\ plan.edges = EdgesKept(docs)
  BY DEF PlanInv
<1>2. /\ IsOrder(nodes, o, Len(nodes)) /\ Len(docs) = Len(o) /\ Len(docs) \in Nat
      /\ \A n \in A : /\ o[n] \in Distinct(nodes) /\ docs[n].ref = nodes[o[n]].ref
                      /\ docs[n].node = o[n]
      /\ \A m, n \in A : docs[m].ref = docs[n].ref => m = n
  <2> HIDE DEF docs
  <2>1. QED
    BY <1>1, DocumentsAre
<1> HIDE DEF docs, o, nodes
<1>3. refs = {nodes[i].ref : i \in {j \in DOMAIN nodes : nodes[j].valid}}
  <2>1. ASSUME NEW n \in A
        PROVE  docs[n].ref \in {nodes[i].ref : i \in {j \in DOMAIN nodes : nodes[j].valid}}
    <3>1. o[n] \in DOMAIN nodes /\ nodes[o[n]].valid /\ docs[n].ref = nodes[o[n]].ref
      BY <1>2 DEF Distinct
    <3>2. QED
      BY <3>1
  <2>2. ASSUME NEW i \in DOMAIN nodes, nodes[i].valid PROVE nodes[i].ref \in refs
    <3>1. PICK j \in Distinct(nodes) : nodes[j].ref = nodes[i].ref
      BY <1>1, <2>2, FirstOfRef
    <3>2. j \in Nat /\ Len(nodes) \in Nat /\ j <= Len(nodes)
      BY <1>1, ListingHas
    <3>3. j \in Elems(o)
      BY <1>2, <3>2 DEF IsOrder
    <3>4. PICK n \in A : o[n] = j
      BY <1>2, <3>3 DEF Elems
    <3>5. docs[n].ref = nodes[i].ref
      BY <1>2, <3>1, <3>4
    <3>6. QED
      BY <3>5
  <2>3. QED
    BY <2>1, <2>2
<1>4. Cardinality(refs) = Len(docs)
  <2>1. IsFiniteSet(A) /\ Cardinality(A) = Len(docs)
    <3> DEFINE h == Len(docs)
    <3>1. h \in Nat
      BY <1>2
    <3> HIDE DEF h
    <3>2. IsFiniteSet(1..h) /\ Cardinality(1..h) = h
      BY <3>1, FS_Interval
    <3>3. QED
      BY <3>2 DEF h
  <2>2. f \in Surjection(A, refs) /\ f \in Injection(A, refs)
    <3>1. f \in [A -> refs]
      OBVIOUS
    <3>2. \A r \in refs : \E n \in A : f[n] = r
      OBVIOUS
    <3>3. \A m, n \in A : f[m] = f[n] => m = n
      BY <1>2
    <3> HIDE DEF f, A, refs
    <3>4. QED
      BY <3>1, <3>2, <3>3 DEF Surjection, Injection, IsInjective
  <2> HIDE DEF f, A, refs
  <2>3. Cardinality(refs) = Cardinality(A)
    BY <2>1, <2>2, FS_Surjection
  <2>4. QED
    BY <2>1, <2>3
<1>5. ASSUME NEW n \in A, NEW i \in 1..(docs[n].node - 1), nodes[i].valid
      PROVE  nodes[i].ref # docs[n].ref
  <2>1. docs[n].node = o[n] /\ o[n] \in Distinct(nodes) /\ docs[n].ref = nodes[o[n]].ref
    BY <1>2
  <2>2. Len(nodes) \in Nat /\ DOMAIN nodes = 1..Len(nodes) /\ o[n] \in 1..Len(nodes)
    BY <1>1, <2>1, ListingHas
  <2>3. i \in DOMAIN nodes /\ i < o[n]
    BY <2>1, <2>2
  <2>4. QED
    BY <1>5, <2>1, <2>3 DEF Distinct
<1>6. \A e \in plan.edges : e[1] \in refs /\ e[2] \in refs
  BY <1>1 DEF EdgesKept
<1>7. QED
  BY <1>3, <1>4, <1>5, <1>6 DEF EachOnce, docs, nodes

\* A document follows its parent, unless its circle begins with it.
LEMMA ParentsComeFirst == PlanInv => ParentsFirst
<1> SUFFICES ASSUME PlanInv, plan.built PROVE ParentsFirst
  BY DEF ParentsFirst
<1> DEFINE nodes == given
           o == Ordered(given)
           docs == plan.documents
           A == 1..Len(docs)
           refs == {docs[n].ref : n \in A}
           Place(r) == CHOOSE n \in A : docs[n].ref = r
           Closed(S) == \A n \in A : docs[n].ref \in S /\ docs[n].parent # NoParent
                                        => docs[n].parent \in S
           Over(n) == {r \in refs : \A S \in SUBSET refs :
                            docs[n].parent \in S /\ Closed(S) => r \in S}
           early == {n \in A : docs[n].parent # NoParent /\ Place(docs[n].parent) > n}
<1>1. nodes \in Listings /\ docs = DocumentsOf(nodes)
  BY DEF PlanInv
<1>2. /\ IsOrder(nodes, o, Len(nodes)) /\ Len(docs) = Len(o) /\ Len(docs) \in Nat
      /\ \A n \in A : /\ o[n] \in Distinct(nodes) /\ docs[n].ref = nodes[o[n]].ref
                      /\ docs[n].parent = ParentIn(nodes, o[n])
      /\ \A m, n \in A : docs[m].ref = docs[n].ref => m = n
      /\ \A n \in A : docs[n].ref # NoParent
  <2> HIDE DEF docs
  <2>1. QED
    BY <1>1, DocumentsAre
<1> HIDE DEF docs, o, nodes
<1>3. \A n \in A : Place(docs[n].ref) = n
  BY <1>2
<1> HIDE DEF Place
<1> DEFINE Circle(n, m) ==
             /\ n < m /\ docs[m].ref = docs[n].parent
             /\ \A x \in A : n < x /\ x <= m => docs[x].parent = docs[x - 1].ref
<1>4. ASSUME NEW n \in early PROVE \E m \in A : Circle(n, m)
  <2>1. n \in A /\ docs[n].parent # NoParent /\ Place(docs[n].parent) > n
    OBVIOUS
  <2>2. Rooted(nodes, o, n) /\ ParentIn(nodes, o[n]) = docs[n].parent
    BY <1>2, <2>1 DEF IsOrder
  <2>3. ~ \E p \in 1..Len(o) : p < n /\ nodes[o[p]].ref = ParentIn(nodes, o[n])
    <3> SUFFICES ASSUME NEW p \in A, p < n, docs[p].ref = docs[n].parent PROVE FALSE
      BY <1>2, <2>2
    <3>1. Place(docs[n].parent) = p
      BY <1>3
    <3>2. QED
      BY <2>1, <3>1
  <2>4. Circled(nodes, o, n)
    BY <2>1, <2>2, <2>3 DEF Rooted
  <2>5. PICK m \in A : /\ n < m /\ nodes[o[m]].ref = docs[n].parent
                       /\ \A x \in A : n < x /\ x <= m => Follows(nodes, o, x)
    BY <1>2, <2>2, <2>4 DEF Circled
  <2>6. ASSUME NEW x \in A, n < x, x <= m PROVE docs[x].parent = docs[x - 1].ref
    <3>1. x - 1 \in A
      BY <1>2, <2>1, <2>6
    <3>2. nodes[o[x - 1]].ref = ParentIn(nodes, o[x])
      BY <2>5, <2>6 DEF Follows
    <3>3. QED
      BY <1>2, <3>1, <3>2
  <2>7. docs[m].ref = docs[n].parent
    BY <1>2, <2>5
  <2>8. Circle(n, m)
    BY <2>5, <2>6, <2>7
  <2>9. QED
    BY <2>8
<1>5. ASSUME NEW n \in early PROVE docs[n].ref \in Over(n)
  <2>1. PICK m \in A : Circle(n, m)
    BY <1>4
  <2>2. n \in A /\ n \in Nat /\ m \in Nat
    BY <1>2
  <2>3. ASSUME NEW S \in SUBSET refs, docs[n].parent \in S, Closed(S) PROVE docs[n].ref \in S
    <3> DEFINE T == {k \in Nat : k <= m - n /\ docs[m - k].ref \notin S}
    <3>1. T = {}
      <4> SUFFICES ASSUME T # {} PROVE FALSE
        OBVIOUS
      <4>1. PICK k \in T : \A j \in T : k <= j
        BY LeastExists
      <4>2. k \in Nat /\ k <= m - n /\ docs[m - k].ref \notin S
        BY <4>1
      <4>3. k # 0
        <5>1. docs[m].ref \in S
          BY <2>1, <2>3
        <5>2. m - 0 = m
          BY <2>2
        <5>3. QED
          BY <4>2, <5>1, <5>2
      <4> DEFINE x == (m - k) + 1
      <4>4. /\ k - 1 \in Nat /\ k - 1 <= m - n /\ ~ (k <= k - 1) /\ m - (k - 1) = x
            /\ x \in A /\ n < x /\ x <= m /\ x - 1 = m - k
        BY <1>2, <2>2, <4>2, <4>3
      <4> HIDE DEF x
      <4>5. docs[x].ref \in S
        BY <4>1, <4>4
      <4>6. docs[x].parent = docs[x - 1].ref
        BY <2>1, <4>4
      <4>7. x - 1 \in A
        BY <1>2, <2>2, <4>4
      <4>8. docs[x].parent # NoParent
        BY <1>2, <4>6, <4>7
      <4>9. docs[x].parent \in S
        BY <2>3, <4>4, <4>5, <4>8
      <4>10. QED
        BY <4>2, <4>4, <4>6, <4>9
    <3>2. m - n \in Nat /\ m - n <= m - n /\ m - (m - n) = n
      BY <2>1, <2>2
    <3> DEFINE d == m - n
    <3>3. d \notin T
      BY <3>1
    <3>4. d \in Nat /\ d <= m - n /\ m - d = n
      BY <3>2
    <3> HIDE DEF d
    <3>5. docs[m - d].ref \in S
      BY <3>3, <3>4
    <3>6. QED
      BY <3>4, <3>5
  <2>4. docs[n].ref \in refs
    BY <2>2
  <2> HIDE DEF Closed, refs
  <2>5. QED
    BY <2>3, <2>4
<1>6. ASSUME NEW k \in early, NEW n \in early, k # n PROVE docs[k].ref \notin Over(n)
  <2>1. PICK m \in A : Circle(n, m)
    BY <1>4
  <2>2. n \in A /\ k \in A /\ n \in Nat /\ m \in Nat /\ k \in Nat
    BY <1>2
  <2> DEFINE S == {docs[x].ref : x \in {y \in A : n <= y /\ y <= m}}
  <2>3. S \in SUBSET refs
    OBVIOUS
  <2>4. docs[n].parent \in S
    <3>1. docs[n].parent = docs[m].ref /\ n <= m /\ m <= m
      BY <2>1, <2>2
    <3>2. QED
      BY <3>1
  <2>5. ASSUME NEW j \in A, docs[j].ref \in S PROVE n <= j /\ j <= m
    <3>1. PICK x \in A : n <= x /\ x <= m /\ docs[j].ref = docs[x].ref
      BY <2>5
    <3>2. j = x
      BY <1>2, <3>1
    <3>3. QED
      BY <3>1, <3>2
  <2>6. ASSUME NEW j \in A, n < j, j <= m
        PROVE  j - 1 \in A /\ n <= j - 1 /\ j - 1 <= m /\ docs[j].parent = docs[j - 1].ref
    <3>1. j - 1 \in A /\ n <= j - 1 /\ j - 1 <= m
      BY <1>2, <2>2, <2>6
    <3>2. QED
      BY <2>1, <2>6, <3>1
  <2>7. Closed(S)
    <3>1. ASSUME NEW j \in A, docs[j].ref \in S PROVE docs[j].parent \in S
      <4>1. n <= j /\ j <= m /\ j \in Nat
        BY <1>2, <2>5, <3>1
      <4>2. CASE j = n
        BY <2>4, <4>2
      <4>3. CASE j # n
        <5>1. n < j
          BY <2>2, <4>1, <4>3
        <5>2. j - 1 \in A /\ n <= j - 1 /\ j - 1 <= m /\ docs[j].parent = docs[j - 1].ref
          BY <2>6, <4>1, <5>1
        <5>3. QED
          BY <5>2
      <4>4. QED
        BY <4>2, <4>3
    <3> HIDE DEF S
    <3>2. QED
      BY <3>1
  <2>8. docs[k].ref \notin S
    <3> SUFFICES ASSUME docs[k].ref \in S PROVE FALSE
      OBVIOUS
    <3>1. n <= k /\ k <= m
      BY <2>2, <2>5
    <3>2. n < k
      BY <1>6, <2>2, <3>1
    <3>3. k - 1 \in A /\ docs[k].parent = docs[k - 1].ref
      BY <2>2, <2>6, <3>1, <3>2
    <3>4. Place(docs[k].parent) = k - 1
      BY <1>3, <3>3
    <3>5. Place(docs[k].parent) > k
      OBVIOUS
    <3>6. QED
      BY <2>2, <3>4, <3>5
  <2> HIDE DEF S, Closed, refs
  <2>9. QED
    BY <2>3, <2>4, <2>7, <2>8
<1> HIDE DEF early, Over
<1>7. (\A n \in early : docs[n].ref \in Over(n))
      /\ \A m, n \in early : m # n => docs[m].ref \notin Over(n)
  BY <1>5, <1>6
<1>8. QED
  BY <1>7 DEF ParentsFirst, early, Over, Closed, Place, refs, docs

\* For any nodes, whatever they say of their parents: a plan makes each document once, as
\* it was first said, and parents first, but for one document of a circle of parents.
THEOREM PlanIsExact == PlanSpec => [](EachOnce /\ ParentsFirst)
<1>1. PlanInv => EachOnce /\ ParentsFirst
  BY PlansAreOnce, ParentsComeFirst
<1>2. QED
  BY <1>1, PlanStarts, PlanSteps, PTL DEF PlanSpec
=============================================================================
