--------------------------- MODULE OpenFilesProofs ---------------------------
(***************************************************************************)
(* Theorems about open files: their position and bytes (FileCursor) and    *)
(* their directory entries (DirHandles), for volumes, files, programs and  *)
(* buffers of any size.                                                    *)
(***************************************************************************)
EXTENDS DirHandles, FileCursor, FiniteSetTheorems, SequenceTheorems, NaturalsInduction, TLAPS

-----------------------------------------------------------------------------
(* Lemmas about numbers.                                                   *)

\* A set of numbers has a least one.
LEMMA LeastOf ==
  ASSUME NEW S \in SUBSET Nat, S # {}
  PROVE  \E x \in S : \A y \in S : x <= y
  <1> DEFINE Less == OpToRel(<, Nat)
  <1>1. IsWellFoundedOn(Less, Nat)
    BY NatLessThanWellFounded
  <1>2. \A x, y \in Nat : y < x => <<y, x>> \in Less
    BY DEF OpToRel
  <1> HIDE DEF Less
  <1>3. PICK x \in S : \A y \in S : <<y, x>> \notin Less
    BY <1>1, WFMin
  <1>4. ASSUME NEW y \in S PROVE x <= y
    <2>1. ~(y < x) /\ x \in Nat /\ y \in Nat
      BY <1>2, <1>3
    <2>2. QED
      BY <2>1
  <1>5. QED
    BY <1>4

\* What holds of 0, and of a number when it holds of the one before, holds of
\* all numbers up to n.
LEMMA UpTo ==
  ASSUME NEW n \in Nat, NEW Good, 0 \in Good,
         \A i \in 1 .. n : i - 1 \in Good => i \in Good
  PROVE  \A i \in 0 .. n : i \in Good
  <1> DEFINE Bad == {i \in 0 .. n : i \notin Good}
  <1> SUFFICES ASSUME Bad # {} PROVE FALSE
    OBVIOUS
  <1>0. Bad \in SUBSET Nat
    OBVIOUS
  <1> HIDE DEF Bad
  <1>1. PICK m \in Bad : \A k \in Bad : m <= k
    BY <1>0, LeastOf
  <1> USE DEF Bad
  <1>2. m \in 1 .. n /\ m - 1 \notin Bad
    BY <1>1
  <1>3. QED
    BY <1>1, <1>2

-----------------------------------------------------------------------------
(* Chains of the table.                                                    *)

\* The m clusters of the list L are a chain of table t: different, each linked
\* to the next, the last one ending it.
Listed(L, m) ==
  /\ m \in Nat /\ L \in [0 .. m - 1 -> Clusters]
  /\ \A i, j \in 0 .. m - 1 : L[i] = L[j] => i = j
Chain(t, L, m) ==
  /\ Listed(L, m)
  /\ \A i \in 0 .. m - 1 : t[L[i]] = IF i = m - 1 THEN EOC ELSE L[i + 1]
Members(L, k, m) == {L[i] : i \in k .. m - 1}
FirstOf(L, m) == IF m = 0 THEN None ELSE L[0]

LEMMA ClusterNumbers ==
  ASSUME Total \in Nat
  PROVE  Clusters \subseteq Nat /\ None \notin Clusters /\ Free \notin Clusters /\ EOC \notin Clusters
  BY DEF Clusters, Reserved, None, Free, EOC

LEMMA NextOfChain ==
  ASSUME Total \in Nat, NEW t, NEW L, NEW m, Chain(t, L, m), NEW i \in 0 .. m - 1
  PROVE  /\ NextIn(t, L[i]) = IF i + 1 < m THEN L[i + 1] ELSE None
         /\ L[i] \in Clusters /\ L[i] # None /\ t[L[i]] # Free
  <1>1. L[i] \in Clusters /\ (i # m - 1 => L[i + 1] \in Clusters)
    BY DEF Chain, Listed
  <1>2. QED
    BY <1>1, ClusterNumbers DEF Chain, Listed, NextIn, Free, EOC, Clusters, Reserved

\* The values a walk goes through.
IsWalk(t, c, n, f) ==
  f = [i \in 0 .. n |->
         IF i = 0 THEN c ELSE IF f[i - 1] = None THEN None ELSE NextIn(t, f[i - 1])]

LEMMA WalkIs ==
  ASSUME NEW t, NEW c, NEW n \in Nat, NEW g, IsWalk(t, c, n, g)
  PROVE  Walk(t, c, n) = g[n]
  <1> DEFINE at == CHOOSE f : IsWalk(t, c, n, f)
             Good == {i \in 0 .. n : at[i] = g[i]}
  <1>1. Walk(t, c, n) = at[n]
    BY DEF Walk, IsWalk
  <1>2. IsWalk(t, c, n, at)
    OBVIOUS
  <1> HIDE DEF at
  <1>3. 0 \in Good
    BY <1>2 DEF IsWalk
  <1>4. ASSUME NEW i \in 1 .. n, i - 1 \in Good PROVE i \in Good
    <2>1. i \in 0 .. n /\ i # 0 /\ at[i - 1] = g[i - 1]
      BY <1>4
    <2>2. at[i] = g[i]
      BY <2>1, <1>2 DEF IsWalk
    <2>3. QED
      BY <2>1, <2>2
  <1> HIDE DEF Good
  <1>5. n \in Good
    BY <1>3, <1>4, UpTo
  <1>6. QED
    BY <1>1, <1>5 DEF Good

\* A walk along a chain.
LEMMA WalkOfChain ==
  ASSUME Total \in Nat, NEW t, NEW L, NEW m, Chain(t, L, m), NEW k \in 0 .. m - 1, NEW n \in Nat
  PROVE  Walk(t, L[k], n) = IF k + n < m THEN L[k + n] ELSE None
  <1> DEFINE g == [i \in 0 .. n |-> IF k + i < m THEN L[k + i] ELSE None]
  <1>1. m \in Nat
    BY DEF Chain, Listed
  <1>2. ASSUME NEW i \in 1 .. n
        PROVE  g[i] = IF g[i - 1] = None THEN None ELSE NextIn(t, g[i - 1])
    <2>1. i - 1 \in 0 .. n /\ i \in 0 .. n
      OBVIOUS
    <2>2. CASE k + i - 1 < m
      <3>1. k + (i - 1) \in 0 .. m - 1
        BY <2>2, <1>1
      <3>2. g[i - 1] = L[k + (i - 1)]
        BY <2>1, <2>2
      <3>3. g[i - 1] # None /\ NextIn(t, g[i - 1]) = IF k + i < m THEN L[k + i] ELSE None
        BY <3>1, <3>2, NextOfChain
      <3>4. QED
        BY <2>1, <3>3
    <2>3. CASE ~(k + i - 1 < m)
      BY <2>1, <2>3, <1>1
    <2>4. QED
      BY <2>2, <2>3
  <1>3. g[0] = L[k]
    BY <1>1
  <1>4. IsWalk(t, L[k], n, g)
    <2>1. g = [i \in 0 .. n |-> g[i]]
      OBVIOUS
    <2> HIDE DEF g
    <2>2. ASSUME NEW i \in 0 .. n
          PROVE  g[i] = IF i = 0 THEN L[k]
                        ELSE IF g[i - 1] = None THEN None ELSE NextIn(t, g[i - 1])
      <3>1. i = 0 \/ i \in 1 .. n
        OBVIOUS
      <3>2. QED
        BY <3>1, <1>2, <1>3
    <2>3. QED
      BY <2>1, <2>2 DEF IsWalk
  <1>5. n \in 0 .. n
    OBVIOUS
  <1> HIDE DEF g
  <1>6. Walk(t, L[k], n) = g[n]
    BY <1>4, WalkIs
  <1>7. QED
    BY <1>5, <1>6 DEF g

\* The clusters the iterator has met after each turn.
IsReach(t, c, f) ==
  f = [n \in 0 .. Total |->
         IF n = 0 THEN {c}
         ELSE f[n - 1] \cup ({NextIn(t, x) : x \in f[n - 1]} \ {None})]

LEMMA ReachIs ==
  ASSUME Total \in Nat, NEW t, NEW c, NEW g, IsReach(t, c, g)
  PROVE  ChainFrom(t, c) = g[Total]
  <1> DEFINE reach == CHOOSE f : IsReach(t, c, f)
             Good == {i \in 0 .. Total : reach[i] = g[i]}
  <1>1. ChainFrom(t, c) = reach[Total]
    BY DEF ChainFrom, IsReach
  <1>2. IsReach(t, c, reach)
    OBVIOUS
  <1> HIDE DEF reach
  <1>3. 0 \in Good
    BY <1>2 DEF IsReach
  <1>4. ASSUME NEW i \in 1 .. Total, i - 1 \in Good PROVE i \in Good
    <2>1. i \in 0 .. Total /\ i # 0 /\ reach[i - 1] = g[i - 1]
      BY <1>4
    <2>2. reach[i] = g[i]
      BY <2>1, <1>2 DEF IsReach
    <2>3. QED
      BY <2>1, <2>2
  <1> HIDE DEF Good
  <1>5. Total \in Good
    BY <1>3, <1>4, UpTo
  <1>6. QED
    BY <1>1, <1>5 DEF Good

\* A chain has no more clusters than the volume.
LEMMA ChainLength ==
  ASSUME Total \in Nat, NEW L, NEW m, Listed(L, m)
  PROVE  m <= Total
  <1>1. m \in Nat
    BY DEF Listed
  <1>2. IsFiniteSet(Clusters) /\ Cardinality(Clusters) = Total
    BY FS_Interval DEF Clusters, Reserved
  <1>3. IsFiniteSet(0 .. m - 1) /\ Cardinality(0 .. m - 1) = m
    BY <1>1, FS_Interval
  <1>4. L \in Injection(0 .. m - 1, Clusters)
    BY DEF Listed, Injection, IsInjective
  <1>5. QED
    BY <1>2, <1>3, <1>4, FS_Injection

\* The number of clusters of a chain from the k-th on.
LEMMA MembersCount ==
  ASSUME Total \in Nat, NEW L, NEW m, Listed(L, m), NEW k \in 0 .. m
  PROVE  Cardinality(Members(L, k, m)) = m - k
  <1>1. m \in Nat
    BY DEF Listed
  <1>2. IsFiniteSet(k .. m - 1) /\ Cardinality(k .. m - 1) = m - k
    <2>1. k \in Int /\ m - 1 \in Int
      BY <1>1
    <2>2. /\ IsFiniteSet(k .. m - 1)
          /\ Cardinality(k .. m - 1) = IF k > m - 1 THEN 0 ELSE m - 1 - k + 1
      BY <2>1, FS_Interval
    <2>3. QED
      BY <1>1, <2>2
  <1> DEFINE f == [i \in k .. m - 1 |-> L[i]]
  <1>3. f \in Bijection(k .. m - 1, Members(L, k, m))
    <2>1. \A i \in k .. m - 1 : i \in 0 .. m - 1
      BY <1>1
    <2>2. f \in [k .. m - 1 -> Members(L, k, m)]
      BY DEF Members
    <2>3. \A i, j \in k .. m - 1 : f[i] = f[j] => i = j
      BY <2>1 DEF Listed
    <2>4. \A x \in Members(L, k, m) : \E i \in k .. m - 1 : f[i] = x
      BY DEF Members
    <2> HIDE DEF f
    <2>5. QED
      BY <2>2, <2>3, <2>4 DEF Bijection, Injection, Surjection, IsInjective
  <1> HIDE DEF f
  <1>4. QED
    BY <1>2, <1>3, FS_Bijection DEF ExistsBijection

\* What the iterator meets from the k-th cluster of a chain on.
LEMMA ChainFromChain ==
  ASSUME Total \in Nat, NEW t, NEW L, NEW m, Chain(t, L, m), NEW k \in 0 .. m - 1
  PROVE  ChainFrom(t, L[k]) = Members(L, k, m)
  <1> DEFINE Last(n) == IF k + n < m THEN k + n ELSE m - 1
             g == [n \in 0 .. Total |-> {L[i] : i \in k .. Last(n)}]
  <1>1. m \in Nat /\ m <= Total
    BY ChainLength DEF Chain, Listed
  <1>2. g[0] = {L[k]}
    <2>1. k .. Last(0) = {k}
      BY <1>1
    <2>2. QED
      BY <2>1
  <1>3. ASSUME NEW n \in 1 .. Total
        PROVE  g[n] = g[n - 1] \cup ({NextIn(t, x) : x \in g[n - 1]} \ {None})
    <2> DEFINE S == k .. Last(n - 1)
               T == k .. Last(n)
    <2>1. n \in 0 .. Total /\ n - 1 \in 0 .. Total
      OBVIOUS
    <2>2. g[n] = {L[i] : i \in T} /\ g[n - 1] = {L[i] : i \in S}
      BY <2>1
    <2>3. /\ \A i \in S : i \in 0 .. m - 1 /\ i \in T /\ (i + 1 < m => i + 1 \in T)
          /\ \A i \in T : i \in 0 .. m - 1 /\ (i \in S \/ (i - 1 \in S /\ i - 1 + 1 = i))
      BY <1>1
    <2> HIDE DEF S, T, g
    <2>4. ASSUME NEW i \in S
          PROVE  NextIn(t, L[i]) = None \/ NextIn(t, L[i]) \in {L[j] : j \in T}
      BY <2>3, NextOfChain
    <2>5. ASSUME NEW i \in T, i \notin S
          PROVE  L[i] # None /\ L[i] \in {NextIn(t, x) : x \in {L[j] : j \in S}}
      <3>1. i - 1 \in S /\ i - 1 + 1 = i /\ i \in 0 .. m - 1 /\ i - 1 \in 0 .. m - 1
        BY <2>3, <2>5
      <3>2. NextIn(t, L[i - 1]) = L[i] /\ L[i] # None
        BY <3>1, <1>1, NextOfChain
      <3>3. QED
        BY <3>1, <3>2
    <2>6. {L[i] : i \in S} \subseteq {L[i] : i \in T}
      BY <2>3
    <2>7. QED
      BY <2>2, <2>4, <2>5, <2>6
  <1>4. g = [n \in 0 .. Total |-> g[n]]
    OBVIOUS
  <1>5. Total \in 0 .. Total /\ Last(Total) = m - 1
    BY <1>1
  <1>6. g[Total] = Members(L, k, m)
    BY <1>5 DEF Members
  <1> HIDE DEF g
  <1>7. IsReach(t, L[k], g)
    <2>1. ASSUME NEW n \in 0 .. Total
          PROVE  g[n] = IF n = 0 THEN {L[k]}
                        ELSE g[n - 1] \cup ({NextIn(t, x) : x \in g[n - 1]} \ {None})
      <3>1. n = 0 \/ n \in 1 .. Total
        OBVIOUS
      <3>2. QED
        BY <3>1, <1>2, <1>3
    <2>2. QED
      BY <2>1, <1>4 DEF IsReach
  <1>8. QED
    BY <1>6, <1>7, ReachIs

\* Another table with the same links along a chain.
LEMMA SameChain ==
  ASSUME NEW t, NEW u, NEW L, NEW m, Chain(t, L, m), \A i \in 0 .. m - 1 : u[L[i]] = t[L[i]]
  PROVE  Chain(u, L, m)
  BY DEF Chain

LEMMA EmptyChain == ASSUME NEW t PROVE Chain(t, [i \in 0 .. -1 |-> None], 0)
  BY DEF Chain, Listed

\* alloc_cluster: the list with one more cluster.
Longer(L, m, new) == [i \in 0 .. m |-> IF i = m THEN new ELSE L[i]]
LastOf(L, m) == IF m = 0 THEN None ELSE L[m - 1]

LEMMA ExtendedChain ==
  ASSUME Total \in Nat, NEW t, NEW L, NEW m, Chain(t, L, m), NEW new \in FreeIn(t)
  PROVE  /\ Chain(Extended(t, LastOf(L, m), new), Longer(L, m, new), m + 1)
         /\ new \in Clusters /\ new \notin Members(L, 0, m)
         /\ Members(Longer(L, m, new), 0, m + 1) = Members(L, 0, m) \cup {new}
         /\ \A x \in Clusters : x # new /\ x \notin Members(L, 0, m)
                                => Extended(t, LastOf(L, m), new)[x] = t[x]
  <1> DEFINE u == Extended(t, LastOf(L, m), new)
             K == Longer(L, m, new)
  <1>1. m \in Nat /\ L \in [0 .. m - 1 -> Clusters] /\ new \in Clusters /\ t[new] = Free
    BY DEF Chain, Listed, FreeIn
  <1>2. \A i \in 0 .. m - 1 : L[i] # new /\ L[i] \in Clusters
    BY <1>1, NextOfChain
  <1>3. \A i \in 0 .. m : K[i] = IF i = m THEN new ELSE L[i]
    BY DEF Longer
  <1>4. \A x \in Clusters : u[x] = IF x = new THEN EOC ELSE IF x = LastOf(L, m) THEN new ELSE t[x]
    BY DEF Extended
  <1>5. K \in [0 .. m -> Clusters]
    BY <1>1, <1>2 DEF Longer
  <1> HIDE DEF u, K
  <1>6. Listed(K, m + 1)
    <2>1. ASSUME NEW i \in 0 .. m, NEW j \in 0 .. m, K[i] = K[j] PROVE i = j
      BY <2>1, <1>1, <1>2, <1>3 DEF Chain, Listed
    <2>2. 0 .. (m + 1) - 1 = 0 .. m /\ m + 1 \in Nat
      BY <1>1
    <2>3. QED
      BY <2>1, <2>2, <1>5 DEF Listed
  <1>7. ASSUME NEW i \in 0 .. m
        PROVE  u[K[i]] = IF i = m THEN EOC ELSE K[i + 1]
    <2>1. CASE i = m
      BY <2>1, <1>1, <1>3, <1>4
    <2>2. CASE i = m - 1
      <3>1. LastOf(L, m) = L[i] /\ i \in 0 .. m - 1 /\ i + 1 = m /\ i # m /\ m \in 0 .. m
        BY <2>2, <1>1 DEF LastOf
      <3>2. u[L[i]] = new
        BY <3>1, <1>2, <1>4
      <3>3. QED
        BY <3>1, <3>2, <1>3
    <2>3. CASE i < m - 1
      <3>1. i \in 0 .. m - 1 /\ i # m - 1 /\ m - 1 \in 0 .. m - 1 /\ i # m /\ m # 0
            /\ i + 1 \in 0 .. m /\ i + 1 # m
        BY <2>3, <1>1
      <3>2. L[i] # L[m - 1] /\ t[L[i]] = L[i + 1]
        BY <3>1 DEF Chain, Listed
      <3>3. u[L[i]] = L[i + 1]
        BY <3>1, <3>2, <1>2, <1>4 DEF LastOf
      <3>4. QED
        BY <3>1, <3>3, <1>3
    <2>4. QED
      BY <2>1, <2>2, <2>3, <1>1
  <1>8. Chain(u, K, m + 1)
    <2>1. 0 .. (m + 1) - 1 = 0 .. m /\ (m + 1) - 1 = m
      BY <1>1
    <2>2. QED
      BY <2>1, <1>6, <1>7 DEF Chain
  <1>9. new \notin Members(L, 0, m)
    BY <1>2 DEF Members
  <1>10. Members(K, 0, m + 1) = Members(L, 0, m) \cup {new}
    <2>1. 0 .. (m + 1) - 1 = (0 .. m - 1) \cup {m} /\ \A i \in 0 .. m - 1 : i # m /\ i \in 0 .. m
      BY <1>1
    <2>2. m \in 0 .. m
      BY <1>1
    <2>3. QED
      BY <2>1, <2>2, <1>3 DEF Members
  <1>11. ASSUME NEW x \in Clusters, x # new, x \notin Members(L, 0, m) PROVE u[x] = t[x]
    <2>1. x # LastOf(L, m)
      <3>1. CASE m = 0
        BY <3>1, <1>11, ClusterNumbers DEF LastOf
      <3>2. CASE m # 0
        BY <3>2, <1>11, <1>1 DEF LastOf, Members
      <3>3. QED
        BY <3>1, <3>2
    <2>2. QED
      BY <2>1, <1>4, <1>11
  <1>12. QED
    BY <1>1, <1>8, <1>9, <1>10, <1>11 DEF u, K

\* free: all clusters of the chain, and no others.
LEMMA ReleasedChain ==
  ASSUME Total \in Nat, NEW t, NEW L, NEW m, Chain(t, L, m), m # 0
  PROVE  \A x \in Clusters : Released(t, L[0])[x] = IF x \in Members(L, 0, m) THEN Free ELSE t[x]
  <1>1. 0 \in 0 .. m - 1
    BY DEF Chain, Listed
  <1>2. ChainFrom(t, L[0]) = Members(L, 0, m)
    BY <1>1, ChainFromChain
  <1>3. QED
    BY <1>2 DEF Released

\* truncate: the list up to the k-th cluster.
Shorter(L, k) == [i \in 0 .. k |-> L[i]]

LEMMA CutChain ==
  ASSUME Total \in Nat, NEW t, NEW L, NEW m, Chain(t, L, m), NEW k \in 0 .. m - 1
  PROVE  /\ Chain(CutAfter(t, L[k]), Shorter(L, k), k + 1)
         /\ \A x \in Clusters : CutAfter(t, L[k])[x] =
              IF x = L[k] THEN EOC ELSE IF x \in Members(L, k + 1, m) THEN Free ELSE t[x]
         /\ Members(Shorter(L, k), 0, k + 1) = Members(L, 0, k + 1)
         /\ Members(L, 0, m) = Members(L, 0, k + 1) \cup Members(L, k + 1, m)
         /\ Members(L, 0, k + 1) \cap Members(L, k + 1, m) = {}
  <1> DEFINE u == CutAfter(t, L[k])
             K == Shorter(L, k)
  <1>1. m \in Nat /\ L \in [0 .. m - 1 -> Clusters]
    BY DEF Chain, Listed
  <1>2. ASSUME NEW x
        PROVE  (NextIn(t, L[k]) # None /\ x \in ChainFrom(t, NextIn(t, L[k])))
               <=> x \in Members(L, k + 1, m)
    <2>1. CASE k + 1 < m
      <3>1. k + 1 \in 0 .. m - 1
        BY <2>1, <1>1
      <3>2. NextIn(t, L[k]) = L[k + 1] /\ L[k + 1] # None
        BY <2>1, <3>1, NextOfChain
      <3>3. ChainFrom(t, L[k + 1]) = Members(L, k + 1, m)
        BY <3>1, ChainFromChain
      <3>4. QED
        BY <3>2, <3>3
    <2>2. CASE ~(k + 1 < m)
      <3>1. k + 1 .. m - 1 = {}
        BY <2>2, <1>1
      <3>2. NextIn(t, L[k]) = None
        BY <2>2, NextOfChain
      <3>3. QED
        BY <3>1, <3>2 DEF Members
    <2>3. QED
      BY <2>1, <2>2
  <1>3. ASSUME NEW x \in Clusters
        PROVE  u[x] = IF x = L[k] THEN EOC ELSE IF x \in Members(L, k + 1, m) THEN Free ELSE t[x]
    BY <1>2 DEF CutAfter
  <1>4. \A i \in 0 .. k : K[i] = L[i] /\ i \in 0 .. m - 1 /\ K[i] \in Clusters
    BY <1>1 DEF Shorter
  <1>5. K \in [0 .. k -> Clusters]
    BY <1>4 DEF Shorter
  <1>6. 0 .. (k + 1) - 1 = 0 .. k /\ k + 1 \in Nat
    BY <1>1
  <1> HIDE DEF u, K
  <1>7. Members(L, 0, k + 1) \cap Members(L, k + 1, m) = {}
    <2>1. \A i \in 0 .. (k + 1) - 1, j \in k + 1 .. m - 1 :
            i \in 0 .. m - 1 /\ j \in 0 .. m - 1 /\ i # j
      BY <1>1
    <2>2. \A i \in 0 .. (k + 1) - 1, j \in k + 1 .. m - 1 : L[i] # L[j]
      BY <2>1 DEF Chain, Listed
    <2>3. QED
      BY <2>2 DEF Members
  <1>8. Members(L, 0, m) = Members(L, 0, k + 1) \cup Members(L, k + 1, m)
    <2>1. 0 .. m - 1 = (0 .. (k + 1) - 1) \cup (k + 1 .. m - 1)
      BY <1>1
    <2>2. QED
      BY <2>1 DEF Members
  <1>9. Members(K, 0, k + 1) = Members(L, 0, k + 1)
    BY <1>4, <1>6 DEF Members
  <1>10. Listed(K, k + 1)
    <2>1. \A i, j \in 0 .. k : K[i] = K[j] => i = j
      BY <1>4 DEF Chain, Listed
    <2>2. QED
      BY <2>1, <1>5, <1>6 DEF Listed
  <1>11. ASSUME NEW i \in 0 .. k
         PROVE  u[K[i]] = IF i = k THEN EOC ELSE K[i + 1]
    <2>1. CASE i = k
      BY <2>1, <1>3, <1>4
    <2>2. CASE i # k
      <3>1. i + 1 \in 0 .. k /\ i # m - 1 /\ k \in 0 .. m - 1 /\ i \in 0 .. (k + 1) - 1
        BY <2>2, <1>1
      <3>2. L[i] # L[k] /\ t[L[i]] = L[i + 1] /\ L[i] \in Clusters
        BY <2>2, <3>1, <1>4 DEF Chain, Listed
      <3>3. L[i] \in Members(L, 0, k + 1)
        BY <3>1 DEF Members
      <3>4. u[L[i]] = L[i + 1]
        BY <3>2, <3>3, <1>3, <1>7
      <3>5. QED
        BY <2>2, <3>1, <3>4, <1>4
    <2>3. QED
      BY <2>1, <2>2
  <1>12. Chain(u, K, k + 1)
    <2>1. (k + 1) - 1 = k
      OBVIOUS
    <2>2. QED
      BY <2>1, <1>6, <1>10, <1>11 DEF Chain
  <1>13. QED
    BY <1>3, <1>7, <1>8, <1>9, <1>12 DEF u, K

-----------------------------------------------------------------------------
(* Lemmas on division.                                                     *)

LEMMA Division ==
  ASSUME NEW p \in Nat \ {0}, NEW b \in Nat
  PROVE  b \div p \in Nat /\ b % p \in 0 .. p - 1 /\ b = (b \div p) * p + (b % p)
  OBVIOUS

LEMMA ProductIsInt == ASSUME NEW a \in Int, NEW b \in Int PROVE a * b \in Int
  BY SMT

LEMMA ProductIsNat == ASSUME NEW a \in Nat, NEW b \in Nat PROVE a * b \in Nat
  BY SMT

LEMMA TimesMonotone ==
  ASSUME NEW p \in Nat, NEW m \in Int, NEW n \in Int, m <= n
  PROVE  m * p <= n * p
  <1>1. (n - m) * p \in Nat
    BY ProductIsNat
  <1>2. (n - m) * p = n * p - m * p
    BY SMT
  <1>3. m * p \in Int /\ n * p \in Int
    BY ProductIsInt
  <1>4. QED
    BY <1>1, <1>2, <1>3

LEMMA Quotient ==
  ASSUME NEW p \in Nat \ {0}, NEW n \in Int, NEW q \in Int, NEW r \in 0 .. p - 1, n = q * p + r
  PROVE  n \div p = q /\ n % p = r
  <1> DEFINE a == n \div p
             b == n % p
  <1>1. a \in Int /\ b \in 0 .. p - 1 /\ n = a * p + b
    OBVIOUS
  <1>2. a * p \in Int /\ q * p \in Int /\ (a + 1) * p = a * p + p /\ (q + 1) * p = q * p + p
    BY <1>1, ProductIsInt
  <1> HIDE DEF a, b
  <1>3. ASSUME a < q PROVE FALSE
    <2>1. (a + 1) * p <= q * p
      BY <1>1, <1>3, TimesMonotone
    <2>2. QED
      BY <2>1, <1>1, <1>2
  <1>4. ASSUME q < a PROVE FALSE
    <2>1. (q + 1) * p <= a * p
      BY <1>1, <1>4, TimesMonotone
    <2>2. QED
      BY <2>1, <1>1, <1>2
  <1>5. a = q
    BY <1>1, <1>3, <1>4
  <1>6. b = r
    BY <1>1, <1>2, <1>5
  <1>7. QED
    BY <1>5, <1>6 DEF a, b

LEMMA IndexBound ==
  ASSUME NEW p \in Nat \ {0}, NEW n \in Nat, NEW k \in Nat
  PROVE  n \div p < k <=> n < k * p
  <1>1. n \div p \in Nat /\ n % p \in 0 .. p - 1 /\ n = (n \div p) * p + (n % p)
    BY Division
  <1> DEFINE a == n \div p
  <1>2. a * p \in Int /\ k * p \in Int /\ (a + 1) * p = a * p + p
    BY <1>1, ProductIsInt
  <1>3. a < k => (a + 1) * p <= k * p
    BY <1>1, TimesMonotone
  <1>4. k <= a => k * p <= a * p
    BY <1>1, TimesMonotone
  <1> HIDE DEF a
  <1>5. a \in Nat /\ n % p \in 0 .. p - 1 /\ n = a * p + (n % p)
    BY <1>1 DEF a
  <1>6. a < k <=> n < k * p
    BY <1>2, <1>3, <1>4, <1>5
  <1>7. QED
    BY <1>6 DEF a

LEMMA IndexMonotone ==
  ASSUME NEW p \in Nat \ {0}, NEW n \in Nat, NEW k \in Nat, n <= k
  PROVE  n \div p <= k \div p
  <1> DEFINE b == k \div p
  <1>1. b \in Nat /\ k < (b + 1) * p
    <2>1. b \in Nat /\ k % p \in 0 .. p - 1 /\ k = b * p + (k % p)
      BY Division
    <2>2. b * p \in Int /\ (b + 1) * p = b * p + p
      BY <2>1, ProductIsInt
    <2> HIDE DEF b
    <2>3. QED
      BY <2>1, <2>2
  <1> HIDE DEF b
  <1>2. (b + 1) * p \in Int
    BY <1>1, ProductIsInt
  <1>3. n < (b + 1) * p
    BY <1>1, <1>2
  <1>4. n \div p < b + 1
    BY <1>1, <1>3, IndexBound
  <1>5. n \div p \in Nat
    BY Division
  <1>6. QED
    BY <1>1, <1>4, <1>5 DEF b

\* The number before n.
LEMMA IndexBefore ==
  ASSUME NEW p \in Nat \ {0}, NEW n \in Nat \ {0}
  PROVE  /\ (n - 1) \div p = IF n % p = 0 THEN n \div p - 1 ELSE n \div p
         /\ (n - 1) \div p \in Nat
         /\ n % p = 0 => n \div p >= 1
  <1> DEFINE a == n \div p
             b == n % p
  <1>1. a \in Nat /\ b \in 0 .. p - 1 /\ n = a * p + b
    BY Division
  <1>2. a * p \in Int /\ (a - 1) * p = a * p - p /\ n - 1 \in Nat /\ 0 * p = 0
    BY <1>1, ProductIsInt
  <1> HIDE DEF a, b
  <1>3. ASSUME b = 0 PROVE a >= 1 /\ (n - 1) \div p = a - 1
    <2>1. a # 0
      BY <1>1, <1>2, <1>3
    <2>2. n - 1 = (a - 1) * p + (p - 1) /\ p - 1 \in 0 .. p - 1 /\ a - 1 \in Int
      BY <1>1, <1>2, <1>3
    <2>3. QED
      BY <2>1, <2>2, <1>1, Quotient
  <1>4. ASSUME b # 0 PROVE (n - 1) \div p = a
    <2>1. n - 1 = a * p + (b - 1) /\ b - 1 \in 0 .. p - 1
      BY <1>1, <1>2, <1>4
    <2>2. QED
      BY <2>1, <1>1, <1>2, Quotient
  <1>5. (n - 1) \div p \in Nat
    BY <1>2, Division
  <1>6. QED
    BY <1>3, <1>4, <1>5 DEF a, b

LEMMA CeilDivIs ==
  ASSUME NEW p \in Nat \ {0}, NEW n \in Nat
  PROVE  CeilDiv(n, p) = IF n = 0 THEN 0 ELSE (n - 1) \div p + 1
  <1>1. CASE n = 0
    <2>1. p - 1 = 0 * p + (p - 1) /\ p - 1 \in 0 .. p - 1 /\ 0 \in Int /\ p - 1 \in Int
      BY SMT
    <2>2. (p - 1) \div p = 0
      BY <2>1, Quotient
    <2>3. n + p - 1 = p - 1
      BY <1>1
    <2>4. QED
      BY <2>2, <2>3, <1>1 DEF CeilDiv
  <1>2. CASE n # 0
    <2> DEFINE a == (n - 1) \div p
               b == (n - 1) % p
    <2>0. n - 1 \in Nat
      BY <1>2
    <2>1. a \in Nat /\ b \in 0 .. p - 1 /\ n - 1 = a * p + b
      BY <2>0, Division
    <2>2. a * p \in Int /\ (a + 1) * p = a * p + p
      BY <2>1, ProductIsInt
    <2> HIDE DEF a, b
    <2>3. n + p - 1 = (a + 1) * p + b /\ a + 1 \in Int /\ n + p - 1 \in Int
      BY <2>1, <2>2
    <2>4. (n + p - 1) \div p = a + 1
      BY <2>1, <2>3, Quotient
    <2>5. QED
      BY <2>4, <1>2 DEF CeilDiv, a
  <1>3. QED
    BY <1>1, <1>2

LEMMA IndexAdd ==
  ASSUME NEW p \in Nat \ {0}, NEW n \in Nat, NEW j \in Nat
  PROVE  /\ (n + j) \div p = (n \div p) + ((n % p) + j) \div p
         /\ (n + j) % p = ((n % p) + j) % p
  <1> DEFINE a == n \div p
             b == n % p
             c == (b + j) \div p
             e == (b + j) % p
  <1>1. a \in Nat /\ b \in 0 .. p - 1 /\ n = a * p + b
    BY Division
  <1>2. c \in Nat /\ e \in 0 .. p - 1 /\ b + j = c * p + e
    <2>1. b + j \in Nat
      BY <1>1
    <2>2. QED
      BY <2>1, Division
  <1>3. a * p \in Int /\ c * p \in Int /\ (a + c) * p = a * p + c * p
    BY <1>1, <1>2, ProductIsInt
  <1> HIDE DEF a, b, c, e
  <1>4. n + j = (a + c) * p + e /\ a + c \in Int /\ n + j \in Int
    BY <1>1, <1>2, <1>3
  <1>5. (n + j) \div p = a + c /\ (n + j) % p = e
    BY <1>2, <1>4, Quotient
  <1>6. QED
    BY <1>5 DEF a, b, c, e

-----------------------------------------------------------------------------
(* The position of a file (FileCursor).                                    *)

\* The batched path is not taken where it misplaces the cursor (see the finding
\* file_cursor_batched).
CursorAssumption == FileCursorAssumption /\ ~Defects

LEMMA CursorConstants ==
  ASSUME CursorAssumption
  PROVE  /\ Total \in Nat /\ ClusterSize \in Nat \ {0} /\ MaxSize \in Nat /\ MaxBuf \in Nat
         /\ ~Defects
  BY DEF CursorAssumption, FileCursorAssumption

\* The chain of the file is the list L: the table has no other clusters, there
\* are as many as the size needs, and the cursor is in that of the byte before
\* the offset.
CursorIs(L, m) ==
  /\ Chain(table, L, m)
  /\ \A c \in Clusters : table[c] # Free <=> c \in Members(L, 0, m)
  /\ first = FirstOf(L, m)
  /\ size \in 0 .. MaxSize /\ off \in 0 .. size
  /\ m = ClustersFromBytes(size)
  /\ cur = IF off = 0 THEN None ELSE L[(off - 1) \div ClusterSize]
CursorInv == \E L, m : CursorIs(L, m)

LEMMA ZeroIndex ==
  ASSUME CursorAssumption PROVE 0 \div ClusterSize = 0 /\ 0 % ClusterSize = 0
  <1>1. 0 = 0 * ClusterSize + 0 /\ 0 \in 0 .. ClusterSize - 1 /\ 0 \in Int
    BY CursorConstants
  <1>2. QED
    BY <1>1, CursorConstants, Quotient

LEMMA ClustersOf ==
  ASSUME CursorAssumption, NEW n \in Nat
  PROVE  ClustersFromBytes(n) = IF n = 0 THEN 0 ELSE (n - 1) \div ClusterSize + 1
  BY CursorConstants, CeilDivIs DEF ClustersFromBytes

\* Clusters and bytes: every byte of the file has a cluster, and a file that is
\* longer without another cluster has as many.
LEMMA BytesHaveClusters ==
  ASSUME CursorAssumption, NEW n \in Nat, NEW m, m = ClustersFromBytes(n)
  PROVE  /\ m \in Nat /\ (m = 0 <=> n = 0)
         /\ \A p \in Nat : p < n => p \div ClusterSize \in 0 .. m - 1
         /\ \A k \in Nat \ {0} :
              n <= k /\ (k - 1) \div ClusterSize < m => ClustersFromBytes(k) = m
  <1>1. ClusterSize \in Nat \ {0}
    BY CursorConstants
  <1>2. n # 0 => (n - 1) \div ClusterSize \in Nat
    BY <1>1, IndexBefore
  <1>3. m \in Nat /\ (m = 0 <=> n = 0)
    BY <1>2, ClustersOf
  <1>4. ASSUME NEW p \in Nat, p < n PROVE p \div ClusterSize \in 0 .. m - 1
    <2>1. n # 0 /\ n - 1 \in Nat /\ p <= n - 1
      BY <1>4
    <2>2. p \div ClusterSize <= (n - 1) \div ClusterSize /\ p \div ClusterSize \in Nat
      BY <1>1, <2>1, IndexMonotone, Division
    <2>3. m = (n - 1) \div ClusterSize + 1
      BY <2>1, ClustersOf
    <2>4. QED
      BY <2>1, <2>2, <2>3, <1>2
  <1>5. ASSUME NEW k \in Nat \ {0}, n <= k, (k - 1) \div ClusterSize < m
        PROVE  ClustersFromBytes(k) = m
    <2>0. (k - 1) \div ClusterSize \in Nat
      BY <1>1, IndexBefore
    <2>1. n # 0 /\ n - 1 \in Nat /\ k - 1 \in Nat /\ n - 1 <= k - 1
          /\ (k - 1) \div ClusterSize \in Nat
      BY <2>0, <1>3, <1>5
    <2>2. (n - 1) \div ClusterSize <= (k - 1) \div ClusterSize
      BY <1>1, <2>1, IndexMonotone
    <2>3. m = (n - 1) \div ClusterSize + 1
      BY <2>1, ClustersOf
    <2>4. ClustersFromBytes(k) = (k - 1) \div ClusterSize + 1
      BY ClustersOf
    <2>5. QED
      BY <1>2, <1>5, <2>1, <2>2, <2>3, <2>4
  <1>6. QED
    BY <1>3, <1>4, <1>5

\* The cluster at the offset; there is none only at the end of the file, when
\* its last cluster is full.
LEMMA HereIs ==
  ASSUME CursorAssumption, NEW L, NEW m, CursorIs(L, m)
  PROVE  LET q == off \div ClusterSize IN
         /\ q \in 0 .. m /\ InCluster \in 0 .. ClusterSize - 1
         /\ off = q * ClusterSize + InCluster
         /\ q < m => Here = L[q] /\ L[q] \in Clusters /\ Here # None
         /\ q = m => Here = None /\ off = size /\ InCluster = 0 /\ cur = LastOf(L, m)
  <1> DEFINE q == off \div ClusterSize
             b == (off - 1) \div ClusterSize
  <1>1. ClusterSize \in Nat \ {0} /\ Total \in Nat
    BY CursorConstants
  <1>2. off \in Nat /\ size \in Nat /\ off <= size /\ m = ClustersFromBytes(size)
        /\ Chain(table, L, m) /\ first = FirstOf(L, m)
        /\ cur = IF off = 0 THEN None ELSE L[b]
    BY CursorConstants DEF CursorIs
  <1>3. q \in Nat /\ InCluster \in 0 .. ClusterSize - 1 /\ off = q * ClusterSize + InCluster
    BY <1>1, <1>2, Division DEF InCluster
  <1>4. m \in Nat /\ (m = 0 <=> size = 0)
    BY <1>2, BytesHaveClusters
  <1>5. off # 0 => /\ b \in 0 .. m - 1
                   /\ b = IF InCluster = 0 THEN q - 1 ELSE q
    <2>1. off # 0 => off - 1 \in Nat /\ off - 1 < size
      BY <1>2
    <2>2. off # 0 => b \in 0 .. m - 1
      BY <2>1, <1>2, BytesHaveClusters
    <2>3. QED
      BY <2>2, <1>1, <1>2, IndexBefore DEF InCluster
  <1>6. off = 0 => q = 0 /\ InCluster = 0
    BY ZeroIndex DEF InCluster
  <1> HIDE DEF b
  <1>7. q \in 0 .. m
    BY <1>3, <1>4, <1>5, <1>6
  <1>8. ASSUME q < m PROVE Here = L[q] /\ L[q] \in Clusters /\ Here # None
    <2> HIDE DEF q
    <2>1. q \in 0 .. m - 1
      BY <1>7, <1>8, <1>4
    <2>2. L[q] \in Clusters /\ L[q] # None
      BY <2>1, <1>1, <1>2, NextOfChain
    <2>3. CASE InCluster # 0
      BY <2>2, <2>3, <1>2, <1>5, <1>6 DEF Here
    <2>4. CASE InCluster = 0 /\ off = 0
      BY <2>1, <2>2, <2>4, <1>2, <1>4, <1>6 DEF Here, FirstOf
    <2>5. CASE InCluster = 0 /\ off # 0
      <3>1. b \in 0 .. m - 1 /\ b + 1 = q /\ cur = L[b]
        BY <2>5, <1>2, <1>5, <2>1
      <3>2. /\ NextIn(table, L[b]) = IF b + 1 < m THEN L[b + 1] ELSE None
            /\ L[b] # None
        BY <3>1, <1>1, <1>2, NextOfChain
      <3>3. NextIn(table, cur) = L[q] /\ cur # None
        BY <3>1, <3>2, <1>8
      <3>4. QED
        BY <3>3, <2>2, <2>5 DEF Here
    <2>6. QED
      BY <2>3, <2>4, <2>5
  <1>9. ASSUME q = m
        PROVE  Here = None /\ off = size /\ InCluster = 0 /\ cur = LastOf(L, m)
    <2>1. CASE off = 0
      <3>1. m = 0 /\ InCluster = 0 /\ cur = None
        BY <2>1, <1>2, <1>6, <1>9
      <3>2. QED
        BY <3>1, <2>1, <1>2, <1>4 DEF Here, FirstOf, LastOf
    <2>2. CASE off # 0
      <3> HIDE DEF q
      <3>1. InCluster = 0 /\ b = m - 1 /\ m # 0 /\ b \in 0 .. m - 1
        BY <2>2, <1>5, <1>9, <1>4, <1>3
      <3>2. cur = L[m - 1] /\ NextIn(table, cur) = None /\ cur # None
        BY <3>1, <2>2, <1>1, <1>2, <1>4, NextOfChain
      <3>3. off = size
        <4>1. ASSUME off < size PROVE FALSE
          <5>1. off \div ClusterSize \in 0 .. m - 1
            BY <4>1, <1>2, BytesHaveClusters
          <5>2. QED
            BY <5>1, <1>9, <1>4 DEF q
        <4>2. QED
          BY <4>1, <1>2
      <3>4. QED
        BY <3>1, <3>2, <3>3 DEF Here, LastOf
    <2>3. QED
      BY <2>1, <2>2
  <1>10. QED
    BY <1>3, <1>7, <1>8, <1>9

-----------------------------------------------------------------------------
(* The batched path.                                                       *)

\* R clusters of the list from the q-th on follow each other on the storage.
Consecutive(L, m, q, R) ==
  R \in Nat \ {0} /\ \A j \in 0 .. R - 1 : q + j \in 0 .. m - 1 /\ L[q + j] = L[q] + j

\* Byte `at` of the q-th cluster of the list, and a batch of len bytes from there
\* that stays in such clusters.
Start(q, at) == q * ClusterSize + at
InRun(L, m, q, at, len) ==
  /\ q \in 0 .. m - 1 /\ at \in 0 .. ClusterSize - 1 /\ len \in Nat
  /\ \E R : Consecutive(L, m, q, R) /\ at + len <= R * ClusterSize

LEMMA RunOfChain ==
  ASSUME Total \in Nat, NEW L, NEW m, Chain(table, L, m), NEW q \in 0 .. m - 1, NEW max \in Nat \ {0}
  PROVE  Run(L[q], max) \in 1 .. max /\ Consecutive(L, m, q, Run(L[q], max))
  <1> DEFINE c == L[q]
             Ends(n) == n < max => NextIn(table, c + n - 1) # c + n
             IsRun(n) == (\A i \in 1 .. n - 1 : NextIn(table, c + i - 1) = c + i) /\ Ends(n)
             S == {n \in 1 .. max : Ends(n)}
             R == Run(c, max)
  <1>1. m \in Nat /\ c \in Nat /\ c # None
    <2>1. c \in Clusters
      BY NextOfChain
    <2>2. QED
      BY <2>1, ClusterNumbers DEF Chain, Listed
  <1>2. S \in SUBSET Nat /\ S # {}
    <2>1. max \in S
      OBVIOUS
    <2> HIDE DEF Ends
    <2>2. \A n \in S : n \in Nat
      OBVIOUS
    <2> HIDE DEF S
    <2>3. QED
      BY <2>1, <2>2
  <1>3. PICK n \in S : \A i \in S : n <= i
    <2> HIDE DEF S
    <2>1. QED
      BY <1>2, LeastOf
  <1>4. n \in 1 .. max /\ IsRun(n)
    <2>1. n \in 1 .. max /\ Ends(n)
      BY <1>3
    <2>2. ASSUME NEW i \in 1 .. n - 1 PROVE NextIn(table, c + i - 1) = c + i
      <3>1. i \in 1 .. max /\ i < max /\ ~(n <= i)
        BY <2>1
      <3>2. i \notin S
        BY <1>3, <3>1
      <3>3. ~Ends(i)
        BY <3>1, <3>2
      <3>4. QED
        BY <3>1, <3>3
    <2> HIDE DEF Ends
    <2>3. QED
      BY <2>1, <2>2
  <1>5. R = CHOOSE k \in 1 .. max : IsRun(k)
    BY DEF Run
  <1> HIDE DEF IsRun
  <1>6. R \in 1 .. max /\ IsRun(R)
    BY <1>4, <1>5
  <1> HIDE DEF R
  <1> USE DEF IsRun
  <1> DEFINE Good == {j \in 0 .. R - 1 : q + j \in 0 .. m - 1 /\ L[q + j] = c + j}
  <1>7. 0 \in Good
    BY <1>1, <1>6
  <1>8. ASSUME NEW j \in 1 .. R - 1, j - 1 \in Good PROVE j \in Good
    <2>1. q + (j - 1) \in 0 .. m - 1 /\ L[q + (j - 1)] = c + (j - 1) /\ j \in 0 .. R - 1
      BY <1>8
    <2>2. NextIn(table, c + j - 1) = c + j
      BY <1>6
    <2>3. c + j - 1 = c + (j - 1) /\ c + j # None
      BY <1>1 DEF None
    <2>4. NextIn(table, L[q + (j - 1)])
            = IF q + (j - 1) + 1 < m THEN L[q + (j - 1) + 1] ELSE None
      BY <2>1, NextOfChain
    <2>5. q + (j - 1) + 1 = q + j
      OBVIOUS
    <2>6. q + j < m /\ L[q + j] = c + j
      BY <2>1, <2>2, <2>3, <2>4, <2>5
    <2>7. QED
      BY <2>1, <2>6, <1>1
  <1>9. \A j \in 0 .. R - 1 : j \in Good
    <2>1. R - 1 \in Nat
      BY <1>6
    <2> HIDE DEF Good
    <2>2. QED
      BY <2>1, <1>7, <1>8, UpTo
  <1>10. Consecutive(L, m, q, R)
    BY <1>6, <1>9 DEF Consecutive
  <1>11. QED
    BY <1>6, <1>10 DEF R

\* A batch lies in clusters of the file that follow each other.
LEMMA BatchFits ==
  ASSUME CursorAssumption, NEW L, NEW m, Chain(table, L, m), NEW q \in 0 .. m - 1,
         InCluster \in 0 .. ClusterSize - 1, NEW len \in Nat \ {0}
  PROVE  Batch(L[q], len) \in 1 .. len /\ InRun(L, m, q, InCluster, Batch(L[q], len))
  <1> DEFINE inFirst == ClusterSize - InCluster
             rest == IF len > inFirst THEN len - inFirst ELSE 0
             R == Run(L[q], 1 + ClustersFromBytes(rest))
             B == Batch(L[q], len)
  <1>1. ClusterSize \in Nat \ {0} /\ Total \in Nat
    BY CursorConstants
  <1>2. inFirst \in 1 .. ClusterSize /\ rest \in Nat
    BY <1>1
  <1> HIDE DEF rest
  <1>3. ClustersFromBytes(rest) \in Nat
    BY <1>2, BytesHaveClusters
  <1>4. R \in Nat \ {0} /\ Consecutive(L, m, q, R)
    <2>1. 1 + ClustersFromBytes(rest) \in Nat \ {0}
      BY <1>3
    <2>2. QED
      BY <2>1, <1>1, RunOfChain
  <1>5. B = Least(len, inFirst + (R - 1) * ClusterSize)
    BY DEF Batch, rest
  <1> HIDE DEF R, B
  <1>6. (R - 1) * ClusterSize \in Nat /\ R * ClusterSize = (R - 1) * ClusterSize + ClusterSize
    <2>1. R - 1 \in Nat
      BY <1>4
    <2>2. QED
      BY <2>1, <1>1, <1>4, ProductIsNat
  <1>7. B \in 1 .. len /\ B <= inFirst + (R - 1) * ClusterSize
    BY <1>1, <1>2, <1>5, <1>6 DEF Least
  <1>8. InCluster + B <= R * ClusterSize
    BY <1>1, <1>6, <1>7, ProductIsInt
  <1>9. InRun(L, m, q, InCluster, B)
    BY <1>4, <1>7, <1>8 DEF InRun
  <1>10. QED
    BY <1>7, <1>9 DEF B

\* The cluster a number of steps ahead, or the last one.
LEMMA ForwardOfChain ==
  ASSUME Total \in Nat, NEW L, NEW m, Chain(table, L, m), NEW k \in 0 .. m - 1, NEW delta \in Nat
  PROVE  LET d == IF k + delta < m THEN delta ELSE m - 1 - k IN
         Reach(L[k], delta) = d /\ Forward(L[k], delta) = L[k + d]
  <1> DEFINE d == IF k + delta < m THEN delta ELSE m - 1 - k
             IsReached(n) == /\ Walk(table, L[k], n) # None
                             /\ n < delta => Walk(table, L[k], n + 1) = None
  <1>1. m \in Nat
    BY DEF Chain, Listed
  <1>2. d \in 0 .. delta /\ k + d \in 0 .. m - 1 /\ (d < delta => k + d = m - 1)
    BY <1>1
  <1>3. \A n \in Nat : Walk(table, L[k], n) = IF k + n < m THEN L[k + n] ELSE None
    BY WalkOfChain
  <1>4. \A i \in 0 .. m - 1 : L[i] # None
    BY NextOfChain
  <1>5. ASSUME NEW n \in 0 .. delta PROVE IsReached(n) <=> n = d
    <2>1. k + n < m <=> Walk(table, L[k], n) # None
      <3>1. k + n < m => k + n \in 0 .. m - 1
        BY <1>1
      <3>2. QED
        BY <3>1, <1>3, <1>4
    <2>2. k + (n + 1) < m <=> Walk(table, L[k], n + 1) # None
      <3>1. k + (n + 1) < m => k + (n + 1) \in 0 .. m - 1
        BY <1>1
      <3>2. n + 1 \in Nat
        OBVIOUS
      <3>3. QED
        BY <3>1, <3>2, <1>3, <1>4
    <2>3. QED
      BY <2>1, <2>2, <1>1
  <1>6. Reach(L[k], delta) = CHOOSE n \in 0 .. delta : IsReached(n)
    BY DEF Reach
  <1> HIDE DEF IsReached, d
  <1>7. Reach(L[k], delta) = d
    BY <1>2, <1>5, <1>6
  <1>8. Forward(L[k], delta) = L[k + d]
    BY <1>2, <1>3, <1>7, <1>1 DEF Forward
  <1>9. QED
    BY <1>7, <1>8 DEF d

\* Where the batched path is taken, the cursor goes to the cluster of the last
\* byte before the new offset.
LEMMA CursorMoves ==
  ASSUME CursorAssumption, NEW L, NEW m, CursorIs(L, m), NEW new \in Nat \ {0},
         off <= new, (new - 1) \div ClusterSize < m, off \div ClusterSize < m,
         off \div ClusterSize <= (new - 1) \div ClusterSize, ~OneTooFar(Here, new)
  PROVE  LET t == (new - 1) \div ClusterSize IN
         /\ ClusterDelta(new) \in Nat
         /\ ClusterDelta(new) > 0 => Forward(Here, ClusterDelta(new)) = L[t]
         /\ ~(ClusterDelta(new) > 0) => t = 0 /\ Here = L[t] /\ off \div ClusterSize = 0
  <1> DEFINE q == off \div ClusterSize
             t == (new - 1) \div ClusterSize
             old == IF q > 0 THEN q - 1 ELSE 0
             delta == ClusterDelta(new)
  <1>1. ClusterSize \in Nat \ {0} /\ Total \in Nat
    BY CursorConstants
  <1>2. Chain(table, L, m) /\ m \in Nat /\ off \in Nat
    BY CursorConstants DEF CursorIs, Chain, Listed
  <1>3. q \in 0 .. m - 1 /\ t \in 0 .. m - 1 /\ Here = L[q] /\ q <= t
    <2>1. q \in 0 .. m /\ Here = L[q]
      BY HereIs
    <2>2. t \in Nat
      BY <1>1, IndexBefore
    <2>3. QED
      BY <2>1, <2>2, <1>2
  <1>4. t = IF new > 0 /\ new % ClusterSize = 0
            THEN (IF new \div ClusterSize > 0 THEN new \div ClusterSize - 1 ELSE 0)
            ELSE new \div ClusterSize
    <2>1. new \div ClusterSize \in Nat /\ new > 0
      BY <1>1, Division
    <2>2. QED
      BY <2>1, <1>1, IndexBefore
  <1>5. delta = IF t > old THEN t - old ELSE 0
    BY <1>4 DEF ClusterDelta
  <1>6. q >= 1 => off >= ClusterSize
    <2>1. 1 * ClusterSize = ClusterSize /\ 1 \in Nat
      BY <1>1
    <2>2. q < 1 <=> off < 1 * ClusterSize
      BY <2>1, <1>1, <1>2, IndexBound
    <2>3. QED
      BY <2>1, <2>2, <1>1, <1>2, <1>3
  <1> HIDE DEF q, t, delta
  <1>7. delta \in Nat
    BY <1>3, <1>5
  <1>8. ASSUME delta > 0 PROVE Forward(Here, delta) = L[t]
    <2>1. Forward(L[q], delta) = L[q + (IF q + delta < m THEN delta ELSE m - 1 - q)]
      BY <1>1, <1>2, <1>3, <1>7, ForwardOfChain
    <2>2. CASE q = 0
      <3>1. delta = t /\ q + delta = t /\ q + delta < m
        BY <2>2, <1>2, <1>3, <1>5
      <3>2. QED
        BY <3>1, <2>1, <1>3
    <2>3. CASE q # 0
      <3>1. delta = t - q + 1 /\ q >= 1
        BY <2>3, <1>3, <1>5
      <3>2. Walk(table, L[q], delta) = None
        BY <3>1, <1>3, <1>6, <1>8 DEF OneTooFar, delta
      <3>3. ~(q + delta < m)
        <4>1. ASSUME q + delta < m PROVE FALSE
          <5>1. Walk(table, L[q], delta) = L[q + delta] /\ q + delta \in 0 .. m - 1
            BY <4>1, <1>1, <1>2, <1>3, <1>7, WalkOfChain
          <5>2. L[q + delta] # None
            BY <5>1, <1>1, <1>2, NextOfChain
          <5>3. QED
            BY <5>1, <5>2, <3>2
        <4>2. QED
          BY <4>1
      <3>4. q + (m - 1 - q) = t
        BY <3>1, <3>3, <1>2, <1>3
      <3>5. QED
        BY <3>3, <3>4, <2>1, <1>3
    <2>4. QED
      BY <2>2, <2>3
  <1>9. ASSUME ~(delta > 0) PROVE t = 0 /\ Here = L[t] /\ q = 0
    <2>1. q = 0 /\ t = 0
      BY <1>3, <1>5, <1>9
    <2>2. QED
      BY <2>1, <1>3
  <1>10. QED
    BY <1>7, <1>8, <1>9 DEF q, t, delta

\* Byte p of a file whose clusters are the list L.
ByteOf(d, L, p) == d[L[p \div ClusterSize]][p % ClusterSize]

\* Bytes written to consecutive clusters are bytes of the file.
LEMMA BytesWritten ==
  ASSUME CursorAssumption, NEW L, NEW m, Listed(L, m), NEW q, NEW at, NEW len,
         InRun(L, m, q, at, len), NEW v, NEW p \in Nat, p \div ClusterSize < m
  PROVE  ByteOf(WithStored(L[q], at, len, v), L, p)
           = IF p \in Start(q, at) .. Start(q, at) + len - 1 THEN v ELSE ByteOf(disk, L, p)
  <1>0. q \in 0 .. m - 1 /\ at \in 0 .. ClusterSize - 1 /\ len \in Nat
    BY DEF InRun
  <1>r. PICK R : Consecutive(L, m, q, R) /\ at + len <= R * ClusterSize
    BY DEF InRun
  <1> USE <1>0, <1>r
  <1> DEFINE at0 == q * ClusterSize + at
             k == p \div ClusterSize
             i == p % ClusterSize
             x == L[k]
             c == L[q]
             P == (x - c) * ClusterSize + i
  <1>1. ClusterSize \in Nat \ {0} /\ Total \in Nat
    BY CursorConstants
  <1>2. k \in Nat /\ i \in 0 .. ClusterSize - 1 /\ p = k * ClusterSize + i
    BY <1>1, Division
  <1>3. m \in Nat /\ k \in 0 .. m - 1
    BY <1>2 DEF Listed
  <1>4. x \in Clusters /\ c \in Clusters /\ x \in Nat /\ c \in Nat /\ q \in Nat
    BY <1>1, <1>3, ClusterNumbers DEF Listed
  <1>5. WithStored(c, at, len, v)[x][i] = IF P \in at .. at + len - 1 THEN v ELSE disk[x][i]
    BY <1>2, <1>4 DEF WithStored
  <1>6. /\ q * ClusterSize \in Nat /\ k * ClusterSize \in Nat /\ R * ClusterSize \in Nat
        /\ (q + R) * ClusterSize = q * ClusterSize + R * ClusterSize
        /\ (k - q) * ClusterSize = k * ClusterSize - q * ClusterSize
        /\ 0 * ClusterSize = 0 /\ -1 * ClusterSize = -ClusterSize
        /\ (x - c) * ClusterSize \in Int /\ R \in Nat
    BY <1>1, <1>2, <1>4, ProductIsNat, ProductIsInt DEF Consecutive
  <1> HIDE DEF k, i
  <1>7. ASSUME k \in q .. q + R - 1
        PROVE  WithStored(c, at, len, v)[x][i] = IF p \in at0 .. at0 + len - 1 THEN v ELSE disk[x][i]
    <2>1. k - q \in 0 .. R - 1 /\ q + (k - q) = k
      BY <1>7, <1>2, <1>4, <1>6
    <2>2. x = c + (k - q)
      BY <2>1 DEF Consecutive
    <2>3. x - c = k - q
      BY <2>2, <1>2, <1>4
    <2>4. P = p - q * ClusterSize
      BY <2>3, <1>2, <1>6
    <2> HIDE DEF P, x, c
    <2>5. P \in at .. at + len - 1 <=> p \in at0 .. at0 + len - 1
      BY <2>4, <1>2, <1>6, <1>1
    <2>6. QED
      BY <2>5, <1>5 DEF x, c
  <1>8. ASSUME ~(k \in q .. q + R - 1)
        PROVE  WithStored(c, at, len, v)[x][i] = IF p \in at0 .. at0 + len - 1 THEN v ELSE disk[x][i]
    <2>1. x - c < 0 \/ R <= x - c
      <3>1. ASSUME NEW j \in 0 .. R - 1, x - c = j PROVE FALSE
        <4>1. q + j \in 0 .. m - 1 /\ L[q + j] = L[k]
          BY <3>1, <1>4 DEF Consecutive
        <4>2. q + j = k
          BY <4>1, <1>3 DEF Listed
        <4>3. QED
          BY <4>2, <1>8, <1>6, <1>4
      <3>2. QED
        BY <3>1, <1>4, <1>6
    <2>2. P < 0 \/ R * ClusterSize <= P
      <3>1. CASE x - c < 0
        <4>1. (x - c) * ClusterSize <= -1 * ClusterSize
          BY <3>1, <1>1, <1>4, TimesMonotone
        <4>2. QED
          BY <4>1, <1>1, <1>2, <1>6
      <3>2. CASE R <= x - c
        <4>1. R * ClusterSize <= (x - c) * ClusterSize
          BY <3>2, <1>1, <1>4, <1>6, TimesMonotone
        <4>2. QED
          BY <4>1, <1>1, <1>2, <1>6
      <3>3. QED
        BY <2>1, <3>1, <3>2
    <2>3. P \notin at .. at + len - 1
      <3>1. P \in Int
        BY <1>1, <1>2, <1>6
      <3> HIDE DEF P
      <3>2. QED
        BY <3>1, <2>2, <1>1, <1>6
    <2>4. p \notin at0 .. at0 + len - 1
      <3>1. CASE k < q
        <4>1. (k + 1) * ClusterSize <= q * ClusterSize
              /\ (k + 1) * ClusterSize = k * ClusterSize + ClusterSize
          BY <3>1, <1>1, <1>2, <1>4, TimesMonotone
        <4>2. p < q * ClusterSize
          BY <4>1, <1>1, <1>2, <1>6
        <4>3. QED
          BY <4>2, <1>1, <1>6
      <3>2. CASE q + R <= k
        <4>1. (q + R) * ClusterSize <= k * ClusterSize
          BY <3>2, <1>1, <1>2, <1>4, <1>6, TimesMonotone
        <4>2. QED
          BY <4>1, <1>1, <1>2, <1>6
      <3>3. QED
        BY <3>1, <3>2, <1>8, <1>2, <1>4, <1>6
    <2>5. QED
      BY <2>3, <2>4, <1>5 DEF x, c
  <1>9. WithStored(c, at, len, v)[x][i] = IF p \in at0 .. at0 + len - 1 THEN v ELSE disk[x][i]
    BY <1>7, <1>8
  <1> HIDE DEF at0
  <1>10. QED
    BY <1>9 DEF ByteOf, k, i, at0, Start

\* Bytes read from consecutive clusters are bytes of the file.
LEMMA BytesRead ==
  ASSUME CursorAssumption, NEW L, NEW m, NEW q, NEW at, NEW len, InRun(L, m, q, at, len),
         NEW i \in 1 .. len
  PROVE  LET p == Start(q, at) + (i - 1) IN
         /\ p \in Nat /\ p \div ClusterSize \in 0 .. m - 1
         /\ Stored(L[q], at, len)[i] = ByteOf(disk, L, p)
  <1>0. q \in 0 .. m - 1 /\ at \in 0 .. ClusterSize - 1 /\ len \in Nat
    BY DEF InRun
  <1>r. PICK R : Consecutive(L, m, q, R) /\ at + len <= R * ClusterSize
    BY DEF InRun
  <1> DEFINE p == Start(q, at) + (i - 1)
             j == (at + i - 1) \div ClusterSize
             r == (at + i - 1) % ClusterSize
  <1>1. ClusterSize \in Nat \ {0}
    BY CursorConstants
  <1>2. R \in Nat \ {0} /\ at + i - 1 \in Nat /\ at + i - 1 < R * ClusterSize /\ q \in Nat
    BY <1>0, <1>r, <1>1, ProductIsInt DEF Consecutive
  <1>3. j \in Nat /\ r \in 0 .. ClusterSize - 1 /\ at + i - 1 = j * ClusterSize + r /\ j < R
    BY <1>1, <1>2, Division, IndexBound
  <1>4. q * ClusterSize \in Nat /\ j * ClusterSize \in Nat
        /\ (q + j) * ClusterSize = q * ClusterSize + j * ClusterSize
    <2>1. q \in Nat /\ j \in Nat
      BY <1>2, <1>3
    <2> HIDE DEF j, p, r
    <2>2. q * ClusterSize \in Nat /\ j * ClusterSize \in Nat
      BY <2>1, <1>1, ProductIsNat
    <2>3. (q + j) * ClusterSize = q * ClusterSize + j * ClusterSize
      BY <2>1, <1>1
    <2>4. QED
      BY <2>2, <2>3
  <1>5. Stored(L[q], at, len)[i] = disk[L[q] + j][r]
    BY DEF Stored
  <1> HIDE DEF j, r
  <1>6. p = (q + j) * ClusterSize + r /\ q + j \in Int /\ p \in Nat
    BY <1>0, <1>2, <1>3, <1>4, <1>1 DEF Start
  <1> HIDE DEF p
  <1>7. p \div ClusterSize = q + j /\ p % ClusterSize = r
    <2> DEFINE k == q + j
    <2>1. p = k * ClusterSize + r /\ k \in Int /\ p \in Int
      BY <1>6
    <2>2. r \in 0 .. ClusterSize - 1
      BY <1>3
    <2> HIDE DEF k
    <2>3. p \div ClusterSize = k /\ p % ClusterSize = r
      BY <2>1, <2>2, <1>1, Quotient
    <2>4. QED
      BY <2>3 DEF k
  <1>8. j \in 0 .. R - 1
    BY <1>2, <1>3
  <1>9. q + j \in 0 .. m - 1 /\ L[q + j] = L[q] + j
    BY <1>r, <1>8 DEF Consecutive
  <1>10. QED
    BY <1>5, <1>6, <1>7, <1>9 DEF ByteOf, p

-----------------------------------------------------------------------------
(* The bytes of a file.                                                    *)

\* A function on 1 .. n is a sequence of length n.
LEMMA IsSequence ==
  ASSUME NEW n \in Nat, NEW f, f = [i \in 1 .. n |-> f[i]]
  PROVE  Len(f) = n
  <1> DEFINE S == {f[i] : i \in 1 .. n}
  <1>1. f \in [1 .. n -> S]
    BY Zenon
  <1> HIDE DEF S
  <1>2. f \in Seq(S) /\ DOMAIN f = 1 .. n
    BY <1>1, SeqDef
  <1>3. Len(f) \in Nat /\ 1 .. Len(f) = 1 .. n
    BY <1>2, LenProperties
  <1>4. QED
    <2>1. ASSUME Len(f) < n PROVE FALSE
      <3>1. n \in 1 .. n /\ n \notin 1 .. Len(f)
        BY <2>1, <1>3
      <3>2. QED
        BY <3>1, <1>3
    <2>2. ASSUME n < Len(f) PROVE FALSE
      <3>1. Len(f) \in 1 .. Len(f) /\ Len(f) \notin 1 .. n
        BY <2>2, <1>3
      <3>2. QED
        BY <3>1, <1>3
    <2>3. QED
      BY <2>1, <2>2, <1>3

LEMMA SubSequence ==
  ASSUME NEW n \in Nat, NEW f, f = [i \in 1 .. n |-> f[i]], NEW a \in 0 .. n, NEW k \in 0 .. n - a
  PROVE  SubSeq(f, a + 1, a + k) = [i \in 1 .. k |-> f[a + i]]
  <1>1. SubSeq(f, a + 1, a + k) = [i \in 1 .. k |-> f[a + i]]
    OBVIOUS
  <1>2. QED
    BY <1>1

LEMMA BytesAre ==
  ASSUME CursorAssumption, NEW t, NEW d, NEW L, NEW m, Chain(t, L, m), NEW f, f = FirstOf(L, m),
         NEW s \in Nat, m = ClustersFromBytes(s), NEW i \in 1 .. s, NEW c,
         c = IF f = None THEN None ELSE Walk(t, f, (i - 1) \div ClusterSize)
  PROVE  c # None /\ d[c][(i - 1) % ClusterSize] = ByteOf(d, L, i - 1)
  <1> DEFINE b == (i - 1) \div ClusterSize
  <1>1. b \in 0 .. m - 1 /\ m \in Nat
    <2>1. i - 1 \in Nat /\ i - 1 < s
      OBVIOUS
    <2>2. QED
      BY <2>1, BytesHaveClusters
  <1>2. Total \in Nat
    BY CursorConstants
  <1> HIDE DEF b
  <1>3. f = L[0] /\ 0 \in 0 .. m - 1 /\ b \in Nat /\ 0 + b < m /\ 0 + b = b
    BY <1>1 DEF FirstOf
  <1>4. L[0] # None /\ L[b] # None
    BY <1>1, <1>2, <1>3, NextOfChain
  <1>5. Walk(t, L[0], b) = L[b]
    BY <1>2, <1>3, WalkOfChain
  <1>6. QED
    BY <1>3, <1>4, <1>5 DEF ByteOf, b

\* The bytes of a file of s bytes whose clusters are the list L, on the storage d.
BytesOf(d, L, s) == [i \in 1 .. s |-> ByteOf(d, L, i - 1)]

LEMMA ContentIs ==
  ASSUME CursorAssumption, NEW L, NEW m, CursorIs(L, m)
  PROVE  Content = BytesOf(disk, L, size) /\ Len(Content) = size
  <1>1. size \in Nat /\ Chain(table, L, m) /\ first = FirstOf(L, m) /\ m = ClustersFromBytes(size)
    BY CursorConstants DEF CursorIs
  <1>2. Content = BytesOf(disk, L, size)
    <2> DEFINE At(i) == IF first = None THEN None ELSE Walk(table, first, (i - 1) \div ClusterSize)
    <2>1. ASSUME NEW i \in 1 .. size
          PROVE  (IF At(i) = None THEN Unwritten ELSE disk[At(i)][(i - 1) % ClusterSize])
                   = ByteOf(disk, L, i - 1)
      <3> DEFINE c == At(i)
      <3>1. c = IF first = None THEN None ELSE Walk(table, first, (i - 1) \div ClusterSize)
        OBVIOUS
      <3> HIDE DEF c
      <3>2. c # None /\ disk[c][(i - 1) % ClusterSize] = ByteOf(disk, L, i - 1)
        BY <3>1, <1>1, BytesAre
      <3>3. QED
        BY <3>2 DEF c
    <2>2. Content = [i \in 1 .. size |->
                       IF At(i) = None THEN Unwritten ELSE disk[At(i)][(i - 1) % ClusterSize]]
      BY DEF Content
    <2> HIDE DEF At
    <2>3. QED
      BY <2>1, <2>2 DEF BytesOf
  <1>3. Content = [i \in 1 .. size |-> Content[i]]
    BY <1>2 DEF BytesOf
  <1>4. Len(Content) = size
    BY <1>1, <1>3, IsSequence
  <1>5. QED
    BY <1>2, <1>4

LEMMA NextContentIs ==
  ASSUME CursorAssumption, NEW L, NEW m, CursorIs(L, m)'
  PROVE  Content' = BytesOf(disk', L, size')
  <1>1. size' \in Nat /\ Chain(table', L, m) /\ first' = FirstOf(L, m) /\ m = ClustersFromBytes(size')
    BY CursorConstants DEF CursorIs, Chain
  <1> DEFINE At(i) == IF first' = None THEN None ELSE Walk(table', first', (i - 1) \div ClusterSize)
  <1>2. ASSUME NEW i \in 1 .. size'
        PROVE  (IF At(i) = None THEN Unwritten ELSE disk'[At(i)][(i - 1) % ClusterSize])
                 = ByteOf(disk', L, i - 1)
    <2> DEFINE c == At(i)
    <2>1. c = IF first' = None THEN None ELSE Walk(table', first', (i - 1) \div ClusterSize)
      OBVIOUS
    <2> HIDE DEF c
    <2>2. c # None /\ disk'[c][(i - 1) % ClusterSize] = ByteOf(disk', L, i - 1)
      BY <2>1, <1>1, BytesAre
    <2>3. QED
      BY <2>2 DEF c
  <1>3. Content' = [i \in 1 .. size' |->
                      IF At(i) = None THEN Unwritten ELSE disk'[At(i)][(i - 1) % ClusterSize]]
    BY DEF Content, Walk, NextIn
  <1> HIDE DEF At
  <1>4. QED
    BY <1>2, <1>3 DEF BytesOf

-----------------------------------------------------------------------------
(* The calls keep the position and are those of a sequence of bytes.       *)

\* The bytes of a batch stay in the cluster of its first byte up to the end of
\* that cluster.
LEMMA SameCluster ==
  ASSUME CursorAssumption, NEW q \in Nat, NEW at \in 0 .. ClusterSize - 1,
         NEW n \in 1 .. ClusterSize - at
  PROVE  (q * ClusterSize + at + n - 1) \div ClusterSize = q
  <1>1. ClusterSize \in Nat \ {0}
    BY CursorConstants
  <1>2. q * ClusterSize \in Nat
    BY <1>1, ProductIsNat
  <1> DEFINE r == at + n - 1
             p == q * ClusterSize + at + n - 1
  <1>3. r \in 0 .. ClusterSize - 1 /\ p = q * ClusterSize + r /\ p \in Int /\ q \in Int
    BY <1>1, <1>2
  <1> HIDE DEF r, p
  <1>4. p \div ClusterSize = q
    BY <1>1, <1>3, Quotient
  <1>5. QED
    BY <1>4 DEF p

\* len bytes put from the offset on, the first n of them in the file: the chain
\* is the list K, as long as L or longer.
LEMMA BytesPut ==
  ASSUME CursorAssumption, NEW L, NEW m, CursorIs(L, m),
         NEW K, NEW k \in Nat, Listed(K, k), m <= k, \A i \in 0 .. m - 1 : K[i] = L[i],
         NEW q, NEW at, off = Start(q, at), NEW len \in Nat, InRun(K, k, q, at, len), NEW n \in 1 .. len,
         off + n <= MaxSize, n < len => off + n = MaxSize,
         NEW v \in Values, disk' = WithStored(K[q], at, len, v),
         off' = off + n, size' = (IF off' > size THEN off' ELSE size), k = ClustersFromBytes(size'),
         out' = Returned("wrote", <<>>), Content' = BytesOf(disk', K, size')
  PROVE  Store!Write
  <1>1. ClusterSize \in Nat \ {0} /\ Total \in Nat /\ MaxSize \in Nat
    BY CursorConstants
  <1>2. off \in Nat /\ size \in Nat /\ off <= size /\ size <= MaxSize /\ m = ClustersFromBytes(size)
    BY <1>1 DEF CursorIs
  <1>4. size' \in Nat /\ size' <= MaxSize /\ off' <= size' /\ size <= size'
    BY <1>1, <1>2
  <1>5. ASSUME NEW p \in Nat, p < size'
        PROVE  ByteOf(disk', K, p) = IF p \in off .. off + n - 1 THEN v ELSE ByteOf(disk, L, p)
    <2>1. p \div ClusterSize \in 0 .. k - 1
      BY <1>4, <1>5, BytesHaveClusters
    <2>2. ByteOf(disk', K, p) = IF p \in Start(q, at) .. Start(q, at) + len - 1
                                THEN v ELSE ByteOf(disk, K, p)
      <3>1. p \div ClusterSize < k
        BY <2>1
      <3>2. QED
        BY <3>1, BytesWritten
    <2>3. ByteOf(disk', K, p) = IF p \in off .. off + len - 1 THEN v ELSE ByteOf(disk, K, p)
      BY <2>2
    <2>4. p \in off .. off + len - 1 <=> p \in off .. off + n - 1
      BY <1>1, <1>2, <1>4, <1>5
    <2>5. p \notin off .. off + n - 1 => p < size
      BY <1>2, <1>5
    <2>6. p < size => ByteOf(disk, K, p) = ByteOf(disk, L, p)
      <3>1. p < size => p \div ClusterSize \in 0 .. m - 1
        BY <1>2, BytesHaveClusters
      <3>2. QED
        BY <3>1 DEF ByteOf
    <2>7. QED
      BY <2>3, <2>4, <2>5, <2>6
  <1>6. Content = BytesOf(disk, L, size) /\ Len(Content) = size
    BY ContentIs
  <1>7. n \in 1 .. MaxSize - off
    BY <1>1, <1>2
  <1>8. Content' = [i \in 1 .. (IF off + n > Len(Content) THEN off + n ELSE Len(Content)) |->
                      IF i \in off + 1 .. off + n THEN v ELSE Content[i]]
    <2>1. ASSUME NEW i \in 1 .. size'
          PROVE  ByteOf(disk', K, i - 1) = IF i \in off + 1 .. off + n THEN v ELSE Content[i]
      <3>1. i - 1 \in Nat /\ i - 1 < size' /\ (i - 1 \in off .. off + n - 1 <=> i \in off + 1 .. off + n)
        BY <1>2, <1>4
      <3>2. i \notin off + 1 .. off + n => i \in 1 .. size
        BY <1>2
      <3>3. i \in 1 .. size => Content[i] = ByteOf(disk, L, i - 1)
        BY <1>6 DEF BytesOf
      <3>4. ByteOf(disk', K, i - 1) = IF i - 1 \in off .. off + n - 1 THEN v ELSE ByteOf(disk, L, i - 1)
        BY <3>1, <1>5
      <3>5. QED
        BY <3>1, <3>2, <3>3, <3>4
    <2>2. size' = IF off + n > Len(Content) THEN off + n ELSE Len(Content)
      BY <1>6
    <2>3. QED
      BY <2>1, <2>2 DEF BytesOf
  <1>9. out' = Store!Returned("wrote", <<>>)
    BY DEF Returned, Store!Returned
  <1>10. QED
    BY <1>7, <1>8, <1>9 DEF Store!Write

\* MultiWrite and SingleWrite, when the cluster at the offset is one of the chain.
LEMMA MultiWriteStep ==
  ASSUME CursorAssumption, NEW L, NEW m, CursorIs(L, m),
         NEW len \in 1 .. MaxBuf, NEW v \in Values, MultiWrite(len, v)
  PROVE  CursorIs(L, m)' /\ Store!Write
  <1> DEFINE q == off \div ClusterSize
             B == Batch(L[q], len)
             n == Least(B, MaxSize - off)
             t == (off + n - 1) \div ClusterSize
  <1>1. ClusterSize \in Nat \ {0} /\ Total \in Nat /\ MaxSize \in Nat /\ ~Defects /\ len \in Nat \ {0}
    BY CursorConstants
  <1>2. /\ off \in Nat /\ size \in Nat /\ off <= size /\ size <= MaxSize
        /\ m = ClustersFromBytes(size) /\ Chain(table, L, m) /\ first = FirstOf(L, m)
        /\ \A c \in Clusters : table[c] # Free <=> c \in Members(L, 0, m)
        /\ cur = IF off = 0 THEN None ELSE L[(off - 1) \div ClusterSize]
    BY <1>1 DEF CursorIs
  <1>3. /\ q \in 0 .. m - 1 /\ InCluster \in 0 .. ClusterSize - 1 /\ off = q * ClusterSize + InCluster
        /\ Here = L[q] /\ m \in Nat
    <2>1. m \in Nat
      BY <1>2 DEF Chain, Listed
    <2>2. Here # None
      BY DEF MultiWrite
    <2>3. /\ q \in 0 .. m /\ InCluster \in 0 .. ClusterSize - 1 /\ off = q * ClusterSize + InCluster
          /\ (q < m => Here = L[q]) /\ (q = m => Here = None)
      BY HereIs
    <2> HIDE DEF q
    <2>4. QED
      BY <2>1, <2>2, <2>3
  <1>4. /\ off < MaxSize /\ disk' = WithStored(L[q], 0, B, v) /\ off' = off + n
        /\ ~(OneTooFar(Here, off + n) \/ (off = 0 /\ ClusterDelta(n) = 0))
        /\ cur' = (IF ClusterDelta(off') > 0 THEN Forward(L[q], ClusterDelta(off')) ELSE cur)
        /\ size' = (IF off' > size THEN off' ELSE size)
        /\ out' = Returned("wrote", <<>>) /\ table' = table /\ first' = first /\ InCluster = 0
    BY <1>1, <1>3 DEF MultiWrite
  <1> HIDE DEF q
  <1>5. B \in 1 .. len /\ InRun(L, m, q, InCluster, B)
    BY <1>1, <1>2, <1>3, BatchFits
  <1> HIDE DEF B
  <1>6. n \in 1 .. B /\ off + n <= MaxSize /\ (n < B => off + n = MaxSize) /\ B \in Nat
    BY <1>1, <1>2, <1>4, <1>5 DEF Least
  <1> HIDE DEF n
  <1>7. t \in 0 .. m - 1 /\ q <= t
    <2>1. n \in 1 .. B
      BY <1>6
    <2>2. (Start(q, InCluster) + (n - 1)) \div ClusterSize \in 0 .. m - 1
      BY <2>1, <1>5, BytesRead
    <2>3. Start(q, InCluster) + (n - 1) = off + n - 1
      BY <1>3 DEF Start
    <2>4. t \in 0 .. m - 1
      BY <2>2, <2>3
    <2>5. off + n - 1 \in Nat /\ off <= off + n - 1
      BY <1>2, <1>6
    <2>6. q <= t
      BY <2>5, <1>1, <1>2, IndexMonotone DEF q
    <2>7. QED
      BY <2>4, <2>6
  <1> HIDE DEF t
  <1>8. size' \in 0 .. MaxSize /\ off' \in 1 .. size' /\ size' >= size
    BY <1>1, <1>2, <1>4, <1>6
  <1>9. ClustersFromBytes(size') = m
    <2>1. CASE size' = size
      BY <2>1, <1>2
    <2>2. CASE size' # size
      <3>1. size' = off + n /\ size' \in Nat \ {0} /\ size <= size'
        BY <2>2, <1>2, <1>4, <1>8
      <3>2. (size' - 1) \div ClusterSize < m
        <4>1. size' - 1 = off + n - 1
          BY <3>1, <1>2, <1>6
        <4>2. (size' - 1) \div ClusterSize = t
          BY <4>1 DEF t
        <4>3. QED
          BY <4>2, <1>3, <1>7
      <3>3. QED
        BY <3>1, <3>2, <1>2, BytesHaveClusters
    <2>3. QED
      BY <2>1, <2>2
  <1>10. cur' = L[t]
    <2>1. off + n \in Nat \ {0} /\ off <= off + n /\ q < m /\ t < m /\ ~OneTooFar(Here, off + n)
      <3>1. off + n \in Nat \ {0} /\ off <= off + n
        BY <1>2, <1>6
      <3>2. q < m /\ t < m
        BY <1>3, <1>7
      <3>3. ~OneTooFar(Here, off + n)
        BY <1>4, Zenon
      <3>4. QED
        BY <3>1, <3>2, <3>3
    <2>2. /\ ClusterDelta(off + n) > 0 => Forward(L[q], ClusterDelta(off + n)) = L[t]
          /\ ~(ClusterDelta(off + n) > 0) => t = 0 /\ q = 0 /\ ClusterDelta(off + n) = 0
      <3> DEFINE new == off + n
      <3>1. off \div ClusterSize < m /\ (new - 1) \div ClusterSize < m
            /\ off \div ClusterSize <= (new - 1) \div ClusterSize
        <4>1. off \div ClusterSize = q /\ (new - 1) \div ClusterSize = t
          <5>1. new - 1 = off + n - 1
            BY <1>2, <1>6
          <5> HIDE DEF new
          <5>2. QED
            BY <5>1, Zenon DEF q, t
        <4>2. QED
          BY <4>1, <2>1, <1>7
      <3> HIDE DEF new
      <3>2. /\ ClusterDelta(new) \in Nat
            /\ ClusterDelta(new) > 0 => Forward(Here, ClusterDelta(new)) = L[(new - 1) \div ClusterSize]
            /\ ~(ClusterDelta(new) > 0)
                 => (new - 1) \div ClusterSize = 0 /\ off \div ClusterSize = 0
        BY <3>1, <2>1, CursorMoves DEF new
      <3>3. QED
        <4>1. ClusterDelta(new) \in Nat => (~(ClusterDelta(new) > 0) => ClusterDelta(new) = 0)
          OBVIOUS
        <4>2. off \div ClusterSize = q /\ (new - 1) \div ClusterSize = t
          <5>1. new - 1 = off + n - 1
            BY <1>2, <1>6 DEF new
          <5>2. QED
            BY <5>1, Zenon DEF q, t
        <4>3. QED
          BY <4>1, <4>2, <3>2, <1>3, Zenon DEF new
    <2>3. CASE ClusterDelta(off + n) > 0
      BY <2>2, <2>3, <1>4
    <2>4. CASE ~(ClusterDelta(off + n) > 0)
      <3>1. off = 0
        BY <2>2, <2>4, <1>1, <1>3, <1>4
      <3>2. 0 + n = n
        BY <1>6
      <3>3. QED
        BY <3>1, <3>2, <2>2, <2>4, <1>4
    <2>5. QED
      BY <2>3, <2>4
  <1>11. CursorIs(L, m)'
    <2>1. off' # 0 /\ off' - 1 = off + n - 1
      BY <1>2, <1>4, <1>6, <1>8
    <2>2. cur' = IF off' = 0 THEN None ELSE L[(off' - 1) \div ClusterSize]
      BY <2>1, <1>10 DEF t
    <2>3. Chain(table', L, m) /\ first' = FirstOf(L, m) /\ m = ClustersFromBytes(size')
          /\ \A c \in Clusters : table'[c] # Free <=> c \in Members(L, 0, m)
      BY <1>2, <1>4, <1>9
    <2>4. off' \in 0 .. size'
      BY <1>8
    <2>5. QED
      BY <2>2, <2>3, <2>4, <1>8 DEF CursorIs, Chain
  <1>12. Store!Write
    <2>1. Content' = BytesOf(disk', L, size')
      BY <1>11, NextContentIs
    <2>2. Listed(L, m) /\ m <= m /\ q < m
      BY <1>2, <1>3 DEF Chain
    <2>3. off = Start(q, InCluster)
      BY <1>3 DEF Start
    <2>4. QED
      BY <2>1, <2>2, <2>3, <1>3, <1>4, <1>5, <1>6, <1>9, BytesPut
  <1>13. QED
    BY <1>11, <1>12

\* One cluster is a run of itself.
LEMMA OneCluster ==
  ASSUME CursorAssumption, NEW L, NEW m, NEW q \in 0 .. m - 1, Listed(L, m),
         NEW at \in 0 .. ClusterSize - 1, NEW len \in Nat, at + len <= ClusterSize
  PROVE  InRun(L, m, q, at, len)
  <1>1. ClusterSize \in Nat \ {0} /\ 1 * ClusterSize = ClusterSize /\ Total \in Nat
    BY CursorConstants
  <1>2. L[q] \in Nat /\ m \in Nat
    BY <1>1, ClusterNumbers DEF Listed
  <1>3. Consecutive(L, m, q, 1)
    <2>1. ASSUME NEW j \in 0 .. 1 - 1 PROVE q + j \in 0 .. m - 1 /\ L[q + j] = L[q] + j
      BY <1>2
    <2>2. QED
      BY <2>1 DEF Consecutive
  <1>4. QED
    BY <1>1, <1>3 DEF InRun

LEMMA WriteSizes ==
  ASSUME CursorAssumption, InCluster \in 0 .. ClusterSize - 1, off \in Nat, off < MaxSize,
         NEW len \in 1 .. MaxBuf, NEW n \in 1 .. WriteSize(len)
  PROVE  n \in Nat \ {0} /\ InCluster + n <= ClusterSize /\ off + n <= MaxSize
  BY CursorConstants DEF WriteSize, Least

\* At the cluster of the offset.
LEMMA WriteHereStep ==
  ASSUME CursorAssumption, NEW L, NEW m, CursorIs(L, m), off < MaxSize,
         NEW len \in 1 .. MaxBuf, NEW v \in Values, Here # None, Put(Here, len, v),
         UNCHANGED <<table, first>>
  PROVE  CursorIs(L, m)' /\ Store!Write
  <1> DEFINE q == off \div ClusterSize
  <1>1. ClusterSize \in Nat \ {0} /\ Total \in Nat /\ MaxSize \in Nat
    BY CursorConstants
  <1>2. /\ off \in Nat /\ size \in Nat /\ off <= size /\ size <= MaxSize
        /\ m = ClustersFromBytes(size) /\ Chain(table, L, m) /\ first = FirstOf(L, m)
        /\ \A c \in Clusters : table[c] # Free <=> c \in Members(L, 0, m)
    BY <1>1 DEF CursorIs
  <1>3. /\ q \in 0 .. m - 1 /\ InCluster \in 0 .. ClusterSize - 1 /\ off = q * ClusterSize + InCluster
        /\ Here = L[q] /\ m \in Nat
    <2>1. m \in Nat
      BY <1>2 DEF Chain, Listed
    <2>2. /\ q \in 0 .. m /\ InCluster \in 0 .. ClusterSize - 1 /\ off = q * ClusterSize + InCluster
          /\ (q < m => Here = L[q]) /\ (q = m => Here = None)
      BY HereIs
    <2> HIDE DEF q
    <2>3. QED
      BY <2>1, <2>2
  <1> HIDE DEF q
  <1>4. PICK n \in 1 .. WriteSize(len) :
          /\ disk' = WithStored(L[q], InCluster, n, v) /\ off' = off + n /\ cur' = L[q]
          /\ size' = (IF off' > size THEN off' ELSE size) /\ out' = Returned("wrote", <<>>)
    BY <1>3 DEF Put
  <1>5. n \in Nat \ {0} /\ InCluster + n <= ClusterSize /\ off + n <= MaxSize
    BY <1>2, <1>3, WriteSizes
  <1>6. InRun(L, m, q, InCluster, n)
    BY <1>2, <1>3, <1>5, OneCluster DEF Chain
  <1>7. (off + n - 1) \div ClusterSize = q
    <2>1. n \in 1 .. ClusterSize - InCluster /\ q \in Nat
      BY <1>1, <1>3, <1>5
    <2>2. (q * ClusterSize + InCluster + n - 1) \div ClusterSize = q
      BY <2>1, <1>3, SameCluster
    <2>3. QED
      BY <2>2, <1>3
  <1>8. size' \in 0 .. MaxSize /\ off' \in 1 .. size' /\ size' >= size
    BY <1>1, <1>2, <1>4, <1>5
  <1>9. ClustersFromBytes(size') = m
    <2>1. CASE size' = size
      BY <2>1, <1>2
    <2>2. CASE size' # size
      <3>1. size' = off + n /\ size' \in Nat \ {0} /\ size <= size'
        BY <2>2, <1>2, <1>4, <1>8
      <3>2. size' - 1 = off + n - 1
        BY <3>1, <1>2, <1>5
      <3>3. (size' - 1) \div ClusterSize = q
        BY <3>2, <1>7
      <3>4. (size' - 1) \div ClusterSize < m
        BY <3>3, <1>3
      <3>5. QED
        BY <3>1, <3>4, <1>2, BytesHaveClusters
    <2>3. QED
      BY <2>1, <2>2
  <1>10. CursorIs(L, m)'
    <2>1. off' # 0 /\ off' - 1 = off + n - 1
      BY <1>2, <1>4, <1>5, <1>8
    <2>2. (off' - 1) \div ClusterSize = q
      BY <2>1, <1>7
    <2>3. cur' = IF off' = 0 THEN None ELSE L[(off' - 1) \div ClusterSize]
      BY <2>1, <2>2, <1>4
    <2>4. Chain(table', L, m) /\ first' = FirstOf(L, m) /\ m = ClustersFromBytes(size')
          /\ \A c \in Clusters : table'[c] # Free <=> c \in Members(L, 0, m)
      BY <1>2, <1>4, <1>9
    <2>5. off' \in 0 .. size'
      BY <1>8
    <2>6. QED
      BY <2>3, <2>4, <2>5, <1>8 DEF CursorIs, Chain
  <1>11. Store!Write
    <2>1. Content' = BytesOf(disk', L, size')
      BY <1>10, NextContentIs
    <2>2. Listed(L, m) /\ m <= m /\ n \in Nat /\ n \in 1 .. n /\ ~(n < n)
      BY <1>2, <1>3, <1>5 DEF Chain
    <2>3. off = Start(q, InCluster)
      BY <1>3 DEF Start
    <2>4. QED
      BY <2>1, <2>2, <2>3, <1>3, <1>4, <1>5, <1>6, <1>9, BytesPut
  <1>12. QED
    BY <1>10, <1>11

\* At the end of the chain, in a new cluster.
LEMMA WriteNewStep ==
  ASSUME CursorAssumption, NEW L, NEW m, CursorIs(L, m), off < MaxSize,
         NEW len \in 1 .. MaxBuf, NEW v \in Values, Here = None, NEW new \in FreeIn(table),
         Put(new, len, v), table' = Extended(table, cur, new),
         first' = (IF first = None THEN new ELSE first)
  PROVE  CursorIs(Longer(L, m, new), m + 1)' /\ Store!Write
  <1> DEFINE q == off \div ClusterSize
             K == Longer(L, m, new)
             k == m + 1
  <1>1. ClusterSize \in Nat \ {0} /\ Total \in Nat /\ MaxSize \in Nat
    BY CursorConstants
  <1>2. /\ off \in Nat /\ size \in Nat /\ off <= size /\ size <= MaxSize
        /\ m = ClustersFromBytes(size) /\ Chain(table, L, m) /\ first = FirstOf(L, m)
        /\ \A c \in Clusters : table[c] # Free <=> c \in Members(L, 0, m)
    BY <1>1 DEF CursorIs
  <1>3. /\ m \in Nat /\ q = m /\ InCluster = 0 /\ off = m * ClusterSize + InCluster
        /\ off = size /\ cur = LastOf(L, m)
    <2>1. m \in Nat
      BY <1>2 DEF Chain, Listed
    <2>2. /\ q \in 0 .. m /\ InCluster \in 0 .. ClusterSize - 1 /\ off = q * ClusterSize + InCluster
          /\ (q < m => Here # None)
          /\ (q = m => off = size /\ InCluster = 0 /\ cur = LastOf(L, m))
      BY HereIs
    <2> HIDE DEF q
    <2>3. q = m
      BY <2>1, <2>2
    <2>4. QED
      BY <2>1, <2>2, <2>3
  <1> HIDE DEF q
  <1>4. PICK n \in 1 .. WriteSize(len) :
          /\ disk' = WithStored(new, InCluster, n, v) /\ off' = off + n /\ cur' = new
          /\ size' = (IF off' > size THEN off' ELSE size) /\ out' = Returned("wrote", <<>>)
    BY DEF Put
  <1>5. n \in Nat \ {0} /\ InCluster + n <= ClusterSize /\ off + n <= MaxSize
    <2>1. InCluster \in 0 .. ClusterSize - 1
      BY <1>1, <1>3
    <2>2. QED
      BY <2>1, <1>2, WriteSizes
  <1>6. /\ Chain(table', K, k) /\ new \in Clusters /\ new \notin Members(L, 0, m)
        /\ Members(K, 0, k) = Members(L, 0, m) \cup {new}
        /\ \A x \in Clusters : x # new /\ x \notin Members(L, 0, m) => table'[x] = table[x]
    BY <1>1, <1>2, <1>3, ExtendedChain
  <1>7. /\ k \in Nat /\ m <= k /\ m \in 0 .. k - 1 /\ K[m] = new
        /\ \A i \in 0 .. m - 1 : K[i] = L[i]
    BY <1>3 DEF Longer
  <1>8. first' = FirstOf(K, k)
    <2>1. CASE m = 0
      BY <2>1, <1>2, <1>7 DEF FirstOf
    <2>2. CASE m # 0
      <3>1. 0 \in 0 .. m - 1
        BY <2>2, <1>3
      <3>2. L[0] # None
        BY <3>1, <1>1, <1>2, NextOfChain
      <3>3. K[0] = L[0] /\ k # 0
        BY <3>1, <1>7
      <3>4. QED
        BY <2>2, <3>2, <3>3, <1>2 DEF FirstOf
    <2>3. QED
      BY <2>1, <2>2
  <1>9. \A c \in Clusters : table'[c] # Free <=> c \in Members(K, 0, k)
    <2>1. ASSUME NEW c \in Members(K, 0, k) PROVE table'[c] # Free
      <3>1. PICK i \in 0 .. k - 1 : c = K[i]
        BY DEF Members
      <3>2. QED
        BY <3>1, <1>1, <1>6, NextOfChain
    <2>2. QED
      BY <2>1, <1>2, <1>6
  <1> HIDE DEF K, k
  <1>10. InRun(K, k, m, InCluster, n)
    <2>1. InCluster \in 0 .. ClusterSize - 1 /\ Listed(K, k) /\ n \in Nat
      BY <1>1, <1>3, <1>5, <1>6 DEF Chain
    <2>2. QED
      BY <2>1, <1>5, <1>7, OneCluster
  <1>11. (off + n - 1) \div ClusterSize = m
    <2>1. n \in 1 .. ClusterSize - InCluster /\ InCluster \in 0 .. ClusterSize - 1
      BY <1>1, <1>3, <1>5
    <2>2. (m * ClusterSize + InCluster + n - 1) \div ClusterSize = m
      BY <2>1, <1>3, SameCluster
    <2>3. QED
      BY <2>2, <1>3
  <1>12. size' = off + n /\ size' \in 1 .. MaxSize /\ off' = size' /\ size' - 1 = off + n - 1
    <2>1. off = size
      BY <1>3
    <2>2. QED
      BY <2>1, <1>1, <1>2, <1>4, <1>5
  <1>13. k = ClustersFromBytes(size')
    <2>1. (size' - 1) \div ClusterSize = m
      BY <1>11, <1>12
    <2>2. size' \in Nat /\ size' # 0
      BY <1>12
    <2>3. QED
      BY <2>1, <2>2, ClustersOf DEF k
  <1>14. CursorIs(K, k)'
    <2>1. (off' - 1) \div ClusterSize = m
      BY <1>11, <1>12
    <2>2. cur' = IF off' = 0 THEN None ELSE K[(off' - 1) \div ClusterSize]
      BY <2>1, <1>4, <1>7, <1>12
    <2>3. size' \in 0 .. MaxSize /\ off' \in 0 .. size'
      BY <1>12
    <2>4. QED
      BY <2>2, <2>3, <1>6, <1>8, <1>9, <1>13 DEF CursorIs, Chain
  <1>15. Store!Write
    <2>1. Content' = BytesOf(disk', K, size')
      BY <1>14, NextContentIs
    <2>2. Listed(K, k) /\ n \in Nat /\ n \in 1 .. n /\ ~(n < n)
      BY <1>5, <1>6 DEF Chain
    <2>3. off = Start(m, InCluster) /\ disk' = WithStored(K[m], InCluster, n, v)
      BY <1>3, <1>4, <1>7 DEF Start
    <2>4. QED
      BY <2>1, <2>2, <2>3, <1>4, <1>5, <1>7, <1>10, <1>13, BytesPut
  <1>16. QED
    BY <1>14, <1>15 DEF K, k

\* What a batch returns are bytes of the file.
LEMMA BatchRead ==
  ASSUME CursorAssumption, NEW L, NEW m, CursorIs(L, m), NEW q, NEW len,
         off = Start(q, InCluster), InRun(L, m, q, InCluster, len), NEW n \in 1 .. len, off + n <= size,
         off' = off + n, out' = Returned("read", Stored(L[q], InCluster, n)),
         UNCHANGED <<table, disk, first, size>>
  PROVE  Store!Read
  <1>1. off \in Nat /\ size \in Nat /\ off <= size /\ len \in Nat
    BY CursorConstants DEF CursorIs, InRun
  <1>2. Content = BytesOf(disk, L, size) /\ Len(Content) = size
    BY ContentIs
  <1>3. SubSeq(Content, off + 1, off + n) = [i \in 1 .. n |-> Content[off + i]]
    <2>1. Content = [i \in 1 .. size |-> Content[i]]
      BY <1>2 DEF BytesOf
    <2>2. off \in 0 .. size /\ n \in 0 .. size - off
      BY <1>1
    <2>3. QED
      BY <2>1, <2>2, <1>1, SubSequence
  <1>4. Stored(L[q], InCluster, n) = [i \in 1 .. n |-> Content[off + i]]
    <2>1. ASSUME NEW i \in 1 .. n
          PROVE  Stored(L[q], InCluster, n)[i] = Content[off + i]
      <3>1. i \in 1 .. len /\ off + i \in 1 .. size /\ (off + i) - 1 = off + (i - 1)
        BY <1>1
      <3>2. Content[off + i] = ByteOf(disk, L, (off + i) - 1)
        BY <3>1, <1>2 DEF BytesOf
      <3>3. Stored(L[q], InCluster, len)[i] = ByteOf(disk, L, off + (i - 1))
        BY <3>1, BytesRead
      <3>4. Stored(L[q], InCluster, n)[i] = Stored(L[q], InCluster, len)[i]
        BY <3>1 DEF Stored
      <3>5. QED
        BY <3>1, <3>2, <3>3, <3>4
    <2>2. Stored(L[q], InCluster, n) = [i \in 1 .. n |-> Stored(L[q], InCluster, n)[i]]
      BY DEF Stored
    <2>3. QED
      BY <2>1, <2>2
  <1>5. out' = Store!Returned("read", SubSeq(Content, off + 1, off + n))
    BY <1>3, <1>4 DEF Returned, Store!Returned
  <1>6. Content' = Content
    BY DEF Content
  <1>7. n \in 1 .. Len(Content) - off
    BY <1>1, <1>2
  <1>8. QED
    BY <1>5, <1>6, <1>7 DEF Store!Read

\* A move of the cursor keeps the chain.
LEMMA Moved ==
  ASSUME NEW L, NEW m, CursorIs(L, m), UNCHANGED <<table, first, size>>, off' \in 0 .. size,
         cur' = IF off' = 0 THEN None ELSE L[(off' - 1) \div ClusterSize]
  PROVE  CursorIs(L, m)'
  <1>1. /\ Chain(table', L, m) /\ first' = FirstOf(L, m) /\ size' = size
        /\ \A c \in Clusters : table'[c] # Free <=> c \in Members(L, 0, m)
        /\ size \in 0 .. MaxSize /\ m = ClustersFromBytes(size)
    BY DEF CursorIs
  <1>2. QED
    BY <1>1 DEF CursorIs, Chain

LEMMA SingleReadStep ==
  ASSUME CursorAssumption, NEW L, NEW m, CursorIs(L, m), NEW len \in 1 .. MaxBuf, SingleRead(len)
  PROVE  CursorIs(L, m)' /\ Store!Read
  <1> DEFINE q == off \div ClusterSize
  <1>1. ClusterSize \in Nat \ {0} /\ Total \in Nat /\ MaxSize \in Nat
    BY CursorConstants
  <1>2. off \in Nat /\ size \in Nat /\ off <= size /\ Chain(table, L, m)
    BY <1>1 DEF CursorIs
  <1>3. /\ q \in 0 .. m - 1 /\ InCluster \in 0 .. ClusterSize - 1 /\ off = q * ClusterSize + InCluster
        /\ Here = L[q] /\ m \in Nat
    <2>1. m \in Nat /\ Here # None
      BY <1>2 DEF Chain, Listed, SingleRead
    <2>2. /\ q \in 0 .. m /\ InCluster \in 0 .. ClusterSize - 1 /\ off = q * ClusterSize + InCluster
          /\ (q < m => Here = L[q]) /\ (q = m => Here = None)
      BY HereIs
    <2> HIDE DEF q
    <2>3. QED
      BY <2>1, <2>2
  <1> HIDE DEF q
  <1>4. PICK n \in 1 .. Least(Least(len, ClusterSize - InCluster), size - off) :
          /\ off' = off + n /\ cur' = L[q] /\ out' = Returned("read", Stored(L[q], InCluster, n))
    BY <1>3 DEF SingleRead
  <1>5. UNCHANGED <<table, disk, first, size>>
    BY DEF SingleRead
  <1>6. n \in Nat \ {0} /\ InCluster + n <= ClusterSize /\ off + n <= size
    <2>1. InCluster \in 0 .. ClusterSize - 1
      BY <1>3
    <2>2. QED
      BY <2>1, <1>1, <1>2 DEF Least
  <1>7. CursorIs(L, m)'
    <2>1. n \in 1 .. ClusterSize - InCluster /\ q \in Nat /\ InCluster \in 0 .. ClusterSize - 1
      BY <1>1, <1>3, <1>6
    <2>2. (q * ClusterSize + InCluster + n - 1) \div ClusterSize = q
      BY <2>1, SameCluster
    <2>3. off' # 0 /\ off' - 1 = off + n - 1 /\ off' \in 0 .. size
      BY <1>2, <1>4, <1>6
    <2>4. (off' - 1) \div ClusterSize = q
      BY <2>2, <2>3, <1>3
    <2>5. cur' = IF off' = 0 THEN None ELSE L[(off' - 1) \div ClusterSize]
      BY <2>3, <2>4, <1>4
    <2>6. QED
      BY <2>3, <2>5, <1>5, Moved
  <1>8. Store!Read
    <2>1. InRun(L, m, q, InCluster, n)
      BY <1>2, <1>3, <1>6, OneCluster DEF Chain
    <2>2. off = Start(q, InCluster) /\ n \in 1 .. n
      BY <1>3, <1>6 DEF Start
    <2>3. QED
      BY <2>1, <2>2, <1>4, <1>5, <1>6, BatchRead
  <1>9. QED
    BY <1>7, <1>8

\* At the end of the file nothing is returned, and only there.
LEMMA NothingRead ==
  ASSUME CursorAssumption, NEW L, NEW m, CursorIs(L, m), off = size,
         out' = Returned("end", <<>>), UNCHANGED <<table, disk, first, off, size>>
  PROVE  Store!ReadNothing
  <1>1. Len(Content) = size
    BY ContentIs
  <1>2. Content' = Content
    BY DEF Content
  <1>3. QED
    BY <1>1, <1>2 DEF Store!ReadNothing, Returned, Store!Returned

LEMMA ReadNothingStep ==
  ASSUME CursorAssumption, NEW L, NEW m, CursorIs(L, m), ReadNothing
  PROVE  CursorIs(L, m)' /\ Store!ReadNothing
  <1>1. off = size
    <2>1. CASE size = off
      BY <2>1
    <2>2. CASE Here = None
      <3> DEFINE q == off \div ClusterSize
      <3>1. q \in 0 .. m /\ (q < m => Here # None) /\ (q = m => off = size)
        BY HereIs
      <3>2. m \in Nat
        BY DEF CursorIs, Chain, Listed
      <3> HIDE DEF q
      <3>3. QED
        BY <3>1, <3>2, <2>2
    <2>3. QED
      BY <2>1, <2>2 DEF ReadNothing
  <1>2. UNCHANGED <<table, disk, first, cur, off, size>> /\ out' = Returned("end", <<>>)
    BY DEF ReadNothing
  <1>3. CursorIs(L, m)'
    BY <1>2, Moved DEF CursorIs
  <1>4. QED
    BY <1>1, <1>2, <1>3, NothingRead

LEMMA MultiReadStep ==
  ASSUME CursorAssumption, NEW L, NEW m, CursorIs(L, m), NEW len \in 1 .. MaxBuf, MultiRead(len)
  PROVE  CursorIs(L, m)' /\ (Store!Read \/ Store!ReadNothing)
  <1> DEFINE q == off \div ClusterSize
             B == Batch(L[q], len)
  <1>1. ClusterSize \in Nat \ {0} /\ Total \in Nat /\ MaxSize \in Nat /\ ~Defects /\ len \in Nat \ {0}
    BY CursorConstants
  <1>2. /\ off \in Nat /\ size \in Nat /\ off <= size /\ Chain(table, L, m)
        /\ m = ClustersFromBytes(size)
        /\ cur = IF off = 0 THEN None ELSE L[(off - 1) \div ClusterSize]
    BY <1>1 DEF CursorIs
  <1>3. /\ q \in 0 .. m - 1 /\ InCluster \in 0 .. ClusterSize - 1 /\ off = q * ClusterSize + InCluster
        /\ Here = L[q] /\ m \in Nat /\ q < m
    <2>1. m \in Nat /\ Here # None
      BY <1>2 DEF Chain, Listed, MultiRead
    <2>2. /\ q \in 0 .. m /\ InCluster \in 0 .. ClusterSize - 1 /\ off = q * ClusterSize + InCluster
          /\ (q < m => Here = L[q]) /\ (q = m => Here = None)
      BY HereIs
    <2> HIDE DEF q
    <2>3. QED
      BY <2>1, <2>2
  <1>4. PICK asked \in 1 .. B :
          LET n == Least(asked, size - off) IN
          /\ ~OneTooFar(Here, off + n)
          /\ off' = off + n
          /\ cur' = (IF ClusterDelta(off') > 0 THEN Forward(Here, ClusterDelta(off')) ELSE Here)
          /\ out' = IF n = 0 THEN Returned("end", <<>>)
                    ELSE Returned("read", Stored(Here, InCluster, n))
    BY <1>1, <1>3 DEF MultiRead
  <1>5. UNCHANGED <<table, disk, first, size>>
    BY DEF MultiRead
  <1> DEFINE n == Least(asked, size - off)
             t == (off + n - 1) \div ClusterSize
  <1>6. B \in 1 .. len /\ InRun(L, m, q, InCluster, B)
    <2> HIDE DEF q
    <2>1. QED
      BY <1>1, <1>2, <1>3, BatchFits
  <1> HIDE DEF B, q
  <1>7. n \in 0 .. B /\ off + n <= size /\ (n = 0 => off = size) /\ B \in Nat
    BY <1>2, <1>4, <1>6 DEF Least
  <1>8. /\ ~OneTooFar(Here, off + n) /\ off' = off + n
        /\ cur' = (IF ClusterDelta(off') > 0 THEN Forward(Here, ClusterDelta(off')) ELSE Here)
        /\ out' = IF n = 0 THEN Returned("end", <<>>)
                  ELSE Returned("read", Stored(Here, InCluster, n))
    BY <1>4
  <1> HIDE DEF n
  <1>9. off + n \in Nat \ {0} /\ off <= off + n /\ t \in 0 .. m - 1 /\ q <= t
    <2>1. CASE n = 0
      <3>1. m # 0 /\ off = size /\ off + n = off
        BY <2>1, <1>2, <1>3, <1>7
      <3>2. size # 0
        BY <3>1, <1>2, BytesHaveClusters
      <3>3. m = (size - 1) \div ClusterSize + 1 /\ (size - 1) \div ClusterSize \in Nat
        BY <3>2, <1>1, <1>2, ClustersOf, IndexBefore
      <3>4. off + n - 1 = size - 1
        BY <3>1, <1>2, <2>1
      <3>5. t = (size - 1) \div ClusterSize
        BY <3>4
      <3> HIDE DEF t
      <3>6. QED
        BY <3>1, <3>2, <3>3, <3>5, <1>2, <1>3
    <2>2. CASE n # 0
      <3>1. n \in 1 .. B
        BY <2>2, <1>7
      <3>2. (Start(q, InCluster) + (n - 1)) \div ClusterSize \in 0 .. m - 1
        BY <3>1, <1>6, BytesRead
      <3>3. Start(q, InCluster) + (n - 1) = off + n - 1
        BY <1>3 DEF Start
      <3>4. t \in 0 .. m - 1
        BY <3>2, <3>3
      <3>5. off + n - 1 \in Nat /\ off <= off + n - 1
        BY <3>1, <1>2
      <3>6. q <= t
        BY <3>5, <1>1, <1>2, IndexMonotone DEF q
      <3>7. off + n \in Nat \ {0} /\ off <= off + n
        BY <3>1, <1>2
      <3>8. QED
        BY <3>4, <3>6, <3>7
    <2>3. QED
      BY <2>1, <2>2
  <1>10. cur' = L[t]
    <2> DEFINE new == off + n
    <2>1. (new - 1) \div ClusterSize = t
      <3>1. new - 1 = off + n - 1
        BY <1>2, <1>7
      <3> HIDE DEF new
      <3>2. QED
        BY <3>1
    <2> HIDE DEF t
    <2>2. t < m
      BY <1>3, <1>9
    <2>3. off \div ClusterSize = q
      BY DEF q
    <2>4. /\ new \in Nat \ {0} /\ off <= new /\ ~OneTooFar(Here, new)
      BY <1>8, <1>9
    <2>5. off' = new
      BY <1>8
    <2> HIDE DEF new
    <2>6. /\ ClusterDelta(new) > 0 => Forward(Here, ClusterDelta(new)) = L[t]
          /\ ~(ClusterDelta(new) > 0) => Here = L[t]
      BY <2>1, <2>2, <2>3, <2>4, <1>3, <1>9, CursorMoves
    <2>7. QED
      BY <2>5, <2>6, <1>8
  <1>11. CursorIs(L, m)'
    <2>1. off' \in 0 .. size /\ off' # 0 /\ off' - 1 = off + n - 1
      BY <1>2, <1>7, <1>8, <1>9
    <2>2. (off' - 1) \div ClusterSize = t
      BY <2>1
    <2>3. QED
      BY <2>1, <2>2, <1>5, <1>10, Moved
  <1>12. Store!Read \/ Store!ReadNothing
    <2>1. CASE n = 0
      <3>1. off = size /\ off' = off /\ out' = Returned("end", <<>>)
        BY <2>1, <1>2, <1>7, <1>8
      <3>2. QED
        BY <3>1, <1>5, NothingRead
    <2>2. CASE n # 0
      <3>1. n \in 1 .. B /\ out' = Returned("read", Stored(L[q], InCluster, n))
        BY <2>2, <1>3, <1>7, <1>8
      <3>2. off = Start(q, InCluster)
        BY <1>3 DEF Start
      <3>3. QED
        BY <3>1, <3>2, <1>5, <1>6, <1>7, <1>8, BatchRead
    <2>3. QED
      BY <2>1, <2>2
  <1>13. QED
    BY <1>11, <1>12

LEMMA SeekStep ==
  ASSUME CursorAssumption, NEW L, NEW m, CursorIs(L, m), NEW n \in 0 .. MaxSize, SeekTo(n)
  PROVE  CursorIs(L, m)' /\ Store!Seek
  <1>1. ClusterSize \in Nat \ {0} /\ Total \in Nat /\ MaxSize \in Nat
    BY CursorConstants
  <1>2. /\ off \in Nat /\ size \in Nat /\ off <= size /\ Chain(table, L, m) /\ first = FirstOf(L, m)
        /\ m = ClustersFromBytes(size) /\ m \in Nat
        /\ cur = IF off = 0 THEN None ELSE L[(off - 1) \div ClusterSize]
    BY <1>1 DEF CursorIs, Chain, Listed
  <1>3. UNCHANGED <<table, disk, first, size>> /\ out' = Returned("none", <<>>) /\ n \in 0 .. size
    BY DEF SeekTo
  <1>4. /\ off' \in 0 .. size
        /\ cur' = IF off' = 0 THEN None ELSE L[(off' - 1) \div ClusterSize]
    <2>1. CASE n = off /\ UNCHANGED <<off, cur>>
      BY <2>1, <1>2
    <2>2. CASE off' = 0 /\ cur' = None
      BY <2>2, <1>2
    <2>3. CASE /\ n \notin {0, off} /\ first # None
               /\ ClustersFromBytes(n) = ClustersFromBytes(off) /\ off' = n /\ cur' = cur
      <3>1. n \in Nat /\ n # 0
        BY <2>3, <1>3
      <3>2. ClustersFromBytes(n) = (n - 1) \div ClusterSize + 1 /\ (n - 1) \div ClusterSize \in Nat
        BY <3>1, <1>1, ClustersOf, IndexBefore
      <3>3. off # 0 => /\ ClustersFromBytes(off) = (off - 1) \div ClusterSize + 1
                       /\ (off - 1) \div ClusterSize \in Nat
        BY <1>1, <1>2, ClustersOf, IndexBefore
      <3>4. off = 0 => ClustersFromBytes(off) = 0
        BY ClustersOf
      <3>5. off # 0 /\ (n - 1) \div ClusterSize = (off - 1) \div ClusterSize
        <4> DEFINE a == (n - 1) \div ClusterSize
                   b == (off - 1) \div ClusterSize
        <4>1. ClustersFromBytes(n) = a + 1 /\ a \in Nat
          BY <3>2
        <4>2. off # 0 => ClustersFromBytes(off) = b + 1 /\ b \in Nat
          BY <3>3
        <4> HIDE DEF a, b
        <4>3. off # 0 /\ a = b
          BY <4>1, <4>2, <2>3, <3>4
        <4>4. QED
          BY <4>3 DEF a, b
      <3>6. QED
        BY <3>1, <3>5, <2>3, <1>2, <1>3
    <2>4. CASE /\ n \notin {0, off} /\ first # None
               /\ LET k == Reach(first, Skip(n)) IN
                  /\ off' = IF k < Skip(n) THEN (k + 1) * ClusterSize ELSE n
                  /\ cur' = Walk(table, first, k)
      <3> DEFINE b == (n - 1) \div ClusterSize
      <3>1. n \in Nat /\ n # 0 /\ n - 1 \in Nat /\ n - 1 < size
        BY <2>4, <1>2, <1>3
      <3>2. ClustersFromBytes(n) = b + 1 /\ b \in Nat
        BY <3>1, <1>1, ClustersOf, IndexBefore
      <3>3. b \in 0 .. m - 1
        BY <3>1, <1>2, BytesHaveClusters
      <3> HIDE DEF b
      <3>4. Skip(n) = b
        BY <3>2 DEF Skip
      <3>5. first = L[0] /\ 0 \in 0 .. m - 1 /\ 0 + b < m /\ 0 + b = b
        BY <3>3, <1>2 DEF FirstOf
      <3>6. Reach(L[0], b) = b
        <4>1. Reach(L[0], b) = IF 0 + b < m THEN b ELSE m - 1 - 0
          BY <3>2, <3>5, <1>1, <1>2, ForwardOfChain
        <4>2. QED
          BY <4>1, <3>5
      <3>7. Walk(table, L[0], b) = L[b]
        BY <3>2, <3>5, <1>1, <1>2, WalkOfChain
      <3>8. off' = n /\ cur' = L[b]
        <4>1. ~(b < b)
          BY <3>2
        <4>2. QED
          BY <4>1, <2>4, <3>4, <3>5, <3>6, <3>7
      <3>9. QED
        BY <3>1, <3>8, <1>3 DEF b
    <2>5. QED
      BY <2>1, <2>2, <2>3, <2>4 DEF SeekTo
  <1>5. CursorIs(L, m)'
    BY <1>3, <1>4, Moved
  <1>6. Store!Seek
    <2>1. Len(Content) = size
      BY ContentIs
    <2>2. Content' = Content
      BY <1>3 DEF Content
    <2>3. QED
      BY <2>1, <2>2, <1>3, <1>4 DEF Store!Seek, Returned, Store!Returned
  <1>7. QED
    BY <1>5, <1>6

\* What is left of a file is the beginning of what it was.
LEMMA Shortened ==
  ASSUME CursorAssumption, NEW L, NEW m, CursorIs(L, m), NEW K, NEW k, CursorIs(K, k)',
         k <= m, \A i \in 0 .. k - 1 : K[i] = L[i],
         UNCHANGED <<disk, off>>, size' = off, out' = Returned("none", <<>>)
  PROVE  Store!Truncate
  <1>1. off \in Nat /\ size \in Nat /\ off <= size
    BY CursorConstants DEF CursorIs
  <1>2. Content = BytesOf(disk, L, size) /\ Len(Content) = size
    BY ContentIs
  <1>3. Content' = BytesOf(disk, K, off)
    BY NextContentIs
  <1>4. k = ClustersFromBytes(off)
    BY DEF CursorIs
  <1>5. SubSeq(Content, 1, off) = [i \in 1 .. off |-> Content[i]]
    <2>1. Content = [i \in 1 .. size |-> Content[i]]
      BY <1>2 DEF BytesOf
    <2>2. 0 \in 0 .. size /\ off \in 0 .. size - 0
      BY <1>1
    <2>3. SubSeq(Content, 0 + 1, 0 + off) = [i \in 1 .. off |-> Content[0 + i]]
      BY <2>1, <2>2, <1>1, SubSequence
    <2>4. 0 + 1 = 1 /\ 0 + off = off /\ \A i \in 1 .. off : 0 + i = i
      BY <1>1
    <2>5. QED
      BY <2>3, <2>4
  <1>6. ASSUME NEW i \in 1 .. off PROVE ByteOf(disk, K, i - 1) = Content[i]
    <2>1. i \in 1 .. size /\ i - 1 \in Nat /\ i - 1 < off
      BY <1>1
    <2>2. (i - 1) \div ClusterSize \in 0 .. k - 1
      BY <2>1, <1>1, <1>4, BytesHaveClusters
    <2>3. Content[i] = ByteOf(disk, L, i - 1)
      BY <2>1, <1>2 DEF BytesOf
    <2>4. QED
      BY <2>2, <2>3 DEF ByteOf
  <1>7. Content' = SubSeq(Content, 1, off)
    BY <1>3, <1>5, <1>6 DEF BytesOf
  <1>8. QED
    BY <1>7 DEF Store!Truncate, Returned, Store!Returned

LEMMA TruncateStep ==
  ASSUME CursorAssumption, NEW L, NEW m, CursorIs(L, m), TruncateHere
  PROVE  CursorInv' /\ Store!Truncate
  <1>1. ClusterSize \in Nat \ {0} /\ Total \in Nat /\ MaxSize \in Nat
    BY CursorConstants
  <1>2. /\ off \in Nat /\ size \in Nat /\ off <= size /\ size <= MaxSize
        /\ Chain(table, L, m) /\ first = FirstOf(L, m)
        /\ m = ClustersFromBytes(size) /\ m \in Nat
        /\ \A c \in Clusters : table[c] # Free <=> c \in Members(L, 0, m)
        /\ cur = IF off = 0 THEN None ELSE L[(off - 1) \div ClusterSize]
    BY <1>1 DEF CursorIs, Chain, Listed
  <1>3. UNCHANGED <<disk, off, cur>> /\ size' = off /\ out' = Returned("none", <<>>)
    BY DEF TruncateHere
  <1>4. off # 0 => (off - 1) \div ClusterSize \in 0 .. m - 1
    <2>1. off # 0 => off - 1 \in Nat /\ off - 1 < size
      BY <1>2
    <2>2. QED
      BY <2>1, <1>2, BytesHaveClusters
  <1>5. CASE off # 0
    <2> DEFINE b == (off - 1) \div ClusterSize
               K == Shorter(L, b)
    <2>1. b \in 0 .. m - 1 /\ cur = L[b]
      BY <1>2, <1>4, <1>5
    <2>2. ClustersFromBytes(off) = b + 1
      BY <1>2, <1>5, ClustersOf
    <2> HIDE DEF b
    <2>3. L[b] # None /\ L[b] \in Clusters
      BY <2>1, <1>1, <1>2, NextOfChain
    <2>4. table' = CutAfter(table, L[b]) /\ first' = first
      BY <2>1, <2>3 DEF TruncateHere
    <2> DEFINE k == b + 1
               u == CutAfter(table, L[b])
    <2>5. /\ Chain(u, K, k)
          /\ \A x \in Clusters : u[x] =
               IF x = L[b] THEN EOC ELSE IF x \in Members(L, k, m) THEN Free ELSE table[x]
          /\ Members(K, 0, k) = Members(L, 0, k)
          /\ Members(L, 0, m) = Members(L, 0, k) \cup Members(L, k, m)
          /\ Members(L, 0, k) \cap Members(L, k, m) = {}
      <3>1. Total \in Nat /\ Chain(table, L, m)
        BY <1>1, <1>2
      <3>2. QED
        BY <2>1, <3>1, CutChain
    <2>k. k \in Nat /\ k # 0 /\ k <= m /\ 0 .. k - 1 = 0 .. b /\ table' = u
      BY <2>1, <2>4, <1>2
    <2> HIDE DEF u
    <2>6. \A i \in 0 .. b : K[i] = L[i]
      BY DEF Shorter
    <2>7. L[b] \in Members(L, 0, k)
      BY <2>1 DEF Members
    <2>8. ClustersFromBytes(off) = k
      BY <2>2
    <2> HIDE DEF K, k
    <2>9. \A c \in Clusters : table'[c] # Free <=> c \in Members(K, 0, k)
      <3>1. EOC # Free
        BY DEF EOC, Free
      <3>2. QED
        BY <3>1, <2>5, <2>7, <2>k, <1>2
    <2>10. first' = FirstOf(K, k)
      <3>1. 0 \in 0 .. b /\ m # 0
        BY <2>1, <1>2
      <3>2. QED
        BY <3>1, <2>4, <2>6, <2>k, <1>2 DEF FirstOf
    <2>11. cur' = IF off' = 0 THEN None ELSE K[(off' - 1) \div ClusterSize]
      <3>1. b \in 0 .. b
        BY <2>1
      <3>2. QED
        BY <3>1, <2>1, <2>6, <1>3, <1>5 DEF b
    <2>12. PICK N, n : N = K /\ n = k
      OBVIOUS
    <2>13. CursorIs(N, n)'
      <3>1. size' \in 0 .. MaxSize /\ off' \in 0 .. size' /\ n = ClustersFromBytes(size')
        BY <2>8, <2>12, <1>1, <1>2, <1>3
      <3>2. Chain(table', N, n)
        BY <2>5, <2>12, <2>k
      <3>3. QED
        BY <3>1, <3>2, <2>9, <2>10, <2>11, <2>12 DEF CursorIs, Chain
    <2>14. Store!Truncate
      <3>1. n <= m /\ \A i \in 0 .. n - 1 : N[i] = L[i]
        BY <2>6, <2>12, <2>k
      <3>2. QED
        BY <3>1, <2>13, <1>3, Shortened
    <2>15. QED
      BY <2>13, <2>14 DEF CursorInv
  <1>6. CASE off = 0
    <2> DEFINE K == [i \in 0 .. -1 |-> None]
    <2>1. cur = None
      BY <1>2, <1>6
    <2>2. table' = (IF first = None THEN table ELSE Released(table, first)) /\ first' = None
      BY <2>1 DEF TruncateHere
    <2>3. \A c \in Clusters : table'[c] = Free
      <3>1. CASE m = 0
        <4>1. first = None /\ Members(L, 0, m) = {}
          BY <3>1, <1>2 DEF FirstOf, Members
        <4>2. QED
          BY <4>1, <2>2, <1>2
      <3>2. CASE m # 0
        <4>1. first = L[0] /\ 0 \in 0 .. m - 1
          BY <3>2, <1>2 DEF FirstOf
        <4>2. L[0] # None
          BY <4>1, <1>1, <1>2, NextOfChain
        <4>3. \A x \in Clusters : Released(table, L[0])[x]
                                    = IF x \in Members(L, 0, m) THEN Free ELSE table[x]
          BY <3>2, <1>1, <1>2, ReleasedChain
        <4>4. QED
          BY <4>1, <4>2, <4>3, <2>2, <1>2
      <3>3. QED
        BY <3>1, <3>2
    <2>4. Chain(table', K, 0)
      BY EmptyChain
    <2>5. Members(K, 0, 0) = {}
      BY DEF Members
    <2> HIDE DEF K
    <2>6. CursorIs(K, 0)'
      <3>1. /\ size' = 0 /\ off' = 0 /\ 0 \in 0 .. MaxSize /\ 0 \in 0 .. 0 /\ cur' = None
            /\ 0 = ClustersFromBytes(0)
        BY <2>1, <1>1, <1>3, <1>6, ClustersOf
      <3>2. QED
        BY <3>1, <2>2, <2>3, <2>4, <2>5 DEF CursorIs, FirstOf, Chain
    <2>7. Store!Truncate
      <3>1. 0 <= m /\ \A i \in 0 .. 0 - 1 : K[i] = L[i]
        BY <1>2
      <3>2. QED
        BY <3>1, <2>6, <1>3, Shortened
    <2>8. QED
      BY <2>6, <2>7 DEF CursorInv
  <1>7. QED
    BY <1>5, <1>6

LEMMA WriteNothingStep ==
  ASSUME CursorAssumption, NEW L, NEW m, CursorIs(L, m), WriteNothing
  PROVE  CursorIs(L, m)' /\ Store!WriteNothing
  <1>1. UNCHANGED <<table, disk, first, cur, off, size>> /\ out' = Returned("full", <<>>) /\ off = MaxSize
    BY DEF WriteNothing
  <1>2. CursorIs(L, m)'
    BY <1>1, Moved DEF CursorIs
  <1>3. Content' = Content
    BY <1>1 DEF Content
  <1>4. QED
    BY <1>1, <1>2, <1>3 DEF Store!WriteNothing, Returned, Store!Returned

LEMMA CursorStarts ==
  ASSUME CursorAssumption, CursorInit
  PROVE  CursorInv /\ Store!Init
  <1> DEFINE K == [i \in 0 .. -1 |-> None]
  <1>1. table = [c \in Clusters |-> Free] /\ first = None /\ cur = None /\ off = 0 /\ size = 0
        /\ out = Returned("none", <<>>)
    BY DEF CursorInit
  <1>2. Chain(table, K, 0) /\ Members(K, 0, 0) = {}
    BY EmptyChain DEF Members
  <1> HIDE DEF K
  <1>3. 0 \in 0 .. MaxSize /\ 0 \in 0 .. 0 /\ 0 = ClustersFromBytes(0)
    BY CursorConstants, ClustersOf
  <1>4. CursorIs(K, 0)
    BY <1>1, <1>2, <1>3 DEF CursorIs, FirstOf
  <1>5. Content = <<>>
    <2>1. Content = BytesOf(disk, K, 0)
      BY <1>1, <1>4, ContentIs
    <2>2. BytesOf(disk, K, 0) = <<>>
      BY DEF BytesOf
    <2>3. QED
      BY <2>1, <2>2
  <1>6. QED
    BY <1>1, <1>4, <1>5 DEF CursorInv, Store!Init, Returned, Store!Returned

LEMMA CursorSteps ==
  ASSUME CursorAssumption, CursorInv, [CursorNext]_cursorVars
  PROVE  CursorInv' /\ [Store!Next]_(Store!vars)
  <1>1. PICK L, m : CursorIs(L, m)
    BY DEF CursorInv
  <1>2. CASE UNCHANGED cursorVars
    <2>1. UNCHANGED <<table, disk, first, cur, off, size, out>>
      BY <1>2 DEF cursorVars
    <2>2. CursorIs(L, m)'
      BY <1>1, <2>1, Moved DEF CursorIs
    <2>3. Content' = Content
      BY <2>1 DEF Content
    <2>4. QED
      BY <2>1, <2>2, <2>3 DEF CursorInv, Store!vars
  <1>3. CASE \E len \in 1 .. MaxBuf, v \in Values : MultiWrite(len, v)
    BY <1>1, <1>3, MultiWriteStep DEF CursorInv, Store!Next
  <1>4. ASSUME NEW len \in 1 .. MaxBuf, NEW v \in Values, SingleWrite(len, v)
        PROVE  CursorInv' /\ Store!Write
    <2>0. off < MaxSize
      BY <1>4 DEF SingleWrite
    <2>1. CASE Here # None /\ Put(Here, len, v) /\ UNCHANGED <<table, first>>
      BY <2>0, <2>1, <1>1, WriteHereStep DEF CursorInv
    <2>2. ASSUME NEW new \in FreeIn(table), Here = None, Put(new, len, v),
                 table' = Extended(table, cur, new),
                 first' = (IF first = None THEN new ELSE first)
          PROVE  CursorInv' /\ Store!Write
      <3>1. CursorIs(Longer(L, m, new), m + 1)' /\ Store!Write
        BY <2>0, <2>2, <1>1, WriteNewStep
      <3>2. QED
        BY <3>1 DEF CursorInv
    <2>3. QED
      BY <1>4, <2>1, <2>2 DEF SingleWrite
  <1>5. CASE \E len \in 1 .. MaxBuf, v \in Values : SingleWrite(len, v)
    BY <1>4, <1>5 DEF Store!Next
  <1>6. CASE \E len \in 1 .. MaxBuf : MultiRead(len)
    BY <1>1, <1>6, MultiReadStep DEF CursorInv, Store!Next
  <1>7. CASE \E len \in 1 .. MaxBuf : SingleRead(len)
    BY <1>1, <1>7, SingleReadStep DEF CursorInv, Store!Next
  <1>8. CASE WriteNothing
    BY <1>1, <1>8, WriteNothingStep DEF CursorInv, Store!Next
  <1>9. CASE ReadNothing
    BY <1>1, <1>9, ReadNothingStep DEF CursorInv, Store!Next
  <1>10. CASE \E n \in 0 .. MaxSize : SeekTo(n)
    BY <1>1, <1>10, SeekStep DEF CursorInv, Store!Next
  <1>11. CASE TruncateHere
    BY <1>1, <1>11, TruncateStep DEF Store!Next
  <1>12. QED
    BY <1>2, <1>3, <1>5, <1>6, <1>7, <1>8, <1>9, <1>10, <1>11 DEF CursorNext

\* What the list of clusters says in the terms of the table.
LEMMA CursorInvSays ==
  ASSUME CursorAssumption, CursorInv
  PROVE  CursorMatchesOffset /\ ChainFitsSize
  <1>1. PICK L, m : CursorIs(L, m)
    BY DEF CursorInv
  <1>2. /\ off \in Nat /\ size \in Nat /\ off <= size /\ Chain(table, L, m) /\ Listed(L, m)
        /\ first = FirstOf(L, m) /\ m = ClustersFromBytes(size) /\ m \in Nat /\ Total \in Nat
        /\ \A c \in Clusters : table[c] # Free <=> c \in Members(L, 0, m)
        /\ cur = IF off = 0 THEN None ELSE L[(off - 1) \div ClusterSize]
    BY <1>1, CursorConstants DEF CursorIs, Chain, Listed
  <1>3. off # 0 => Walk(table, first, (off - 1) \div ClusterSize) = L[(off - 1) \div ClusterSize]
    <2>1. SUFFICES ASSUME off # 0
                   PROVE  Walk(table, first, (off - 1) \div ClusterSize)
                            = L[(off - 1) \div ClusterSize]
      OBVIOUS
    <2> DEFINE b == (off - 1) \div ClusterSize
    <2>2. off - 1 \in Nat /\ off - 1 < size
      BY <2>1, <1>2
    <2>3. b \in 0 .. m - 1
      BY <2>2, <1>2, BytesHaveClusters
    <2> HIDE DEF b
    <2>4. first = L[0] /\ 0 \in 0 .. m - 1 /\ b \in Nat /\ 0 + b < m /\ 0 + b = b
      BY <2>3, <1>2 DEF FirstOf
    <2>5. Walk(table, L[0], b) = L[b]
      BY <2>4, <1>2, WalkOfChain
    <2>6. QED
      BY <2>4, <2>5 DEF b
  <1>4. CursorMatchesOffset
    BY <1>2, <1>3 DEF CursorMatchesOffset
  <1>5. (IF first = None THEN {} ELSE ChainFrom(table, first)) = Members(L, 0, m)
    <2>1. CASE m = 0
      BY <2>1, <1>2 DEF FirstOf, Members
    <2>2. CASE m # 0
      <3>1. first = L[0] /\ 0 \in 0 .. m - 1
        BY <2>2, <1>2 DEF FirstOf
      <3>2. L[0] # None /\ ChainFrom(table, L[0]) = Members(L, 0, m)
        BY <3>1, <1>2, NextOfChain, ChainFromChain
      <3>3. QED
        BY <3>1, <3>2
    <2>3. QED
      BY <2>1, <2>2
  <1>6. Cardinality(Members(L, 0, m)) = ClustersFromBytes(size)
    <2>1. 0 \in 0 .. m
      BY <1>2
    <2>2. Cardinality(Members(L, 0, m)) = m - 0
      BY <2>1, <1>2, MembersCount
    <2>3. QED
      BY <2>2, <1>2
  <1>7. ChainFitsSize
    BY <1>2, <1>5, <1>6 DEF ChainFitsSize
  <1>8. QED
    BY <1>4, <1>7

LEMMA CursorInvariant ==
  ASSUME CursorAssumption
  PROVE  CursorSpec => []CursorInv
  <1>1. CursorInit => CursorInv
    BY CursorStarts
  <1>2. CursorInv /\ [CursorNext]_cursorVars => CursorInv'
    BY CursorSteps
  <1>3. QED
    BY <1>1, <1>2, PTL DEF CursorSpec

\* After any sequence of reads, writes, seeks and truncations, on a volume and
\* with buffers of any size, the current cluster of a file is that of the byte
\* before its offset (file.rs:39).
THEOREM CursorMatches ==
  ASSUME CursorAssumption
  PROVE  CursorSpec => []CursorMatchesOffset
  <1>1. CursorInv => CursorMatchesOffset
    BY CursorInvSays
  <1>2. QED
    BY <1>1, CursorInvariant, PTL

\* The chain of a file has the clusters its size needs, neither more nor fewer, and
\* the table no others: writing, truncating and allocating lose no cluster.
THEOREM ChainFits ==
  ASSUME CursorAssumption
  PROVE  CursorSpec => []ChainFitsSize
  <1>1. CursorInv => ChainFitsSize
    BY CursorInvSays
  <1>2. QED
    BY <1>1, CursorInvariant, PTL

\* File is a sequence of bytes with a position: every call, short reads and writes
\* and the batched path included, is one of the calls of that store.
THEOREM FileIsStore ==
  ASSUME CursorAssumption
  PROVE  CursorSpec => ImplementsFileStore
  <1>1. CursorInit => Store!Init
    BY CursorStarts
  <1>2. CursorInv /\ [CursorNext]_cursorVars => [Store!Next]_(Store!vars)
    BY CursorSteps
  <1>3. QED
    BY <1>1, <1>2, CursorInvariant, PTL DEF CursorSpec, ImplementsFileStore, Store!Spec

-----------------------------------------------------------------------------
(* Entries and open files (DirHandles): types.                             *)

HandleType == [id : 0 .. MaxIds, pos : 0 .. Slots, entry : EntryType,
               dirty : BOOLEAN, gen : 0 .. MaxGen,
               first : Clusters \cup {None}, cur : Clusters \cup {None},
               off : 0 .. MaxLen, stale : BOOLEAN]

LEMMA DirConstants ==
  ASSUME DirHandlesAssumption
  PROVE  /\ Total \in Nat /\ Slots \in Nat /\ MaxIds \in Nat /\ MaxLen \in Nat /\ MaxGen \in Nat
         /\ NoName \notin Names /\ None \notin Clusters
         /\ NoEntry \in EntryType /\ Closed \in HandleType
  <1>1. /\ Total \in Nat /\ Slots \in Nat /\ MaxIds \in Nat /\ MaxLen \in Nat /\ MaxGen \in Nat
        /\ NoName \notin Names
    BY DEF DirHandlesAssumption
  <1>2. None \notin Clusters
    BY <1>1, ClusterNumbers
  <1>3. NoEntry \in EntryType
    BY <1>1 DEF NoEntry, EntryType
  <1> HIDE DEF NoEntry, EntryType
  <1>4. Closed \in HandleType
    BY <1>1, <1>3 DEF Closed, HandleType
  <1>5. QED
    BY <1>1, <1>2, <1>3, <1>4

LEMMA EntryIs ==
  ASSUME NEW e \in EntryType
  PROVE  /\ e.id \in 0 .. MaxIds /\ e.name \in Names \cup {NoName}
         /\ e.first \in Clusters \cup {None} /\ e.size \in 0 .. MaxLen
         /\ e = [id |-> e.id, name |-> e.name, first |-> e.first, size |-> e.size]
  BY DEF EntryType

LEMMA HandleIs ==
  ASSUME NEW f \in HandleType
  PROVE  /\ f.id \in 0 .. MaxIds /\ f.pos \in 0 .. Slots /\ f.entry \in EntryType
         /\ f.dirty \in BOOLEAN /\ f.gen \in 0 .. MaxGen
         /\ f.first \in Clusters \cup {None} /\ f.cur \in Clusters \cup {None}
         /\ f.off \in 0 .. MaxLen /\ f.stale \in BOOLEAN
  BY DEF HandleType

\* What the operators that make and change an open file return.
LEMMA ToFileIs ==
  ASSUME DirHandlesAssumption, NEW s \in 1 .. Slots, NEW e \in EntryType, gen \in 0 .. MaxGen
  PROVE  LET f == ToFile(s, e) IN
         /\ f \in HandleType
         /\ f.id = e.id /\ f.pos = s /\ f.entry = e /\ f.gen = gen /\ f.first = e.first
         /\ f.cur = None /\ f.off = 0 /\ ~f.dirty /\ ~f.stale
  <1> DEFINE i == e.id
             c == e.first
             f == ToFile(s, e)
  <1>1. i \in 0 .. MaxIds /\ c \in Clusters \cup {None}
    BY EntryIs
  <1>2. Slots \in Nat /\ Closed \in HandleType
    BY DirConstants
  <1>3. Closed.cur = None /\ Closed.off = 0 /\ ~Closed.dirty /\ ~Closed.stale
    BY DEF Closed
  <1>4. f = [Closed EXCEPT !.id = i, !.pos = s, !.entry = e, !.gen = gen, !.first = c]
    BY DEF ToFile
  <1> HIDE DEF i, c, f, Closed
  <1>5. f \in HandleType
    <2> DEFINE a == [Closed EXCEPT !.id = i, !.pos = s]
    <2>1. s \in 0 .. Slots
      BY <1>2
    <2>2. a \in HandleType
      BY <1>1, <1>2, <2>1 DEF HandleType
    <2>3. f = [a EXCEPT !.entry = e, !.gen = gen, !.first = c]
      BY <1>4
    <2> HIDE DEF a
    <2>4. QED
      BY <1>1, <2>2, <2>3 DEF HandleType
  <1>6. f.id = i /\ f.pos = s /\ f.entry = e /\ f.gen = gen /\ f.first = c
    BY <1>2, <1>4 DEF HandleType
  <1>7. f.cur = Closed.cur /\ f.off = Closed.off
    BY <1>2, <1>4 DEF HandleType
  <1>8. f.dirty = Closed.dirty /\ f.stale = Closed.stale
    BY <1>2, <1>4 DEF HandleType
  <1>9. QED
    BY <1>3, <1>5, <1>6, <1>7, <1>8 DEF i, c, f

LEMMA EditedIs ==
  ASSUME NEW f \in HandleType, NEW c \in Clusters \cup {None}, NEW n \in 0 .. MaxLen
  PROVE  LET g == Edited(f, c, n) IN
         /\ g \in HandleType
         /\ g.id = f.id /\ g.pos = f.pos /\ g.gen = f.gen /\ g.first = f.first
         /\ g.cur = f.cur /\ g.off = f.off /\ g.stale = f.stale
         /\ g.entry.id = f.entry.id /\ g.entry.name = f.entry.name
         /\ g.entry.first = c /\ g.entry.size = n
         /\ ~g.dirty => ~f.dirty /\ g.entry = f.entry
  <1> DEFINE e == [f.entry EXCEPT !.first = c, !.size = n]
             d == f.dirty \/ e # f.entry
             g == Edited(f, c, n)
  <1>1. f.entry \in EntryType
    BY HandleIs
  <1>2. /\ e \in EntryType /\ e.id = f.entry.id /\ e.name = f.entry.name /\ e.first = c /\ e.size = n
    <2> HIDE DEF d, g
    <2>1. QED
      BY <1>1 DEF EntryType
  <1>3. d \in BOOLEAN
    BY HandleIs
  <1>4. g = [f EXCEPT !.entry = e, !.dirty = d]
    BY DEF Edited
  <1> HIDE DEF e, d, g
  <1>5. g \in HandleType /\ g.entry = e /\ g.dirty = d
    BY <1>2, <1>3, <1>4 DEF HandleType
  <1>6. /\ g.id = f.id /\ g.pos = f.pos /\ g.gen = f.gen /\ g.first = f.first
        /\ g.cur = f.cur /\ g.off = f.off /\ g.stale = f.stale
    BY <1>4 DEF HandleType
  <1>7. ~d => ~f.dirty /\ e = f.entry
    BY DEF d
  <1>8. QED
    BY <1>2, <1>5, <1>6, <1>7 DEF g

LEMMA FlushedIs ==
  ASSUME NEW f \in HandleType
  PROVE  LET g == FlushedFile(f) IN
         /\ g \in HandleType
         /\ g.id = f.id /\ g.pos = f.pos /\ g.gen = f.gen /\ g.first = f.first
         /\ g.cur = f.cur /\ g.off = f.off /\ g.entry = f.entry
         /\ f.gen = gen => ~g.dirty /\ g.stale = f.stale
  <1>1. CASE f.dirty /\ ~IsCurrent(f, gen)
    <2>1. FlushedFile(f) = [f EXCEPT !.stale = TRUE]
      BY <1>1 DEF FlushedFile
    <2>2. f.gen # gen
      BY <1>1 DEF IsCurrent
    <2>3. QED
      BY <2>1, <2>2 DEF HandleType
  <1>2. CASE ~(f.dirty /\ ~IsCurrent(f, gen))
    <2>1. FlushedFile(f) = [f EXCEPT !.dirty = FALSE]
      BY <1>2 DEF FlushedFile
    <2>2. QED
      BY <2>1 DEF HandleType
  <1>3. QED
    BY <1>1, <1>2

\* The file h after a write to cluster c (WriteTo), before it is flushed.
Written(f, c, moved) ==
  LET g == Edited(f, IF f.first = None THEN c ELSE f.entry.first, SizeAfter(f, f.off + 1))
  IN  [g EXCEPT !.off = f.off + 1, !.cur = c, !.dirty = @ \/ moved,
                !.first = IF @ = None THEN c ELSE @]

LEMMA WriteToIs ==
  ASSUME NEW h, NEW c, WriteTo(h, c)
  PROVE  \E moved \in BOOLEAN :
           /\ data' = [data EXCEPT ![c] = handle[h].id]
           /\ slots' = FlushedSlots(Written(handle[h], c, moved))
           /\ handle' = [handle EXCEPT ![h] = FlushedFile(Written(handle[h], c, moved))]
  BY Zenon DEF WriteTo, Written

LEMMA WrittenIs ==
  ASSUME DirHandlesAssumption, NEW f \in HandleType, NEW c \in Clusters, f.off < MaxLen,
         NEW moved \in BOOLEAN
  PROVE  LET w == Written(f, c, moved) IN
         /\ w \in HandleType
         /\ w.id = f.id /\ w.pos = f.pos /\ w.gen = f.gen /\ w.stale = f.stale
         /\ w.cur = c /\ w.off = f.off + 1 /\ w.first = (IF f.first = None THEN c ELSE f.first)
         /\ w.entry.id = f.entry.id /\ w.entry.name = f.entry.name
         /\ w.entry.first = (IF f.first = None THEN c ELSE f.entry.first)
         /\ w.entry.size = SizeAfter(f, f.off + 1)
         /\ ~w.dirty => ~f.dirty /\ w.entry = f.entry
  <1> DEFINE to == IF f.first = None THEN c ELSE f.entry.first
             n == SizeAfter(f, f.off + 1)
             g == Edited(f, to, n)
             end == f.off + 1
             d == g.dirty \/ moved
             b == IF g.first = None THEN c ELSE g.first
             w == Written(f, c, moved)
  <1>1. MaxLen \in Nat
    BY DirConstants
  <1>2. f.entry.first \in Clusters \cup {None} /\ f.entry.size \in 0 .. MaxLen /\ f.off \in 0 .. MaxLen
        /\ f.first \in Clusters \cup {None}
    <2>1. f.entry \in EntryType /\ f.off \in 0 .. MaxLen /\ f.first \in Clusters \cup {None}
      BY HandleIs
    <2>2. QED
      BY <2>1, EntryIs
  <1>3. to \in Clusters \cup {None} /\ n \in 0 .. MaxLen /\ end \in 0 .. MaxLen
    BY <1>1, <1>2 DEF SizeAfter
  <1>4. w = [g EXCEPT !.off = end, !.cur = c, !.dirty = d, !.first = b]
    BY DEF Written
  <1> HIDE DEF to, n, g, end, w
  <1>5. /\ g \in HandleType
        /\ g.id = f.id /\ g.pos = f.pos /\ g.gen = f.gen /\ g.first = f.first /\ g.stale = f.stale
        /\ g.entry.id = f.entry.id /\ g.entry.name = f.entry.name
        /\ g.entry.first = to /\ g.entry.size = n
        /\ ~g.dirty => ~f.dirty /\ g.entry = f.entry
    BY <1>3, EditedIs DEF g
  <1>6. b \in Clusters \cup {None} /\ b = (IF f.first = None THEN c ELSE f.first)
    BY <1>2, <1>5
  <1>7. d \in BOOLEAN /\ (~d => ~g.dirty)
    BY <1>5, HandleIs
  <1> HIDE DEF b, d
  <1>8. w \in HandleType
    BY <1>3, <1>4, <1>5, <1>6, <1>7 DEF HandleType
  <1>9. w.off = end /\ w.cur = c /\ w.dirty = d /\ w.first = b
    BY <1>4, <1>5 DEF HandleType
  <1>10. w.id = g.id /\ w.pos = g.pos /\ w.gen = g.gen /\ w.stale = g.stale /\ w.entry = g.entry
    BY <1>4, <1>5 DEF HandleType
  <1>11. QED
    BY <1>5, <1>6, <1>7, <1>8, <1>9, <1>10 DEF w, end, to, n

\* The cursor moves.
LEMMA MovedIs ==
  ASSUME NEW f \in HandleType, NEW c \in Clusters \cup {None}, NEW n \in 0 .. MaxLen
  PROVE  LET g == [f EXCEPT !.off = n, !.cur = c] IN
         /\ g \in HandleType
         /\ g.id = f.id /\ g.pos = f.pos /\ g.gen = f.gen /\ g.first = f.first /\ g.entry = f.entry
         /\ g.dirty = f.dirty /\ g.stale = f.stale /\ g.cur = c /\ g.off = n
  BY DEF HandleType

\* The file after truncate.
Truncated(f, g) ==
  Refreshed([Edited(f, IF f.off = 0 THEN None ELSE f.entry.first, f.off)
               EXCEPT !.first = ContextFirst(f)], g)

LEMMA TruncatedIs ==
  ASSUME DirHandlesAssumption, NEW f \in HandleType, NEW n \in 0 .. MaxGen
  PROVE  LET g == Truncated(f, n) IN
         /\ g \in HandleType
         /\ g.id = f.id /\ g.pos = f.pos /\ g.gen = n /\ g.stale = f.stale
         /\ g.cur = f.cur /\ g.off = f.off /\ g.first = (IF f.cur = None THEN None ELSE f.first)
         /\ g.entry.id = f.entry.id /\ g.entry.name = f.entry.name
         /\ g.entry.first = (IF f.off = 0 THEN None ELSE f.entry.first) /\ g.entry.size = f.off
         /\ ~g.dirty => ~f.dirty /\ g.entry = f.entry
  <1> DEFINE to == IF f.off = 0 THEN None ELSE f.entry.first
             size0 == f.off
             a == Edited(f, to, size0)
             b == ContextFirst(f)
             g == Truncated(f, n)
  <1>1. to \in Clusters \cup {None} /\ size0 \in 0 .. MaxLen /\ b \in Clusters \cup {None}
        /\ b = (IF f.cur = None THEN None ELSE f.first)
    <2>1. f.entry \in EntryType /\ f.off \in 0 .. MaxLen /\ f.first \in Clusters \cup {None}
      BY HandleIs
    <2>2. f.entry.first \in Clusters \cup {None}
      BY <2>1, EntryIs
    <2>3. QED
      BY <2>1, <2>2 DEF ContextFirst
  <1>2. g = [a EXCEPT !.first = b, !.gen = n]
    BY DEF Truncated, Refreshed
  <1> HIDE DEF to, size0, a, b, g
  <1>3. /\ a \in HandleType
        /\ a.id = f.id /\ a.pos = f.pos /\ a.stale = f.stale /\ a.cur = f.cur /\ a.off = f.off
        /\ a.entry.id = f.entry.id /\ a.entry.name = f.entry.name
        /\ a.entry.first = to /\ a.entry.size = size0
        /\ ~a.dirty => ~f.dirty /\ a.entry = f.entry
    BY <1>1, EditedIs DEF a
  <1>4. g \in HandleType
    BY <1>1, <1>2, <1>3 DEF HandleType
  <1>5. g.first = b /\ g.gen = n
    BY <1>2, <1>3 DEF HandleType
  <1>6. /\ g.id = a.id /\ g.pos = a.pos /\ g.stale = a.stale /\ g.cur = a.cur /\ g.off = a.off
        /\ g.entry = a.entry /\ g.dirty = a.dirty
    BY <1>2, <1>3 DEF HandleType
  <1>7. QED
    BY <1>1, <1>3, <1>4, <1>5, <1>6 DEF g, to, size0

\* A finite set of numbers has a greatest one.
LEMMA GreatestOf ==
  ASSUME NEW n \in Nat, NEW S \in SUBSET (0 .. n), S # {}
  PROVE  \E x \in S : \A y \in S : y <= x
  <1> DEFINE T == {n - x : x \in S}
  <1>1. T \in SUBSET Nat /\ T # {}
    <2>1. \A x \in S : n - x \in Nat
      OBVIOUS
    <2>2. QED
      BY <2>1
  <1> HIDE DEF T
  <1>2. PICK z \in T : \A y \in T : z <= y
    BY <1>1, LeastOf
  <1> USE DEF T
  <1>3. PICK x \in S : z = n - x
    BY <1>2
  <1>4. ASSUME NEW y \in S PROVE y <= x
    <2>1. n - y \in T
      OBVIOUS
    <2>2. z <= n - y
      BY <1>2, <2>1
    <2>3. QED
      BY <2>2, <1>3
  <1>5. QED
    BY <1>4

\* Every walk has its values.
LEMMA WalkExists ==
  ASSUME NEW t, NEW c, NEW n \in Nat
  PROVE  \E g : IsWalk(t, c, n, g)
  <1> DEFINE Good == {i \in Nat : \E g : IsWalk(t, c, i, g)}
  <1>1. 0 \in Good
    <2> DEFINE g == [i \in 0 .. 0 |-> c]
    <2>1. g = [i \in 0 .. 0 |->
                IF i = 0 THEN c ELSE IF g[i - 1] = None THEN None ELSE NextIn(t, g[i - 1])]
      OBVIOUS
    <2>2. QED
      BY <2>1 DEF IsWalk
  <1>2. ASSUME NEW i \in 1 .. n, i - 1 \in Good PROVE i \in Good
    <2>1. PICK g : IsWalk(t, c, i - 1, g)
      BY <1>2
    <2> DEFINE f == [j \in 0 .. i |->
                       IF j = i THEN (IF g[i - 1] = None THEN None ELSE NextIn(t, g[i - 1]))
                       ELSE g[j]]
    <2>2. ASSUME NEW j \in 0 .. i
          PROVE  f[j] = IF j = 0 THEN c
                        ELSE IF f[j - 1] = None THEN None ELSE NextIn(t, f[j - 1])
      <3>1. CASE j = i
        <4>1. j # 0 /\ j - 1 \in 0 .. i /\ j - 1 # i
          BY <3>1
        <4>2. QED
          BY <3>1, <4>1
      <3>2. CASE j # i
        <4>1. j \in 0 .. i - 1 /\ (j # 0 => j - 1 \in 0 .. i /\ j - 1 # i)
          BY <3>2
        <4>2. g[j] = IF j = 0 THEN c
                     ELSE IF g[j - 1] = None THEN None ELSE NextIn(t, g[j - 1])
          BY <2>1, <4>1 DEF IsWalk
        <4>3. QED
          BY <3>2, <4>1, <4>2
      <3>3. QED
        BY <3>1, <3>2
    <2>3. f = [j \in 0 .. i |-> f[j]]
      OBVIOUS
    <2> HIDE DEF f
    <2>4. IsWalk(t, c, i, f)
      BY <2>2, <2>3 DEF IsWalk
    <2>5. i \in Nat
      OBVIOUS
    <2>6. QED
      BY <2>4, <2>5
  <1> HIDE DEF Good
  <1>3. n \in Good
    <2>1. \A i \in 0 .. n : i \in Good
      BY <1>1, <1>2, UpTo
    <2>2. QED
      BY <2>1
  <1>4. QED
    BY <1>3 DEF Good

LEMMA WalkType ==
  ASSUME NEW t, NEW c \in Clusters \cup {None}, NEW n \in Nat
  PROVE  Walk(t, c, n) \in Clusters \cup {None} /\ Walk(t, c, 0) = c
  <1>1. ASSUME NEW k \in Nat PROVE Walk(t, c, k) \in Clusters \cup {None}
    <2>1. PICK g : IsWalk(t, c, k, g)
      BY WalkExists
    <2> DEFINE Good == {i \in 0 .. k : g[i] \in Clusters \cup {None}}
    <2>2. 0 \in Good
      BY <2>1 DEF IsWalk
    <2>3. ASSUME NEW i \in 1 .. k, i - 1 \in Good PROVE i \in Good
      <3>1. i \in 0 .. k /\ i # 0
        OBVIOUS
      <3>2. g[i] = IF g[i - 1] = None THEN None ELSE NextIn(t, g[i - 1])
        BY <2>1, <3>1 DEF IsWalk
      <3>3. g[i] \in Clusters \cup {None}
        BY <3>2 DEF NextIn
      <3>4. QED
        BY <3>1, <3>3
    <2> HIDE DEF Good
    <2>4. k \in Good
      <3>1. \A i \in 0 .. k : i \in Good
        BY <2>2, <2>3, UpTo
      <3>2. QED
        BY <3>1
    <2>5. Walk(t, c, k) = g[k]
      BY <2>1, WalkIs
    <2>6. QED
      BY <2>4, <2>5 DEF Good
  <1>2. Walk(t, c, 0) = c
    <2>1. PICK g : IsWalk(t, c, 0, g)
      BY WalkExists
    <2>2. Walk(t, c, 0) = g[0]
      BY <2>1, WalkIs
    <2>3. QED
      BY <2>1, <2>2 DEF IsWalk
  <1>3. QED
    BY <1>1, <1>2

-----------------------------------------------------------------------------
(* What the steps of DirHandles do.                                        *)

LEMMA OpenHandle ==
  ASSUME TypeOK, NEW h \in Handles
  PROVE  handle[h] \in HandleType /\ (h \in Open <=> handle[h] # Closed)
  BY DEF TypeOK, HandleType, Open

LEMMA PlacedIs ==
  ASSUME DirHandlesAssumption, NEW entries, NEW e, FreeSlots(entries) # {}
  PROVE  LET p == Placed(entries, e) IN
         /\ p[1] \in 1 .. Slots /\ entries[p[1]] = NoEntry
         /\ p[2] = [entries EXCEPT ![p[1]] = e]
  <1> DEFINE S == FreeSlots(entries)
             s == CHOOSE s \in S : \A t \in S : s <= t
  <1>1. S \in SUBSET Nat /\ S \in SUBSET (1 .. Slots)
    BY DEF FreeSlots
  <1>2. Placed(entries, e) = <<s, [entries EXCEPT ![s] = e]>>
    BY DEF Placed
  <1> HIDE DEF S
  <1>3. \E x \in S : \A y \in S : x <= y
    BY <1>1, LeastOf DEF S
  <1>4. s \in S
    BY <1>3
  <1> HIDE DEF s
  <1>5. s \in 1 .. Slots /\ entries[s] = NoEntry
    BY <1>1, <1>4 DEF S, FreeSlots
  <1>6. QED
    BY <1>2, <1>5

LEMMA FlushedSlotsIs ==
  ASSUME NEW f
  PROVE  \/ ~f.dirty /\ FlushedSlots(f) = slots
         \/ f.gen # gen /\ FlushedSlots(f) = slots
         \/ f.gen = gen /\ FlushedSlots(f) = [slots EXCEPT ![f.pos] = f.entry]
  BY DEF FlushedSlots, IsCurrent

\* A step of an open file changes that file, at most the entry at its position,
\* and that only when no release has moved the generation.  It takes the present
\* generation when its entry is where it was, or by a truncate that does not look.
SameFile(f, g) ==
  /\ g.id = f.id /\ g.pos = f.pos /\ g.entry.id = f.entry.id /\ g.entry.name = f.entry.name
  /\ g.gen = f.gen \/ (g.gen = gen' /\ (slots[f.pos].id = f.id \/ May("truncate_removed")))
  /\ f.gen = gen => g.stale = f.stale
FileStep(h, g) ==
  /\ h \in Open /\ g \in HandleType /\ handle' = [handle EXCEPT ![h] = g]
  /\ g = Closed \/ SameFile(handle[h], g)
  /\ gen' \in 0 .. MaxGen /\ gen <= gen'
  /\ gen' = gen \/ (g.gen = gen' /\ (Open = {h} \/ May("free_while_open")))
  /\ \/ slots' = slots
     \/ /\ handle[h].gen = gen /\ gen' = gen
        /\ \E e \in EntryType : /\ e.id = handle[h].entry.id /\ e.name = handle[h].entry.name
                                /\ slots' = [slots EXCEPT ![handle[h].pos] = e]
  /\ fat' \in [Clusters -> Clusters \cup {Free, EOC}] /\ data' \in [Clusters -> 0 .. MaxIds]
  /\ live' = live /\ ids' = ids

LEMMA WriteToStep ==
  ASSUME DirHandlesAssumption, TypeOK, NEW h \in Open, NEW c \in Clusters, handle[h].off < MaxLen,
         WriteTo(h, c), fat' \in [Clusters -> Clusters \cup {Free, EOC}], UNCHANGED <<gen, live, ids>>
  PROVE  \E g : FileStep(h, g) /\ SameFile(handle[h], g)
  <1> DEFINE f == handle[h]
  <1>1. f \in HandleType /\ h \in Handles
    BY OpenHandle DEF Open
  <1>2. PICK moved \in BOOLEAN :
          /\ data' = [data EXCEPT ![c] = f.id]
          /\ slots' = FlushedSlots(Written(f, c, moved))
          /\ handle' = [handle EXCEPT ![h] = FlushedFile(Written(f, c, moved))]
    BY WriteToIs
  <1> DEFINE w == Written(f, c, moved)
             g == FlushedFile(w)
  <1>3. f.off < MaxLen
    OBVIOUS
  <1> HIDE DEF f
  <1>4. /\ w \in HandleType /\ w.id = f.id /\ w.pos = f.pos /\ w.gen = f.gen /\ w.stale = f.stale
        /\ w.entry.id = f.entry.id /\ w.entry.name = f.entry.name
    BY <1>1, <1>3, WrittenIs
  <1>5. slots' = FlushedSlots(w) /\ handle' = [handle EXCEPT ![h] = g]
    BY <1>2
  <1> HIDE DEF w
  <1>6. /\ g \in HandleType /\ g.id = w.id /\ g.pos = w.pos /\ g.gen = w.gen /\ g.entry = w.entry
        /\ w.gen = gen => g.stale = w.stale
    BY <1>4, FlushedIs
  <1> HIDE DEF g
  <1>7. SameFile(f, g)
    BY <1>4, <1>6 DEF SameFile
  <1>8. \/ slots' = slots
        \/ /\ f.gen = gen /\ gen' = gen
           /\ \E e \in EntryType : /\ e.id = f.entry.id /\ e.name = f.entry.name
                                   /\ slots' = [slots EXCEPT ![f.pos] = e]
    <2>1. w.entry \in EntryType
      BY <1>4, HandleIs
    <2>2. QED
      BY <2>1, <1>4, <1>5, FlushedSlotsIs
  <1>9. data' \in [Clusters -> 0 .. MaxIds]
    BY <1>1, <1>2, HandleIs DEF TypeOK
  <1>10. gen' \in 0 .. MaxGen /\ gen <= gen' /\ gen' = gen /\ live' = live /\ ids' = ids
    BY DEF TypeOK
  <1>11. FileStep(h, g) /\ SameFile(handle[h], g)
    BY <1>5, <1>6, <1>7, <1>8, <1>9, <1>10 DEF FileStep, f
  <1>12. QED
    BY <1>11

LEMMA FileWriteStep ==
  ASSUME DirHandlesAssumption, TypeOK, NEW h, FileWrite(h)
  PROVE  \E g : FileStep(h, g) /\ SameFile(handle[h], g)
  <1>1. h \in Open /\ handle[h].off < MaxLen /\ UNCHANGED <<gen, live, ids>>
    BY DEF FileWrite
  <1>2. handle[h].first \in Clusters \cup {None} /\ fat \in [Clusters -> Clusters \cup {Free, EOC}]
    BY <1>1, OpenHandle, HandleIs DEF Open, TypeOK
  <1> DEFINE c == ClusterToWrite(handle[h])
  <1>3. c \in Clusters \cup {None}
    BY <1>2 DEF ClusterToWrite, NextIn
  <1>4. \/ c # None /\ WriteTo(h, c) /\ fat' = fat
        \/ \E new \in FreeIn(fat) : fat' = Extended(fat, handle[h].cur, new) /\ WriteTo(h, new)
    BY DEF FileWrite
  <1> HIDE DEF c
  <1>5. CASE c # None /\ WriteTo(h, c) /\ fat' = fat
    BY <1>1, <1>2, <1>3, <1>5, WriteToStep
  <1>6. ASSUME NEW new \in FreeIn(fat), fat' = Extended(fat, handle[h].cur, new), WriteTo(h, new)
        PROVE  \E g : FileStep(h, g) /\ SameFile(handle[h], g)
    <2>1. new \in Clusters
      BY DEF FreeIn
    <2>2. fat' \in [Clusters -> Clusters \cup {Free, EOC}]
      BY <1>2, <1>6, <2>1 DEF Extended
    <2>3. QED
      BY <1>1, <1>6, <2>1, <2>2, WriteToStep
  <1>7. QED
    BY <1>4, <1>5, <1>6

\* seek, past the first cluster.
LEMMA SeekIs ==
  ASSUME DirHandlesAssumption, TypeOK, NEW h \in Open, NEW n, Seek(h, n)
  PROVE  \E o \in 0 .. MaxLen, c \in Clusters \cup {None} :
           handle' = [handle EXCEPT ![h] = [handle[h] EXCEPT !.off = o, !.cur = c]]
  <1> DEFINE f == handle[h]
             reached == {k \in 0 .. ClustersToSkip(n) : Walk(fat, f.first, k) # None}
             last == CHOOSE k \in reached : \A j \in reached : j <= k
  <1>1. f.first \in Clusters \cup {None} /\ f.entry.size \in 0 .. MaxLen /\ MaxLen \in Nat
    <2>1. f \in HandleType
      BY OpenHandle DEF Open
    <2>2. QED
      BY <2>1, HandleIs, EntryIs, DirConstants
  <1>2. n \in 0 .. f.entry.size \ {f.off}
    BY DEF Seek
  <1>3. n \in 0 .. MaxLen
    BY <1>1, <1>2
  <1>4. CASE n = 0 \/ f.first = None
    <2>1. handle' = [handle EXCEPT ![h] = [f EXCEPT !.off = 0, !.cur = None]]
      BY <1>4 DEF Seek
    <2>2. 0 \in 0 .. MaxLen
      BY <1>1
    <2>3. QED
      BY <2>1, <2>2
  <1>5. CASE n # 0 /\ f.first # None
    <2> DEFINE o == IF last = ClustersToSkip(n) THEN n ELSE last + 1
               c == Walk(fat, f.first, last)
    <2>1. handle' = [handle EXCEPT ![h] = [f EXCEPT !.off = o, !.cur = c]]
      BY <1>5 DEF Seek
    <2>2. ClustersToSkip(n) \in Nat /\ ClustersToSkip(n) = n - 1
      BY <1>3, <1>5 DEF ClustersToSkip
    <2>3. 0 \in reached
      BY <1>1, <1>5, <2>2, WalkType
    <2>4. \E x \in reached : \A y \in reached : y <= x
      <3>1. reached \in SUBSET (0 .. ClustersToSkip(n)) /\ reached # {}
        BY <2>3
      <3> HIDE DEF reached
      <3>2. QED
        BY <3>1, <2>2, GreatestOf
    <2>5. last \in 0 .. n - 1
      <3>1. last \in reached
        <4> HIDE DEF reached
        <4>1. QED
          BY <2>4
      <3> HIDE DEF last
      <3>2. QED
        BY <3>1, <2>2
    <2> HIDE DEF last
    <2>6. o \in 0 .. MaxLen
      BY <2>5, <1>1, <1>3
    <2>7. c \in Clusters \cup {None}
      <3>1. last \in Nat /\ f.first \in Clusters \cup {None}
        BY <2>5, <1>1, <1>3
      <3> HIDE DEF f
      <3>2. QED
        BY <3>1, WalkType
    <2>8. QED
      BY <2>1, <2>6, <2>7
  <1>6. QED
    BY <1>4, <1>5

LEMMA SeekFileStep ==
  ASSUME DirHandlesAssumption, TypeOK, NEW h, NEW n, Seek(h, n)
  PROVE  \E g : FileStep(h, g) /\ SameFile(handle[h], g)
  <1>1. h \in Open /\ UNCHANGED <<fat, data, slots, gen, live, ids>>
    BY DEF Seek
  <1>2. handle[h] \in HandleType
    BY <1>1, OpenHandle DEF Open
  <1>3. PICK o \in 0 .. MaxLen, c \in Clusters \cup {None} :
          handle' = [handle EXCEPT ![h] = [handle[h] EXCEPT !.off = o, !.cur = c]]
    BY <1>1, SeekIs
  <1> DEFINE f == handle[h]
             g == [f EXCEPT !.off = o, !.cur = c]
  <1>4. f \in HandleType /\ handle' = [handle EXCEPT ![h] = g]
    BY <1>2, <1>3
  <1> HIDE DEF f
  <1>5. /\ g \in HandleType /\ g.id = f.id /\ g.pos = f.pos
        /\ g.gen = f.gen /\ g.entry = f.entry /\ g.stale = f.stale
    BY <1>4 DEF HandleType
  <1> HIDE DEF g
  <1>6. SameFile(f, g)
    BY <1>5 DEF SameFile
  <1>7. FileStep(h, g) /\ SameFile(handle[h], g)
    BY <1>1, <1>4, <1>5, <1>6 DEF FileStep, TypeOK, f
  <1>8. QED
    BY <1>7

LEMMA TruncateIs ==
  ASSUME NEW h, Truncate(h)
  PROVE  LET f == handle[h]
             frees == f.cur = None /\ f.first # None
         IN  /\ slots[f.pos].id = f.id \/ May("truncate_removed")
             /\ frees => gen < MaxGen /\ (Open # {h} => May("free_while_open"))
             /\ fat' = IF f.cur # None THEN CutAfter(fat, f.cur)
                       ELSE IF frees THEN Released(fat, f.first) ELSE fat
             /\ gen' = IF frees THEN gen + 1 ELSE gen
             /\ handle' = [handle EXCEPT ![h] = Truncated(f, gen')]
             /\ h \in Open /\ UNCHANGED <<data, slots, live, ids>>
  BY DEF Truncate, Truncated

LEMMA TruncateFileStep ==
  ASSUME DirHandlesAssumption, TypeOK, NEW h, Truncate(h)
  PROVE  \E g : FileStep(h, g) /\ SameFile(handle[h], g)
  <1> DEFINE f == handle[h]
             frees == f.cur = None /\ f.first # None
             g == Truncated(f, gen')
  <1>1. h \in Open /\ UNCHANGED <<data, slots, live, ids>>
        /\ (slots[f.pos].id = f.id \/ May("truncate_removed"))
        /\ handle' = [handle EXCEPT ![h] = g]
    BY TruncateIs
  <1>2. f \in HandleType
    BY <1>1, OpenHandle DEF Open
  <1>3. /\ frees => gen < MaxGen /\ (Open # {h} => May("free_while_open"))
        /\ fat' = IF f.cur # None THEN CutAfter(fat, f.cur)
                  ELSE IF frees THEN Released(fat, f.first) ELSE fat
        /\ gen' = IF frees THEN gen + 1 ELSE gen
    BY TruncateIs
  <1> HIDE DEF f, frees
  <1>4. gen' \in 0 .. MaxGen /\ gen <= gen'
    BY <1>3, DirConstants DEF TypeOK
  <1>5. fat' \in [Clusters -> Clusters \cup {Free, EOC}]
    BY <1>3 DEF TypeOK, CutAfter, Released
  <1>6. /\ g \in HandleType /\ g.id = f.id /\ g.pos = f.pos /\ g.gen = gen' /\ g.stale = f.stale
        /\ g.entry.id = f.entry.id /\ g.entry.name = f.entry.name
    <2> DEFINE n == gen'
    <2>1. n \in 0 .. MaxGen
      BY <1>4
    <2> HIDE DEF n
    <2>2. /\ Truncated(f, n) \in HandleType /\ Truncated(f, n).id = f.id
          /\ Truncated(f, n).pos = f.pos /\ Truncated(f, n).gen = n
          /\ Truncated(f, n).stale = f.stale /\ Truncated(f, n).entry.id = f.entry.id
          /\ Truncated(f, n).entry.name = f.entry.name
      BY <1>2, <2>1, TruncatedIs
    <2>3. QED
      BY <2>2 DEF n
  <1> HIDE DEF g
  <1>7. SameFile(f, g)
    BY <1>1, <1>6 DEF SameFile, f
  <1>8. FileStep(h, g) /\ SameFile(handle[h], g)
    <2>1. gen' = gen \/ (g.gen = gen' /\ (Open = {h} \/ May("free_while_open")))
      BY <1>3, <1>6
    <2>2. data' \in [Clusters -> 0 .. MaxIds] /\ slots' = slots /\ live' = live /\ ids' = ids
      BY <1>1 DEF TypeOK
    <2>3. QED
      BY <2>1, <2>2, <1>1, <1>4, <1>5, <1>6, <1>7 DEF FileStep, f
  <1>9. QED
    BY <1>8

LEMMA FlushFileStep ==
  ASSUME DirHandlesAssumption, TypeOK, NEW h, Flush(h)
  PROVE  \E g : FileStep(h, g) /\ SameFile(handle[h], g)
  <1> DEFINE f == handle[h]
             g == FlushedFile(f)
  <1>1. h \in Open /\ UNCHANGED <<fat, data, gen, live, ids>> /\ slots' = FlushedSlots(f)
    BY DEF Flush
  <1>2. f \in HandleType /\ h \in Handles /\ handle' = [handle EXCEPT ![h] = g]
    BY <1>1, OpenHandle DEF Open, Flush, TypeOK
  <1> HIDE DEF f
  <1>3. /\ g \in HandleType /\ g.id = f.id /\ g.pos = f.pos /\ g.gen = f.gen /\ g.entry = f.entry
        /\ f.gen = gen => g.stale = f.stale
    BY <1>2, FlushedIs
  <1> HIDE DEF g
  <1>4. SameFile(f, g)
    BY <1>3 DEF SameFile
  <1>5. \/ slots' = slots
        \/ /\ f.gen = gen /\ gen' = gen
           /\ \E e \in EntryType : /\ e.id = f.entry.id /\ e.name = f.entry.name
                                   /\ slots' = [slots EXCEPT ![f.pos] = e]
    <2>1. f.entry \in EntryType
      BY <1>2, HandleIs
    <2>2. QED
      BY <2>1, <1>1, FlushedSlotsIs
  <1>6. FileStep(h, g) /\ SameFile(handle[h], g)
    BY <1>1, <1>2, <1>3, <1>4, <1>5 DEF FileStep, TypeOK, f
  <1>7. QED
    BY <1>6

LEMMA CloseFileStep ==
  ASSUME DirHandlesAssumption, TypeOK, NEW h, Close(h)
  PROVE  FileStep(h, Closed)
  <1>1. /\ h \in Open /\ UNCHANGED <<fat, data, slots, gen, live, ids>>
        /\ handle' = [handle EXCEPT ![h] = Closed]
    BY DEF Close
  <1>2. Closed \in HandleType
    BY DirConstants
  <1>3. QED
    BY <1>1, <1>2 DEF FileStep, TypeOK

-----------------------------------------------------------------------------
(* Types: every step of DirHandles but those of a file that stays open or  *)
(* is closed is one of four.                                               *)

NewEntry(n) == [NoEntry EXCEPT !.id = ids + 1, !.name = n]

LEMMA NewEntryIs ==
  ASSUME DirHandlesAssumption, TypeOK, NEW n \in Names, ids < MaxIds
  PROVE  LET e == NewEntry(n) IN
         /\ e \in EntryType /\ e.id = ids + 1 /\ e.name = n /\ e.first = None /\ e.size = 0
         /\ e # NoEntry /\ ids + 1 \in 1 .. MaxIds
  <1> DEFINE i == ids + 1
  <1>1. i \in 0 .. MaxIds /\ i # 0 /\ i \in 1 .. MaxIds
    BY DirConstants DEF TypeOK
  <1>2. 0 \in 0 .. MaxLen
    BY DirConstants
  <1> HIDE DEF i
  <1> DEFINE e == [NoEntry EXCEPT !.id = i, !.name = n]
  <1>3. e \in EntryType /\ e.id = i /\ e.name = n /\ e.first = None /\ e.size = 0
    BY <1>1, <1>2 DEF NoEntry, EntryType
  <1>4. NoEntry.id = 0
    BY DEF NoEntry
  <1>5. e # NoEntry
    BY <1>1, <1>3, <1>4
  <1>6. e = NewEntry(n)
    BY DEF NewEntry, i
  <1> HIDE DEF e
  <1>7. QED
    BY <1>1, <1>3, <1>5, <1>6 DEF i

LEMMA CreateIs ==
  ASSUME DirHandlesAssumption, NEW h, NEW n, Create(h, n)
  PROVE  /\ h \notin Open /\ SlotOf(n) = {} /\ ids < MaxIds
         /\ \E s \in 1 .. Slots :
              /\ slots[s] = NoEntry
              /\ slots' = [slots EXCEPT ![s] = NewEntry(n)]
              /\ handle' = [handle EXCEPT ![h] = ToFile(s, NewEntry(n))]
         /\ ids' = ids + 1 /\ live' = live \cup {ids + 1} /\ UNCHANGED <<fat, data, gen>>
  <1> DEFINE e == NewEntry(n)
             p == Placed(slots, e)
  <1>1. /\ h \notin Open /\ SlotOf(n) = {} /\ FreeSlots(slots) # {} /\ ids < MaxIds
        /\ ids' = ids + 1 /\ live' = live \cup {ids + 1} /\ UNCHANGED <<fat, data, gen>>
    BY DEF Create
  <1>2. slots' = p[2] /\ handle' = [handle EXCEPT ![h] = ToFile(p[1], e)]
    BY DEF Create, NewEntry
  <1> HIDE DEF e
  <1>3. p[1] \in 1 .. Slots /\ slots[p[1]] = NoEntry /\ p[2] = [slots EXCEPT ![p[1]] = e]
    BY <1>1, PlacedIs
  <1> HIDE DEF p
  <1>4. QED
    BY <1>1, <1>2, <1>3 DEF e

LEMMA OpenFileIs ==
  ASSUME NEW h, NEW n, OpenFile(h, n)
  PROVE  /\ h \notin Open
         /\ \E s \in Used : /\ ~IsOpen(slots[s].id)
                            /\ handle' = [handle EXCEPT ![h] = ToFile(s, slots[s])]
         /\ UNCHANGED <<fat, data, slots, gen, live, ids>>
  BY DEF OpenFile, SlotOf

LEMMA RemoveIs ==
  ASSUME NEW n, Remove(n)
  PROVE  \E s \in Used :
           /\ slots' = [slots EXCEPT ![s] = NoEntry]
           /\ live' = live \ {slots[s].id}
           /\ \/ /\ slots[s].first = None /\ UNCHANGED <<fat, gen>>
                 /\ IsOpen(slots[s].id) => May("remove_empty_open")
              \/ /\ slots[s].first # None /\ gen < MaxGen /\ gen' = gen + 1
                 /\ fat' = Released(fat, slots[s].first)
                 /\ Open # {} => May("free_while_open")
                 /\ IsOpen(slots[s].id) => May("remove_nonempty_open")
           /\ UNCHANGED <<data, handle, ids>>
  BY DEF Remove, SlotOf

RenamedEntry(e, m) == [e EXCEPT !.name = m]

LEMMA RenameIs ==
  ASSUME DirHandlesAssumption, TypeOK, NEW n, NEW m, Rename(n, m)
  PROVE  /\ SlotOf(m) = {}
         /\ \E s \in Used, p \in 1 .. Slots :
              /\ IsOpen(slots[s].id) => May("rename_open")
              /\ p = s \/ slots[p] = NoEntry
              /\ slots' = [[slots EXCEPT ![s] = NoEntry] EXCEPT ![p] = RenamedEntry(slots[s], m)]
         /\ UNCHANGED <<fat, data, handle, gen, live, ids>>
  <1>1. SlotOf(m) = {} /\ UNCHANGED <<fat, data, handle, gen, live, ids>>
    BY DEF Rename
  <1>2. PICK s \in SlotOf(n) :
          /\ IsOpen(slots[s].id) => May("rename_open")
          /\ slots' = Placed([slots EXCEPT ![s] = NoEntry], RenamedEntry(slots[s], m))[2]
    BY DEF Rename, RenamedEntry
  <1> DEFINE entries == [slots EXCEPT ![s] = NoEntry]
             p == Placed(entries, RenamedEntry(slots[s], m))
  <1>3. s \in Used /\ s \in 1 .. Slots
    BY DEF SlotOf, Used
  <1>4. \A t \in 1 .. Slots : entries[t] = IF t = s THEN NoEntry ELSE slots[t]
    BY DEF TypeOK
  <1>5. s \in FreeSlots(entries)
    BY <1>3, <1>4 DEF FreeSlots
  <1> HIDE DEF entries
  <1>6. /\ p[1] \in 1 .. Slots /\ entries[p[1]] = NoEntry
        /\ p[2] = [entries EXCEPT ![p[1]] = RenamedEntry(slots[s], m)]
    BY <1>5, PlacedIs
  <1>7. slots' = p[2]
    BY <1>2 DEF entries
  <1> HIDE DEF p
  <1>8. p[1] = s \/ slots[p[1]] = NoEntry
    BY <1>4, <1>6
  <1>9. QED
    BY <1>1, <1>2, <1>3, <1>6, <1>7, <1>8 DEF entries

LEMMA RenamedIs ==
  ASSUME NEW e \in EntryType, NEW m \in Names
  PROVE  LET r == RenamedEntry(e, m) IN
         r \in EntryType /\ r.id = e.id /\ r.name = m /\ r.first = e.first /\ r.size = e.size
  BY DEF RenamedEntry, EntryType

LEMMA StepCases ==
  ASSUME DirHandlesAssumption, TypeOK, [Next]_vars
  PROVE  /\ allowed' = allowed
         /\ \/ UNCHANGED vars
            \/ \E h, g : FileStep(h, g)
            \/ \E h \in Handles, n \in Names : Create(h, n)
            \/ \E h \in Handles, n \in Names : OpenFile(h, n)
            \/ \E n \in Names : Remove(n)
            \/ \E n \in Names, m \in Names : Rename(n, m)
  <1>1. allowed' = allowed
    BY DEF Next, vars
  <1>2. ASSUME NEW h \in Handles, FileWrite(h) \/ Truncate(h) \/ Flush(h) \/ Close(h)
                                  \/ \E n \in 0 .. MaxLen : Seek(h, n)
        PROVE  \E k, g : FileStep(k, g)
    <2>1. CASE FileWrite(h)
      BY <2>1, FileWriteStep
    <2>2. CASE Truncate(h)
      BY <2>2, TruncateFileStep
    <2>3. CASE Flush(h)
      BY <2>3, FlushFileStep
    <2>4. CASE Close(h)
      BY <2>4, CloseFileStep
    <2>5. CASE \E n \in 0 .. MaxLen : Seek(h, n)
      BY <2>5, SeekFileStep
    <2>6. QED
      BY <1>2, <2>1, <2>2, <2>3, <2>4, <2>5
  <1>3. CASE UNCHANGED vars
    BY <1>1, <1>3
  <1>4. CASE Next
    <2>1. \/ \E h \in Handles : FileWrite(h) \/ Truncate(h) \/ Flush(h) \/ Close(h)
                                \/ \E n \in 0 .. MaxLen : Seek(h, n)
          \/ \E h \in Handles, n \in Names : Create(h, n)
          \/ \E h \in Handles, n \in Names : OpenFile(h, n)
          \/ \E n \in Names : Remove(n)
          \/ \E n \in Names, m \in Names : Rename(n, m)
      BY <1>4, Zenon DEF Next
    <2>2. QED
      BY <1>1, <1>2, <2>1
  <1>5. QED
    BY <1>3, <1>4

LEMMA TypeStep ==
  ASSUME DirHandlesAssumption, TypeOK, [Next]_vars
  PROVE  TypeOK'
  <1> USE DEF HandleType
  <1>1. CASE UNCHANGED vars
    BY <1>1 DEF vars, TypeOK
  <1>2. ASSUME NEW h, NEW g, FileStep(h, g) PROVE TypeOK'
    <2>1. handle' \in [Handles -> HandleType]
      BY <1>2 DEF FileStep, TypeOK
    <2>2. slots' \in [1 .. Slots -> EntryType]
      BY <1>2 DEF FileStep, TypeOK
    <2>3. QED
      BY <1>2, <2>1, <2>2 DEF FileStep, TypeOK
  <1>3. ASSUME NEW h \in Handles, NEW n \in Names, Create(h, n) PROVE TypeOK'
    <2>1. PICK s \in 1 .. Slots : /\ slots' = [slots EXCEPT ![s] = NewEntry(n)]
                                  /\ handle' = [handle EXCEPT ![h] = ToFile(s, NewEntry(n))]
      BY <1>3, CreateIs
    <2>2. ids < MaxIds /\ ids' = ids + 1 /\ live' = live \cup {ids + 1} /\ UNCHANGED <<fat, data, gen>>
      BY <1>3, CreateIs
    <2> DEFINE e == NewEntry(n)
               f == ToFile(s, e)
    <2>3. e \in EntryType /\ ids + 1 \in 1 .. MaxIds
      BY <2>2, NewEntryIs
    <2> HIDE DEF e
    <2>4. f \in HandleType
      BY <2>3, ToFileIs DEF TypeOK
    <2>5. slots' = [slots EXCEPT ![s] = e] /\ handle' = [handle EXCEPT ![h] = f]
      BY <2>1 DEF e
    <2> HIDE DEF f
    <2>6. QED
      BY <2>2, <2>3, <2>4, <2>5 DEF TypeOK
  <1>4. ASSUME NEW h \in Handles, NEW n \in Names, OpenFile(h, n) PROVE TypeOK'
    <2>1. PICK s \in Used : handle' = [handle EXCEPT ![h] = ToFile(s, slots[s])]
      BY <1>4, OpenFileIs
    <2> DEFINE f == ToFile(s, slots[s])
    <2>2. f \in HandleType
      <3>1. s \in 1 .. Slots /\ slots[s] \in EntryType
        BY DEF Used, TypeOK
      <3>2. QED
        BY <3>1, ToFileIs DEF TypeOK
    <2> HIDE DEF f
    <2>3. handle' = [handle EXCEPT ![h] = f] /\ UNCHANGED <<fat, data, slots, gen, live, ids>>
      BY <2>1, <1>4, OpenFileIs DEF f
    <2>4. QED
      BY <2>2, <2>3 DEF TypeOK
  <1>5. ASSUME NEW n \in Names, Remove(n) PROVE TypeOK'
    <2>1. PICK s \in Used :
            /\ slots' = [slots EXCEPT ![s] = NoEntry]
            /\ live' = live \ {slots[s].id}
            /\ \/ UNCHANGED <<fat, gen>>
               \/ gen < MaxGen /\ gen' = gen + 1 /\ fat' = Released(fat, slots[s].first)
            /\ UNCHANGED <<data, handle, ids>>
      BY <1>5, RemoveIs
    <2>2. slots' \in [1 .. Slots -> EntryType]
      BY <2>1, DirConstants DEF TypeOK
    <2>3. gen' \in 0 .. MaxGen /\ fat' \in [Clusters -> Clusters \cup {Free, EOC}]
      BY <2>1, DirConstants DEF TypeOK, Released
    <2>4. QED
      BY <2>1, <2>2, <2>3 DEF TypeOK
  <1>6. ASSUME NEW n \in Names, NEW m \in Names, Rename(n, m) PROVE TypeOK'
    <2>1. PICK s \in Used, p \in 1 .. Slots :
            slots' = [[slots EXCEPT ![s] = NoEntry] EXCEPT ![p] = RenamedEntry(slots[s], m)]
      BY <1>6, RenameIs
    <2>2. slots[s] \in EntryType /\ NoEntry \in EntryType
      BY DirConstants DEF Used, TypeOK
    <2>3. RenamedEntry(slots[s], m) \in EntryType
      BY <2>2, RenamedIs
    <2>4. slots' \in [1 .. Slots -> EntryType]
      BY <2>1, <2>2, <2>3 DEF TypeOK
    <2>5. QED
      BY <2>4, <1>6, RenameIs DEF TypeOK
  <1>7. QED
    BY <1>1, <1>2, <1>3, <1>4, <1>5, <1>6, StepCases

LEMMA InitTypes ==
  ASSUME DirHandlesAssumption, Init PROVE TypeOK
  BY DirConstants DEF Init, TypeOK, HandleType

\* The table, the entries and the open files keep their types: every number a file
\* is given is at most the bound it is counted by.
THEOREM DirTypes ==
  ASSUME DirHandlesAssumption PROVE Spec => []TypeOK
  <1>1. Init => TypeOK
    BY InitTypes
  <1>2. TypeOK /\ [Next]_vars => TypeOK'
    BY TypeStep
  <1>3. QED
    BY <1>1, <1>2, PTL DEF Spec

-----------------------------------------------------------------------------
(* Numbers of files are given once and in order, and a file keeps the one  *)
(* it was opened for.                                                      *)

HandleInv ==
  \A h \in Open : /\ handle[h].id \in 1 .. ids /\ handle[h].pos \in 1 .. Slots
                  /\ handle[h].entry.id = handle[h].id /\ handle[h].gen <= gen
NumbersInv ==
  /\ live \subseteq 1 .. ids
  /\ \A s \in Used : slots[s].id \in 1 .. ids
DirInv == TypeOK /\ HandleInv /\ NumbersInv

\* An entry with a number of a file is used.
LEMMA UsedIs ==
  ASSUME TypeOK
  PROVE  /\ \A s \in 1 .. Slots : s \in Used <=> slots[s] # NoEntry
         /\ \A s \in 1 .. Slots : slots[s].id # 0 => s \in Used
         /\ \A s \in Used : s \in 1 .. Slots /\ slots[s] \in EntryType
         /\ ids \in Nat /\ gen \in Nat
         /\ \A h : h \in Open <=> h \in Handles /\ handle[h] # Closed
  BY DEF Used, NoEntry, TypeOK, Open

LEMMA ClosedIs == NoEntry.id = 0 /\ Closed.id = 0 /\ ~Closed.stale
  BY DEF NoEntry, Closed

\* What a step of an open file leaves.
LEMMA FileStepIs ==
  ASSUME DirInv, NEW h, NEW g, FileStep(h, g)
  PROVE  LET f == handle[h] IN
         /\ h \in Handles /\ f \in HandleType /\ f.id \in 1 .. ids /\ f.pos \in 1 .. Slots
         /\ f.entry.id = f.id /\ f.gen <= gen
         /\ handle'[h] = g
         /\ \A k \in Handles : k # h => handle'[k] = handle[k]
         /\ g # Closed => SameFile(f, g) /\ h \in Open'
         /\ g = Closed => h \notin Open'
         /\ \A k \in Handles : k # h => (k \in Open' <=> k \in Open)
  <1> DEFINE f == handle[h]
  <1>1. h \in Open /\ handle' = [handle EXCEPT ![h] = g] /\ (g = Closed \/ SameFile(f, g))
    BY DEF FileStep
  <1>2. h \in Handles /\ f \in HandleType
    BY <1>1, OpenHandle DEF DirInv, Open
  <1>3. f.id \in 1 .. ids /\ f.pos \in 1 .. Slots /\ f.entry.id = f.id /\ f.gen <= gen
    BY <1>1 DEF DirInv, HandleInv
  <1>4. handle'[h] = g /\ \A k \in Handles : k # h => handle'[k] = handle[k]
    BY <1>1, <1>2 DEF DirInv, TypeOK
  <1>5. QED
    BY <1>1, <1>2, <1>3, <1>4 DEF Open

\* The entries after it: those of before, the one at its position edited or not.
LEMMA FileStepSlots ==
  ASSUME DirInv, NEW h, NEW g, FileStep(h, g)
  PROVE  \/ slots' = slots
         \/ /\ handle[h].gen = gen /\ gen' = gen
            /\ slots' \in [1 .. Slots -> EntryType]
            /\ slots'[handle[h].pos].id = handle[h].id
            /\ slots'[handle[h].pos].name = handle[h].entry.name
            /\ \A s \in 1 .. Slots : s # handle[h].pos => slots'[s] = slots[s]
  <1> DEFINE f == handle[h]
  <1>1. f.pos \in 1 .. Slots /\ f.entry.id = f.id
    BY FileStepIs
  <1>2. \/ slots' = slots
        \/ /\ f.gen = gen /\ gen' = gen
           /\ \E e \in EntryType : /\ e.id = f.entry.id /\ e.name = f.entry.name
                                   /\ slots' = [slots EXCEPT ![f.pos] = e]
    BY DEF FileStep
  <1> HIDE DEF f
  <1>3. ASSUME f.gen = gen, gen' = gen, NEW e \in EntryType, e.id = f.entry.id, e.name = f.entry.name,
               slots' = [slots EXCEPT ![f.pos] = e]
        PROVE  /\ slots' \in [1 .. Slots -> EntryType]
               /\ slots'[f.pos].id = f.id /\ slots'[f.pos].name = f.entry.name
               /\ \A s \in 1 .. Slots : s # f.pos => slots'[s] = slots[s]
    BY <1>1, <1>3 DEF DirInv, TypeOK
  <1>4. QED
    BY <1>2, <1>3 DEF f

LEMMA DirInvStep ==
  ASSUME DirHandlesAssumption, DirInv, [Next]_vars
  PROVE  DirInv'
  <1>1. TypeOK /\ HandleInv /\ NumbersInv /\ TypeOK'
    BY TypeStep DEF DirInv
  <1>2. CASE UNCHANGED vars
    BY <1>1, <1>2 DEF vars, DirInv, HandleInv, NumbersInv, Open, Used
  <1>3. ASSUME NEW h, NEW g, FileStep(h, g) PROVE HandleInv' /\ NumbersInv'
    <2> DEFINE f == handle[h]
    <2>1. /\ h \in Handles /\ f.id \in 1 .. ids /\ f.pos \in 1 .. Slots
          /\ f.entry.id = f.id /\ f.gen <= gen /\ handle'[h] = g
          /\ \A k \in Handles : k # h => handle'[k] = handle[k]
          /\ g # Closed => SameFile(f, g)
          /\ g = Closed => h \notin Open'
          /\ \A k \in Handles : k # h => (k \in Open' <=> k \in Open)
      BY <1>3, FileStepIs
    <2>2. live' = live /\ ids' = ids /\ gen <= gen' /\ gen' \in Nat /\ gen \in Nat
      BY <1>1, <1>3 DEF FileStep, TypeOK
    <2>3. HandleInv'
      <3> SUFFICES ASSUME NEW k \in Open'
                   PROVE  /\ handle'[k].id \in 1 .. ids /\ handle'[k].pos \in 1 .. Slots
                          /\ handle'[k].entry.id = handle'[k].id /\ handle'[k].gen <= gen'
        BY <2>2 DEF HandleInv
      <3>1. k \in Handles
        BY DEF Open
      <3>2. CASE k = h
        <4>1. SameFile(f, g)
          BY <2>1, <3>2
        <4>2. g.id = f.id /\ g.pos = f.pos /\ g.entry.id = f.entry.id
              /\ (g.gen = f.gen \/ g.gen = gen')
          BY <4>1 DEF SameFile
        <4>3. f.gen \in Nat
          BY <3>1, <3>2, <1>1 DEF TypeOK
        <4> HIDE DEF f
        <4>4. QED
          BY <2>1, <2>2, <3>2, <4>2, <4>3
      <3>3. CASE k # h
        <4>1. k \in Open /\ handle'[k] = handle[k]
          BY <2>1, <3>1, <3>3
        <4>2. handle[k].gen \in Nat
          BY <3>1, <1>1 DEF TypeOK
        <4>3. QED
          BY <4>1, <4>2, <1>1, <2>2 DEF HandleInv
      <3>4. QED
        BY <3>2, <3>3
    <2>4. NumbersInv'
      <3>1. live' \subseteq 1 .. ids'
        BY <1>1, <2>2 DEF NumbersInv
      <3>2. ASSUME NEW s \in Used' PROVE slots'[s].id \in 1 .. ids
        <4>1. s \in 1 .. Slots /\ slots'[s] # NoEntry
          BY DEF Used
        <4>2. CASE slots' = slots
          BY <4>1, <4>2, <1>1 DEF Used, NumbersInv
        <4>3. CASE slots'[f.pos].id = f.id /\ \A t \in 1 .. Slots : t # f.pos => slots'[t] = slots[t]
          <5>1. CASE s = f.pos
            BY <5>1, <4>3, <2>1
          <5>2. CASE s # f.pos
            BY <5>2, <4>1, <4>3, <1>1 DEF Used, NumbersInv
          <5>3. QED
            BY <5>1, <5>2
        <4>4. QED
          BY <4>2, <4>3, <1>3, FileStepSlots
      <3>3. QED
        BY <3>1, <3>2, <2>2 DEF NumbersInv
    <2>5. QED
      BY <2>3, <2>4
  <1>4. ASSUME NEW h \in Handles, NEW n \in Names, Create(h, n) PROVE HandleInv' /\ NumbersInv'
    <2>1. PICK s \in 1 .. Slots : /\ slots' = [slots EXCEPT ![s] = NewEntry(n)]
                                  /\ handle' = [handle EXCEPT ![h] = ToFile(s, NewEntry(n))]
      BY <1>4, CreateIs
    <2>2. ids < MaxIds /\ ids' = ids + 1 /\ live' = live \cup {ids + 1} /\ gen' = gen
      BY <1>4, CreateIs
    <2> DEFINE e == NewEntry(n)
               f == ToFile(s, e)
    <2>3. e \in EntryType /\ e.id = ids + 1
      BY <1>1, <2>2, NewEntryIs
    <2>4. slots' = [slots EXCEPT ![s] = e] /\ handle' = [handle EXCEPT ![h] = f]
      BY <2>1
    <2> HIDE DEF e
    <2>5. f.id = ids + 1 /\ f.pos = s /\ f.entry = e /\ f.gen = gen
      BY <1>1, <2>3, ToFileIs DEF TypeOK
    <2> HIDE DEF f
    <2>6. ids \in Nat /\ gen \in Nat
      BY <1>1, UsedIs
    <2>7. HandleInv'
      <3> SUFFICES ASSUME NEW k \in Open'
                   PROVE  /\ handle'[k].id \in 1 .. ids + 1 /\ handle'[k].pos \in 1 .. Slots
                          /\ handle'[k].entry.id = handle'[k].id /\ handle'[k].gen <= gen
        BY <2>2 DEF HandleInv
      <3>1. CASE k = h
        <4>1. handle'[k] = f
          BY <3>1, <2>4, <1>1 DEF TypeOK
        <4>2. QED
          BY <4>1, <2>3, <2>5, <2>6
      <3>2. CASE k # h
        <4>1. k \in Open /\ handle'[k] = handle[k]
          BY <3>2, <2>4, <1>1 DEF TypeOK, Open
        <4>2. QED
          BY <4>1, <2>6, <1>1 DEF HandleInv
      <3>3. QED
        BY <3>1, <3>2
    <2>8. NumbersInv'
      <3>1. live' \subseteq 1 .. ids + 1
        BY <2>2, <2>6, <1>1 DEF NumbersInv
      <3>2. ASSUME NEW t \in Used' PROVE slots'[t].id \in 1 .. ids + 1
        <4>1. t \in 1 .. Slots /\ slots'[t] # NoEntry
          BY DEF Used
        <4>2. slots'[t] = IF t = s THEN e ELSE slots[t]
          BY <4>1, <2>4, <1>1 DEF TypeOK
        <4>3. t # s => t \in Used
          BY <4>1, <4>2 DEF Used
        <4>4. QED
          BY <4>2, <4>3, <2>3, <2>6, <1>1 DEF NumbersInv
      <3>3. QED
        BY <3>1, <3>2, <2>2 DEF NumbersInv
    <2>9. QED
      BY <2>7, <2>8
  <1>5. ASSUME NEW h \in Handles, NEW n \in Names, OpenFile(h, n) PROVE HandleInv' /\ NumbersInv'
    <2>1. PICK s \in Used : handle' = [handle EXCEPT ![h] = ToFile(s, slots[s])]
      BY <1>5, OpenFileIs
    <2>2. UNCHANGED <<slots, gen, live, ids>>
      BY <1>5, OpenFileIs
    <2> DEFINE e == slots[s]
               f == ToFile(s, e)
    <2>3. e \in EntryType /\ e.id \in 1 .. ids /\ s \in 1 .. Slots
      BY <1>1 DEF Used, TypeOK, NumbersInv
    <2>4. handle' = [handle EXCEPT ![h] = f]
      BY <2>1
    <2> HIDE DEF e
    <2>5. f.id = e.id /\ f.pos = s /\ f.entry = e /\ f.gen = gen
      BY <1>1, <2>3, ToFileIs DEF TypeOK
    <2> HIDE DEF f
    <2>6. ids \in Nat /\ gen \in Nat
      BY <1>1, UsedIs
    <2>7. HandleInv'
      <3> SUFFICES ASSUME NEW k \in Open'
                   PROVE  /\ handle'[k].id \in 1 .. ids /\ handle'[k].pos \in 1 .. Slots
                          /\ handle'[k].entry.id = handle'[k].id /\ handle'[k].gen <= gen
        BY <2>2 DEF HandleInv
      <3>1. CASE k = h
        <4>1. handle'[k] = f
          BY <3>1, <2>4, <1>1 DEF TypeOK
        <4>2. QED
          BY <4>1, <2>3, <2>5, <2>6
      <3>2. CASE k # h
        <4>1. k \in Open /\ handle'[k] = handle[k]
          BY <3>2, <2>4, <1>1 DEF TypeOK, Open
        <4>2. QED
          BY <4>1, <1>1 DEF HandleInv
      <3>3. QED
        BY <3>1, <3>2
    <2>8. NumbersInv'
      BY <2>2, <1>1 DEF NumbersInv, Used
    <2>9. QED
      BY <2>7, <2>8
  <1>6. ASSUME NEW n \in Names, Remove(n) PROVE HandleInv' /\ NumbersInv'
    <2>1. PICK s \in Used :
            /\ slots' = [slots EXCEPT ![s] = NoEntry]
            /\ live' = live \ {slots[s].id}
            /\ gen' = gen \/ gen' = gen + 1
            /\ UNCHANGED <<data, handle, ids>>
      BY <1>6, RemoveIs
    <2>2. gen <= gen' /\ gen \in Nat /\ gen' \in Nat
      BY <2>1, <1>1, UsedIs
    <2>3. HandleInv'
      <3> SUFFICES ASSUME NEW k \in Open
                   PROVE  /\ handle[k].id \in 1 .. ids /\ handle[k].pos \in 1 .. Slots
                          /\ handle[k].entry.id = handle[k].id /\ handle[k].gen <= gen'
        BY <2>1 DEF HandleInv, Open
      <3>1. handle[k].gen \in Nat
        BY <1>1 DEF TypeOK, Open
      <3>2. QED
        BY <3>1, <2>2, <1>1 DEF HandleInv
    <2>4. NumbersInv'
      <3>1. live' \subseteq 1 .. ids'
        BY <2>1, <1>1 DEF NumbersInv
      <3>2. ASSUME NEW t \in Used' PROVE slots'[t].id \in 1 .. ids
        <4>1. t \in 1 .. Slots /\ slots'[t] # NoEntry
          BY DEF Used
        <4>2. slots'[t] = IF t = s THEN NoEntry ELSE slots[t]
          BY <4>1, <2>1, <1>1 DEF TypeOK
        <4>3. QED
          BY <4>1, <4>2, <1>1 DEF NumbersInv, Used
      <3>3. QED
        BY <3>1, <3>2, <2>1 DEF NumbersInv
    <2>5. QED
      BY <2>3, <2>4
  <1>7. ASSUME NEW n \in Names, NEW m \in Names, Rename(n, m) PROVE HandleInv' /\ NumbersInv'
    <2>1. PICK s \in Used, p \in 1 .. Slots :
            slots' = [[slots EXCEPT ![s] = NoEntry] EXCEPT ![p] = RenamedEntry(slots[s], m)]
      BY <1>7, <1>1, RenameIs
    <2>2. UNCHANGED <<handle, gen, live, ids>>
      BY <1>7, <1>1, RenameIs
    <2> DEFINE e == RenamedEntry(slots[s], m)
    <2>3. e.id \in 1 .. ids
      <3>1. slots[s] \in EntryType /\ slots[s].id \in 1 .. ids
        BY <1>1 DEF Used, TypeOK, NumbersInv
      <3>2. QED
        BY <3>1, RenamedIs
    <2> HIDE DEF e
    <2>4. \A t \in 1 .. Slots : slots'[t] = IF t = p THEN e ELSE IF t = s THEN NoEntry ELSE slots[t]
      BY <2>1, <1>1 DEF TypeOK, e
    <2>5. NumbersInv'
      <3>1. ASSUME NEW t \in Used' PROVE slots'[t].id \in 1 .. ids
        <4>1. t \in 1 .. Slots /\ slots'[t] # NoEntry
          BY DEF Used
        <4>2. QED
          BY <4>1, <2>3, <2>4, <1>1 DEF NumbersInv, Used
      <3>2. QED
        BY <3>1, <2>2, <1>1 DEF NumbersInv
    <2>6. HandleInv'
      BY <2>2, <1>1 DEF HandleInv, Open
    <2>7. QED
      BY <2>5, <2>6
  <1>8. HandleInv' /\ NumbersInv'
    BY <1>1, <1>2, <1>3, <1>4, <1>5, <1>6, <1>7, StepCases DEF DirInv
  <1>9. QED
    BY <1>1, <1>8 DEF DirInv

LEMMA DirStarts ==
  ASSUME DirHandlesAssumption, Init
  PROVE  DirInv /\ Open = {} /\ Used = {} /\ live = {}
  <1>1. TypeOK
    BY InitTypes
  <1>2. Open = {} /\ Used = {} /\ live = {}
    BY DEF Init, Open, Used
  <1>3. QED
    BY <1>1, <1>2 DEF DirInv, HandleInv, NumbersInv

-----------------------------------------------------------------------------
(* When nothing is released under an open file its generation is current,  *)
(* so that no entry is refused.                                            *)

CurrentInv == ~May("free_while_open") => \A h \in Open : handle[h].gen = gen

LEMMA CurrentStep ==
  ASSUME DirHandlesAssumption, DirInv, CurrentInv, [Next]_vars
  PROVE  /\ CurrentInv' /\ RefusedWhenStale
         /\ ~May("free_while_open") => \A k \in Handles : handle'[k].stale => handle[k].stale
  <1>1. TypeOK /\ allowed' = allowed
    BY StepCases DEF DirInv
  <1> SUFFICES ASSUME ~May("free_while_open")
               PROVE  /\ \A k \in Open' : handle'[k].gen = gen'
                      /\ \A k \in Handles : handle'[k].stale => handle[k].stale
    BY <1>1 DEF CurrentInv, RefusedWhenStale, May
  <1>2. \A k \in Open : handle[k].gen = gen
    BY DEF CurrentInv
  <1>3. CASE UNCHANGED vars
    BY <1>2, <1>3 DEF vars, Open
  <1>4. ASSUME NEW h, NEW g, FileStep(h, g)
        PROVE  /\ \A k \in Open' : handle'[k].gen = gen'
               /\ \A k \in Handles : handle'[k].stale => handle[k].stale
    <2> DEFINE f == handle[h]
    <2>1. /\ h \in Handles /\ handle'[h] = g
          /\ \A k \in Handles : k # h => handle'[k] = handle[k]
          /\ g # Closed => SameFile(f, g)
          /\ g = Closed => h \notin Open'
          /\ \A k \in Handles : k # h => (k \in Open' <=> k \in Open)
      BY <1>4, FileStepIs
    <2>2. h \in Open /\ (gen' = gen \/ (g.gen = gen' /\ Open = {h}))
      BY <1>4 DEF FileStep
    <2>3. g # Closed => g.gen = gen' /\ g.stale = f.stale
      <3>1. f.gen = gen
        BY <1>2, <2>2
      <3>2. SameFile(f, g) => g.stale = f.stale /\ (g.gen = f.gen \/ g.gen = gen')
        BY <3>1 DEF SameFile
      <3> HIDE DEF f
      <3>3. QED
        BY <2>1, <2>2, <3>1, <3>2
    <2>4. ASSUME NEW k \in Open' PROVE handle'[k].gen = gen'
      <3>1. k \in Handles
        BY DEF Open
      <3>2. CASE k = h
        BY <3>2, <2>1, <2>3
      <3>3. CASE k # h
        BY <3>1, <3>3, <2>1, <2>2, <1>2
      <3>4. QED
        BY <3>2, <3>3
    <2>5. ASSUME NEW k \in Handles, handle'[k].stale PROVE handle[k].stale
      <3>1. CASE k = h /\ g # Closed
        BY <3>1, <2>1, <2>3, <2>5
      <3>2. CASE k = h /\ g = Closed
        BY <3>2, <2>1, <2>5, ClosedIs
      <3>3. CASE k # h
        BY <3>3, <2>1, <2>5
      <3>4. QED
        BY <3>1, <3>2, <3>3
    <2>6. QED
      BY <2>4, <2>5
  <1>5. ASSUME NEW h \in Handles, NEW s \in 1 .. Slots, NEW e \in EntryType,
               handle' = [handle EXCEPT ![h] = ToFile(s, e)], gen' = gen
        PROVE  /\ \A k \in Open' : handle'[k].gen = gen'
               /\ \A k \in Handles : handle'[k].stale => handle[k].stale
    <2> DEFINE f == ToFile(s, e)
    <2>1. f.gen = gen /\ ~f.stale
      BY <1>1, ToFileIs DEF TypeOK
    <2>2. handle' = [handle EXCEPT ![h] = f]
      BY <1>5
    <2> HIDE DEF f
    <2>3. \A k \in Handles : handle'[k] = IF k = h THEN f ELSE handle[k]
      BY <2>2, <1>1 DEF TypeOK
    <2>4. \A k \in Open' : k \in Handles /\ (k # h => k \in Open)
      BY <2>3 DEF Open
    <2>5. QED
      BY <2>1, <2>3, <2>4, <1>2, <1>5
  <1>6. ASSUME NEW h \in Handles, NEW n \in Names, Create(h, n)
        PROVE  /\ \A k \in Open' : handle'[k].gen = gen'
               /\ \A k \in Handles : handle'[k].stale => handle[k].stale
    <2>1. NewEntry(n) \in EntryType
      BY <1>1, <1>6, CreateIs, NewEntryIs
    <2>2. QED
      BY <2>1, <1>5, <1>6, CreateIs
  <1>7. ASSUME NEW h \in Handles, NEW n \in Names, OpenFile(h, n)
        PROVE  /\ \A k \in Open' : handle'[k].gen = gen'
               /\ \A k \in Handles : handle'[k].stale => handle[k].stale
    <2>1. PICK s \in Used : handle' = [handle EXCEPT ![h] = ToFile(s, slots[s])] /\ gen' = gen
      BY <1>7, OpenFileIs
    <2>2. s \in 1 .. Slots /\ slots[s] \in EntryType
      BY <1>1, UsedIs
    <2>3. QED
      BY <2>1, <2>2, <1>5
  <1>8. ASSUME NEW n \in Names, Remove(n)
        PROVE  /\ \A k \in Open' : handle'[k].gen = gen'
               /\ \A k \in Handles : handle'[k].stale => handle[k].stale
    <2>1. handle' = handle /\ (gen' = gen \/ Open = {})
      BY <1>8, RemoveIs
    <2>2. QED
      BY <2>1, <1>2 DEF Open
  <1>9. ASSUME NEW n \in Names, NEW m \in Names, Rename(n, m)
        PROVE  /\ \A k \in Open' : handle'[k].gen = gen'
               /\ \A k \in Handles : handle'[k].stale => handle[k].stale
    <2>1. handle' = handle /\ gen' = gen
      BY <1>1, <1>9, RenameIs
    <2>2. QED
      BY <2>1, <1>2 DEF Open
  <1>10. QED
    BY <1>1, <1>3, <1>4, <1>6, <1>7, <1>8, <1>9, StepCases

\* A file is never refused its entry (StaleDirectoryEntry) while nothing is
\* released under it, whatever else the program does: truncate, which releases its
\* own clusters, takes the present generation.
THEOREM NeverRefused ==
  ASSUME DirHandlesAssumption PROVE Spec => StaleOnlyWhenStale
  <1> DEFINE Inv == DirInv /\ CurrentInv
  <1>1. Init => Inv
    BY DirStarts DEF CurrentInv
  <1>2. Inv /\ [Next]_vars => Inv' /\ RefusedWhenStale
    BY DirInvStep, CurrentStep
  <1>3. QED
    BY <1>1, <1>2, PTL DEF Spec, StaleOnlyWhenStale

-----------------------------------------------------------------------------
(* The entries of the directory, when nothing moves an entry of an open    *)
(* file without moving the generation.                                     *)

\* One entry for each live file, under a name of its own.
OneEntryEach ==
  /\ {slots[s].id : s \in Used} = live
  /\ \A s, t \in Used : s # t => slots[s].id # slots[t].id /\ slots[s].name # slots[t].name

\* What makes that inductive.  A file that may still write its entry finds it where
\* it was; whatever file finds its entry there has its name in its copy.
EntryFound == \A h \in Open : handle[h].gen = gen => slots[handle[h].pos].id = handle[h].id
EntryNamed == \A h \in Open : slots[handle[h].pos].id = handle[h].id
                              => slots[handle[h].pos].name = handle[h].entry.name
EntriesInv == EntriesStay => OneEntryEach /\ EntryFound /\ EntryNamed

\* Writing a file's entry over its own leaves the numbers and the names.
LEMMA FileStepEntries ==
  ASSUME DirHandlesAssumption, DirInv, EntriesStay, OneEntryEach, EntryFound, EntryNamed,
         NEW h, NEW g, FileStep(h, g)
  PROVE  /\ \A s \in 1 .. Slots : slots'[s].id = slots[s].id /\ slots'[s].name = slots[s].name
         /\ Used' = Used
  <1> DEFINE f == handle[h]
  <1>1. f.id \in 1 .. ids /\ f.pos \in 1 .. Slots /\ h \in Open
    BY FileStepIs DEF FileStep
  <1>2. CASE slots' = slots
    BY <1>2 DEF Used
  <1>3. CASE /\ f.gen = gen
             /\ slots'[f.pos].id = f.id /\ slots'[f.pos].name = f.entry.name
             /\ \A s \in 1 .. Slots : s # f.pos => slots'[s] = slots[s]
    <2>1. slots[f.pos].id = f.id /\ slots[f.pos].name = f.entry.name
      BY <1>1, <1>3 DEF EntryFound, EntryNamed
    <2>2. f.id # 0 /\ NoEntry.id = 0
      BY <1>1, ClosedIs
    <2> HIDE DEF f
    <2>3. \A s \in 1 .. Slots : slots'[s].id = slots[s].id /\ slots'[s].name = slots[s].name
      BY <1>3, <2>1
    <2>4. \A s \in 1 .. Slots : slots'[s] = NoEntry <=> slots[s] = NoEntry
      BY <1>3, <2>1, <2>2
    <2>5. QED
      BY <2>3, <2>4 DEF Used
  <1>4. QED
    BY <1>2, <1>3, FileStepSlots

LEMMA EntriesStep ==
  ASSUME DirHandlesAssumption, DirInv, EntriesInv, [Next]_vars
  PROVE  EntriesInv'
  <1>1. TypeOK /\ HandleInv /\ NumbersInv /\ allowed' = allowed
    BY StepCases DEF DirInv
  <1> SUFFICES ASSUME EntriesStay
               PROVE  OneEntryEach' /\ EntryFound' /\ EntryNamed'
    BY <1>1 DEF EntriesInv, EntriesStay
  <1>2. OneEntryEach /\ EntryFound /\ EntryNamed
    BY DEF EntriesInv
  <1>3. ids \in Nat /\ gen \in Nat /\ NoEntry.id = 0
    BY <1>1, UsedIs, ClosedIs
  <1>4. ~May("remove_empty_open") /\ ~May("rename_open") /\ ~May("truncate_removed")
    BY DEF EntriesStay, May
  <1>5. CASE UNCHANGED vars
    BY <1>2, <1>5 DEF vars, OneEntryEach, EntryFound, EntryNamed, Open, Used
  <1>6. ASSUME NEW h, NEW g, FileStep(h, g) PROVE OneEntryEach' /\ EntryFound' /\ EntryNamed'
    <2> DEFINE f == handle[h]
    <2>1. /\ h \in Handles /\ f.pos \in 1 .. Slots /\ handle'[h] = g
          /\ \A k \in Handles : k # h => handle'[k] = handle[k]
          /\ g # Closed => SameFile(f, g)
          /\ g = Closed => h \notin Open'
          /\ \A k \in Handles : k # h => (k \in Open' <=> k \in Open)
      BY <1>1, <1>6, FileStepIs DEF DirInv
    <2>2. /\ \A s \in 1 .. Slots : slots'[s].id = slots[s].id /\ slots'[s].name = slots[s].name
          /\ Used' = Used
      BY <1>2, <1>6, FileStepEntries
    <2>3. live' = live /\ h \in Open /\ gen <= gen' /\ gen' \in Nat
          /\ (gen' = gen \/ g.gen = gen')
      BY <1>6 DEF FileStep
    <2>4. OneEntryEach'
      <3>1. {slots'[s].id : s \in Used'} = {slots[s].id : s \in Used}
        BY <2>2 DEF Used
      <3>2. \A s, t \in Used' : s # t => slots'[s].id # slots'[t].id /\ slots'[s].name # slots'[t].name
        BY <2>2, <1>2 DEF OneEntryEach, Used
      <3>3. QED
        BY <3>1, <3>2, <2>3, <1>2 DEF OneEntryEach
    <2>5. ASSUME NEW k \in Open'
          PROVE  /\ handle'[k].gen = gen' => slots'[handle'[k].pos].id = handle'[k].id
                 /\ slots'[handle'[k].pos].id = handle'[k].id
                    => slots'[handle'[k].pos].name = handle'[k].entry.name
      <3>1. k \in Handles
        BY DEF Open
      <3>2. CASE k = h
        <4>1. /\ g.id = f.id /\ g.pos = f.pos /\ g.entry.name = f.entry.name
              /\ g.gen = f.gen \/ (g.gen = gen' /\ slots[f.pos].id = f.id)
          BY <3>2, <2>1, <1>4 DEF SameFile
        <4>2. f.gen <= gen /\ f.gen \in Nat
          BY <1>1, <2>1, <2>3 DEF HandleInv, TypeOK
        <4>3. g.gen = gen' => slots[f.pos].id = f.id
          <5>1. CASE g.gen = f.gen
            <6>1. g.gen = gen' => f.gen = gen
              <7> HIDE DEF f
              <7>1. QED
                BY <5>1, <4>2, <2>3, <1>3
            <6>2. QED
              BY <6>1, <1>2, <2>3 DEF EntryFound
          <5>2. QED
            BY <5>1, <4>1
        <4>4. slots[f.pos].id = f.id => slots[f.pos].name = f.entry.name
          BY <1>2, <2>3 DEF EntryNamed
        <4> HIDE DEF f
        <4>5. QED
          BY <3>2, <4>1, <4>3, <4>4, <2>1, <2>2
      <3>3. CASE k # h
        <4>1. k \in Open /\ handle'[k] = handle[k]
          BY <2>1, <3>1, <3>3
        <4>2. handle[k].pos \in 1 .. Slots /\ handle[k].gen <= gen /\ handle[k].gen \in Nat
          BY <4>1, <3>1, <1>1 DEF HandleInv, TypeOK
        <4>3. handle[k].gen = gen' => handle[k].gen = gen
          BY <4>2, <2>3, <1>3
        <4>4. QED
          BY <4>1, <4>2, <4>3, <2>2, <1>2 DEF EntryFound, EntryNamed
      <3>4. QED
        BY <3>2, <3>3
    <2>6. QED
      BY <2>4, <2>5 DEF EntryFound, EntryNamed
  <1>7. ASSUME NEW h \in Handles, NEW n \in Names, Create(h, n)
        PROVE  OneEntryEach' /\ EntryFound' /\ EntryNamed'
    <2>1. PICK s \in 1 .. Slots : /\ slots[s] = NoEntry
                                  /\ slots' = [slots EXCEPT ![s] = NewEntry(n)]
                                  /\ handle' = [handle EXCEPT ![h] = ToFile(s, NewEntry(n))]
      BY <1>7, CreateIs
    <2>2. ids < MaxIds /\ live' = live \cup {ids + 1} /\ gen' = gen /\ SlotOf(n) = {}
      BY <1>7, CreateIs
    <2> DEFINE e == NewEntry(n)
               f == ToFile(s, e)
    <2>3. e \in EntryType /\ e.id = ids + 1 /\ e.name = n /\ e # NoEntry
      BY <1>1, <2>2, NewEntryIs
    <2>4. slots' = [slots EXCEPT ![s] = e] /\ handle' = [handle EXCEPT ![h] = f]
      BY <2>1
    <2> HIDE DEF e
    <2>5. f.id = ids + 1 /\ f.pos = s /\ f.entry = e
      BY <1>1, <2>3, ToFileIs DEF TypeOK
    <2> HIDE DEF f
    <2>6. \A t \in 1 .. Slots : slots'[t] = IF t = s THEN e ELSE slots[t]
      BY <2>4, <1>1 DEF TypeOK
    <2>7. Used' = Used \cup {s} /\ s \notin Used
      BY <2>1, <2>3, <2>6 DEF Used
    <2>8. \A t \in Used : t \in 1 .. Slots /\ t # s /\ slots[t].id \in 1 .. ids /\ slots[t].name # n
      BY <1>1, <2>2, <2>7 DEF NumbersInv, SlotOf, Used
    <2>9. OneEntryEach'
      <3>1. {slots'[t].id : t \in Used'} = {slots[t].id : t \in Used} \cup {ids + 1}
        BY <2>3, <2>6, <2>7, <2>8
      <3>2. ASSUME NEW t \in Used', NEW u \in Used', t # u
            PROVE  slots'[t].id # slots'[u].id /\ slots'[t].name # slots'[u].name
        <4>1. ASSUME NEW x \in Used', NEW y \in Used', x = s, y # s
              PROVE  slots'[x].id # slots'[y].id /\ slots'[x].name # slots'[y].name
          <5>1. y \in Used
            BY <4>1, <2>7
          <5>2. slots'[y] = slots[y] /\ slots'[x] = e
            BY <5>1, <4>1, <2>6, <2>8
          <5>3. slots[y].id \in 1 .. ids /\ slots[y].name # n
            BY <5>1, <2>8
          <5>4. QED
            BY <5>2, <5>3, <2>3, <1>3
        <4>2. CASE t # s /\ u # s
          <5>1. t \in Used /\ u \in Used
            BY <4>2, <2>7
          <5>2. slots'[t] = slots[t] /\ slots'[u] = slots[u]
            BY <5>1, <2>6, <2>8
          <5>3. QED
            BY <5>1, <5>2, <3>2, <1>2 DEF OneEntryEach
        <4>3. CASE t = s
          BY <4>1, <4>3, <3>2
        <4>4. CASE u = s
          BY <4>1, <4>4, <3>2
        <4>5. QED
          BY <4>2, <4>3, <4>4
      <3>3. QED
        BY <3>1, <3>2, <2>2, <1>2 DEF OneEntryEach
    <2>10. ASSUME NEW k \in Open'
           PROVE  /\ handle'[k].gen = gen' => slots'[handle'[k].pos].id = handle'[k].id
                  /\ slots'[handle'[k].pos].id = handle'[k].id
                     => slots'[handle'[k].pos].name = handle'[k].entry.name
      <3>1. CASE k = h
        <4>1. handle'[k] = f
          BY <3>1, <2>4, <1>1 DEF TypeOK
        <4>2. slots'[s] = e
          BY <2>6
        <4>3. QED
          BY <4>1, <4>2, <2>3, <2>5
      <3>2. CASE k # h
        <4>1. k \in Open /\ handle'[k] = handle[k]
          BY <3>2, <2>4, <1>1 DEF TypeOK, Open
        <4>2. handle[k].pos \in 1 .. Slots /\ handle[k].id \in 1 .. ids
          BY <4>1, <1>1 DEF HandleInv
        <4>3. CASE handle[k].pos = s
          <5>1. slots'[s].id = ids + 1 /\ slots[s].id = 0
            BY <2>1, <2>3, <2>6, <1>3
          <5>2. handle[k].id # ids + 1 /\ handle[k].id # 0
            BY <4>2, <1>3
          <5>3. handle[k].gen # gen
            BY <5>1, <5>2, <4>1, <4>3, <1>2 DEF EntryFound
          <5>4. QED
            BY <5>1, <5>2, <5>3, <4>1, <4>3, <2>2
        <4>4. CASE handle[k].pos # s
          <5>1. slots'[handle[k].pos] = slots[handle[k].pos]
            BY <4>2, <4>4, <2>6
          <5>2. QED
            BY <5>1, <4>1, <2>2, <1>2 DEF EntryFound, EntryNamed
        <4>5. QED
          BY <4>3, <4>4
      <3>3. QED
        BY <3>1, <3>2
    <2>11. QED
      BY <2>9, <2>10 DEF EntryFound, EntryNamed
  <1>8. ASSUME NEW h \in Handles, NEW n \in Names, OpenFile(h, n)
        PROVE  OneEntryEach' /\ EntryFound' /\ EntryNamed'
    <2>1. PICK s \in Used : handle' = [handle EXCEPT ![h] = ToFile(s, slots[s])]
      BY <1>8, OpenFileIs
    <2>2. UNCHANGED <<slots, gen, live>>
      BY <1>8, OpenFileIs
    <2> DEFINE e == slots[s]
               f == ToFile(s, e)
    <2>3. e \in EntryType /\ s \in 1 .. Slots
      BY <1>1 DEF Used, TypeOK
    <2>4. handle' = [handle EXCEPT ![h] = f]
      BY <2>1
    <2>5. slots[s] = e
      OBVIOUS
    <2> HIDE DEF e
    <2>6. f.id = e.id /\ f.pos = s /\ f.entry = e
      BY <1>1, <2>3, ToFileIs DEF TypeOK
    <2> HIDE DEF f
    <2>7. OneEntryEach'
      BY <2>2, <1>2 DEF OneEntryEach, Used
    <2>8. ASSUME NEW k \in Open'
          PROVE  /\ handle'[k].gen = gen' => slots'[handle'[k].pos].id = handle'[k].id
                 /\ slots'[handle'[k].pos].id = handle'[k].id
                    => slots'[handle'[k].pos].name = handle'[k].entry.name
      <3>1. CASE k = h
        <4>1. handle'[k] = f
          BY <3>1, <2>4, <1>1 DEF TypeOK
        <4>2. QED
          BY <4>1, <2>2, <2>5, <2>6
      <3>2. CASE k # h
        <4>1. k \in Open /\ handle'[k] = handle[k]
          BY <3>2, <2>4, <1>1 DEF TypeOK, Open
        <4>2. QED
          BY <4>1, <2>2, <1>2 DEF EntryFound, EntryNamed
      <3>3. QED
        BY <3>1, <3>2
    <2>9. QED
      BY <2>7, <2>8 DEF EntryFound, EntryNamed
  <1>9. ASSUME NEW n \in Names, Remove(n) PROVE OneEntryEach' /\ EntryFound' /\ EntryNamed'
    <2>1. PICK s \in Used :
            /\ slots' = [slots EXCEPT ![s] = NoEntry]
            /\ live' = live \ {slots[s].id}
            /\ \/ gen' = gen /\ (IsOpen(slots[s].id) => May("remove_empty_open"))
               \/ gen' = gen + 1
            /\ handle' = handle
      BY <1>9, RemoveIs
    <2>2. \A t \in 1 .. Slots : slots'[t] = IF t = s THEN NoEntry ELSE slots[t]
      BY <2>1, <1>1 DEF TypeOK
    <2>3. Used' = Used \ {s}
      BY <2>2 DEF Used
    <2>4. OneEntryEach'
      <3>1. \A t \in Used' : slots'[t] = slots[t] /\ t \in Used
        BY <2>2, <2>3 DEF Used
      <3>2. {slots'[t].id : t \in Used'} = {slots[t].id : t \in Used} \ {slots[s].id}
        <4>1. \A t \in Used : t # s => slots[t].id # slots[s].id
          BY <1>2 DEF OneEntryEach
        <4>2. QED
          BY <3>1, <2>3, <4>1
      <3>3. {slots'[t].id : t \in Used'} = live'
        BY <3>2, <2>1, <1>2 DEF OneEntryEach
      <3>4. \A t, u \in Used' : t # u => slots'[t].id # slots'[u].id /\ slots'[t].name # slots'[u].name
        BY <3>1, <1>2 DEF OneEntryEach
      <3>5. QED
        BY <3>3, <3>4 DEF OneEntryEach
    <2>5. ASSUME NEW k \in Open'
          PROVE  /\ handle'[k].gen = gen' => slots'[handle'[k].pos].id = handle'[k].id
                 /\ slots'[handle'[k].pos].id = handle'[k].id
                    => slots'[handle'[k].pos].name = handle'[k].entry.name
      <3>1. k \in Open /\ handle'[k] = handle[k]
        BY <2>1 DEF Open
      <3>2. handle[k].pos \in 1 .. Slots /\ handle[k].id \in 1 .. ids /\ handle[k].gen <= gen
            /\ handle[k].gen \in Nat
        BY <3>1, <1>1 DEF HandleInv, TypeOK, Open
      <3>3. ASSUME handle[k].gen = gen' PROVE gen' = gen /\ slots[handle[k].pos].id = handle[k].id
        <4>1. gen' = gen
          BY <3>2, <3>3, <2>1, <1>3
        <4>2. QED
          BY <4>1, <3>1, <3>3, <1>2 DEF EntryFound
      <3>4. ASSUME handle[k].gen = gen' PROVE handle[k].pos # s
        <4>1. ~IsOpen(slots[s].id)
          BY <3>3, <3>4, <2>1, <1>3, <1>4
        <4>2. QED
          BY <4>1, <3>1, <3>3, <3>4 DEF IsOpen
      <3>5. handle[k].gen = gen' => slots'[handle[k].pos].id = handle[k].id
        BY <3>2, <3>3, <3>4, <2>2
      <3>6. slots'[handle[k].pos].id = handle[k].id
            => slots'[handle[k].pos].name = handle[k].entry.name
        <4>1. CASE handle[k].pos = s
          <5>1. slots'[handle[k].pos].id = 0
            BY <4>1, <3>2, <2>2, <1>3
          <5>2. QED
            BY <5>1, <3>2
        <4>2. CASE handle[k].pos # s
          BY <4>2, <3>1, <3>2, <2>2, <1>2 DEF EntryNamed
        <4>3. QED
          BY <4>1, <4>2
      <3>7. QED
        BY <3>1, <3>5, <3>6
    <2>6. QED
      BY <2>4, <2>5 DEF EntryFound, EntryNamed
  <1>10. ASSUME NEW n \in Names, NEW m \in Names, Rename(n, m)
         PROVE  OneEntryEach' /\ EntryFound' /\ EntryNamed'
    <2>1. PICK s \in Used, p \in 1 .. Slots :
            /\ IsOpen(slots[s].id) => May("rename_open")
            /\ p = s \/ slots[p] = NoEntry
            /\ slots' = [[slots EXCEPT ![s] = NoEntry] EXCEPT ![p] = RenamedEntry(slots[s], m)]
      BY <1>1, <1>10, RenameIs
    <2>2. UNCHANGED <<handle, gen, live>> /\ SlotOf(m) = {}
      BY <1>1, <1>10, RenameIs
    <2> DEFINE e == RenamedEntry(slots[s], m)
    <2>3. e.id = slots[s].id /\ e.name = m /\ slots[s].id \in 1 .. ids /\ s \in 1 .. Slots
      <3>1. s \in 1 .. Slots /\ slots[s] \in EntryType /\ slots[s].id \in 1 .. ids
        BY <1>1 DEF Used, TypeOK, NumbersInv
      <3>2. QED
        BY <3>1, RenamedIs
    <2> HIDE DEF e
    <2>4. \A t \in 1 .. Slots : slots'[t] = IF t = p THEN e ELSE IF t = s THEN NoEntry ELSE slots[t]
      BY <2>1, <1>1 DEF TypeOK, e
    <2>5. Used' = (Used \ {s}) \cup {p} /\ (p \in Used => p = s)
      <3>1. e # NoEntry
        BY <2>3, <1>3
      <3>2. QED
        BY <3>1, <2>1, <2>4 DEF Used
    <2>6. \A t \in Used' : t # p => t \in Used /\ t # s /\ t \in 1 .. Slots /\ slots'[t] = slots[t]
      BY <2>4, <2>5 DEF Used
    <2>7. slots'[p] = e
      BY <2>4
    <2>8. OneEntryEach'
      <3>1. {slots'[t].id : t \in Used'} = {slots[t].id : t \in Used}
        BY <2>3, <2>5, <2>6, <2>7
      <3>2. ASSUME NEW x \in Used', x # p
            PROVE  slots'[x].id # slots'[p].id /\ slots'[x].name # slots'[p].name
        <4>1. x \in Used /\ x # s /\ slots'[x] = slots[x]
          BY <3>2, <2>6
        <4>2. slots[x].id # slots[s].id
          BY <4>1, <1>2 DEF OneEntryEach
        <4>3. slots[x].name # m
          BY <4>1, <2>2 DEF SlotOf
        <4>4. QED
          BY <4>1, <4>2, <4>3, <2>3, <2>7
      <3>3. ASSUME NEW x \in Used', NEW y \in Used', x # y
            PROVE  slots'[x].id # slots'[y].id /\ slots'[x].name # slots'[y].name
        <4>1. CASE x # p /\ y # p
          <5>1. x \in Used /\ y \in Used /\ slots'[x] = slots[x] /\ slots'[y] = slots[y]
            BY <4>1, <2>6
          <5>2. QED
            BY <5>1, <3>3, <1>2 DEF OneEntryEach
        <4>2. CASE x = p
          BY <4>2, <3>2, <3>3
        <4>3. CASE y = p
          BY <4>3, <3>2, <3>3
        <4>4. QED
          BY <4>1, <4>2, <4>3
      <3>4. QED
        BY <3>1, <3>3, <2>2, <1>2 DEF OneEntryEach
    <2>9. ASSUME NEW k \in Open
          PROVE  /\ handle[k].gen = gen => slots'[handle[k].pos].id = handle[k].id
                 /\ slots'[handle[k].pos].id = handle[k].id
                    => slots'[handle[k].pos].name = handle[k].entry.name
      <3>1. handle[k].pos \in 1 .. Slots /\ handle[k].id \in 1 .. ids
        BY <1>1 DEF HandleInv
      <3>2. handle[k].id # slots[s].id
        BY <2>1, <1>4 DEF IsOpen
      <3>3. handle[k].gen = gen => slots[handle[k].pos].id = handle[k].id
        BY <1>2 DEF EntryFound
      <3>4. CASE handle[k].pos # p /\ handle[k].pos # s
        <4>1. slots'[handle[k].pos] = slots[handle[k].pos]
          BY <3>1, <3>4, <2>4
        <4>2. QED
          BY <4>1, <3>3, <1>2 DEF EntryNamed
      <3>5. CASE handle[k].pos = s
        <4>1. slots'[s].id = slots[s].id \/ slots'[s].id = 0
          BY <2>3, <2>4, <1>3
        <4>2. QED
          BY <4>1, <3>1, <3>2, <3>3, <3>5
      <3>6. CASE handle[k].pos = p /\ p # s
        <4>1. slots[p].id = 0 /\ slots'[p].id = slots[s].id
          BY <3>6, <2>1, <2>3, <2>7, <1>3
        <4>2. QED
          BY <4>1, <3>1, <3>2, <3>3, <3>6
      <3>7. QED
        BY <3>4, <3>5, <3>6
    <2>10. Open' = Open
      BY <2>2 DEF Open
    <2>11. EntryFound' /\ EntryNamed'
      BY <2>2, <2>9, <2>10 DEF EntryFound, EntryNamed
    <2>12. QED
      BY <2>8, <2>11
  <1>11. QED
    BY <1>1, <1>5, <1>6, <1>7, <1>8, <1>9, <1>10, StepCases

\* Programs that rename no open file, remove no open file while it is empty, and
\* truncate no file after its entry was removed (EntriesStay): whatever is removed
\* while it is open and has clusters, whatever is then written, flushed or
\* released, the entries of the directory are those of the files created and not
\* removed, one each, under different names.  No stale editor writes over the
\* entry of another file or brings a removed one back.
THEOREM EntriesAreIntact ==
  ASSUME DirHandlesAssumption PROVE Spec => []EntriesIntact
  <1> DEFINE Inv == DirInv /\ EntriesInv
  <1>1. Init => Inv
    <2>1. ASSUME Init PROVE OneEntryEach /\ EntryFound /\ EntryNamed
      BY <2>1, DirStarts DEF OneEntryEach, EntryFound, EntryNamed
    <2>2. QED
      BY <2>1, DirStarts DEF EntriesInv
  <1>2. Inv /\ [Next]_vars => Inv'
    BY DirInvStep, EntriesStep
  <1>3. Inv => EntriesIntact
    BY DEF EntriesInv, EntriesIntact, OneEntryEach
  <1>4. QED
    BY <1>1, <1>2, <1>3, PTL DEF Spec

-----------------------------------------------------------------------------
(* The chain of a file, and what a step of an open file does to it.  The   *)
(* operators take the table, the data, the entries and the open files, so  *)
(* that they speak of a state and of the next one alike.                   *)

\* The list L is the chain of the file of entry e and number n, written for it.
ChainIs(t, d, e, n, L) ==
  /\ Chain(t, L, e.size) /\ e.first = FirstOf(L, e.size)
  /\ \A i \in 0 .. e.size - 1 : d[L[i]] = n

\* The cursor of an open file is on the cluster before its offset.
AtCursor(f, L) ==
  f.first = f.entry.first /\ f.off \in 0 .. f.entry.size /\ f.cur = LastOf(L, f.off)

\* The clusters an entry names.
Held(t, e) == IF e.first = None THEN {} ELSE ChainFrom(t, e.first)

LEMMA HeldIs ==
  ASSUME Total \in Nat, NEW t, NEW d, NEW e, NEW n, NEW L, ChainIs(t, d, e, n, L)
  PROVE  /\ Held(t, e) = Members(L, 0, e.size)
         /\ Cardinality(Held(t, e)) = e.size
         /\ \A c \in Held(t, e) : c \in Clusters /\ t[c] # Free /\ d[c] = n
         /\ e.first # None <=> e.size # 0
  <1> DEFINE m == e.size
             S == Members(L, 0, m)
  <1>1. Chain(t, L, m) /\ Listed(L, m) /\ m \in Nat /\ e.first = FirstOf(L, m)
        /\ \A i \in 0 .. m - 1 : d[L[i]] = n
    BY DEF ChainIs, Chain, Listed
  <1>2. e.first # None <=> m # 0
    <2>1. m # 0 => 0 \in 0 .. m - 1
      BY <1>1
    <2>2. m # 0 => L[0] # None
      BY <1>1, <2>1, NextOfChain
    <2>3. QED
      BY <1>1, <2>2 DEF FirstOf
  <1>3. Held(t, e) = S
    <2>1. CASE m = 0
      <3>1. S = {}
        BY <2>1 DEF Members
      <3>2. QED
        BY <3>1, <2>1, <1>2 DEF Held
    <2>2. CASE m # 0
      <3>1. 0 \in 0 .. m - 1 /\ e.first = L[0]
        BY <1>1, <2>2 DEF FirstOf
      <3>2. ChainFrom(t, L[0]) = S
        BY <1>1, <3>1, ChainFromChain
      <3>3. QED
        BY <3>1, <3>2, <2>2, <1>2 DEF Held
    <2>3. QED
      BY <2>1, <2>2
  <1>4. Cardinality(S) = m - 0
    <2>1. 0 \in 0 .. m
      BY <1>1
    <2> HIDE DEF m
    <2>2. QED
      BY <1>1, <2>1, MembersCount
  <1>5. ASSUME NEW c \in S PROVE c \in Clusters /\ t[c] # Free /\ d[c] = n
    <2>1. PICK i \in 0 .. m - 1 : c = L[i]
      BY DEF Members
    <2>2. QED
      BY <2>1, <1>1, NextOfChain
  <1> HIDE DEF S
  <1>6. \A c \in Held(t, e) : c \in Clusters /\ t[c] # Free /\ d[c] = n
    BY <1>3, <1>5
  <1>7. Cardinality(Held(t, e)) = m
    BY <1>1, <1>3, <1>4
  <1>8. QED
    BY <1>2, <1>3, <1>6, <1>7 DEF S

\* An open file of the present generation, its chain and its cursor.
FileReady(h, L) ==
  LET f == handle[h] IN
  /\ h \in Open /\ f.gen = gen
  /\ ~f.dirty => slots[f.pos] = f.entry
  /\ ChainIs(fat, data, f.entry, f.id, L) /\ AtCursor(f, L)

\* A step after which it has the chain K and has taken the free clusters N.
OwnStep(h, L, K, N) ==
  LET f == handle[h]
      g == handle'[h]
      M == Members(L, 0, f.entry.size) \cup N
  IN  /\ ~g.dirty => slots'[f.pos] = g.entry
      /\ ChainIs(fat', data', g.entry, f.id, K) /\ AtCursor(g, K)
      /\ N \subseteq FreeIn(fat)
      /\ \A c \in Clusters : c \notin M => fat'[c] = fat[c] /\ data'[c] = data[c]
      /\ \A c \in M : fat'[c] # Free => c \in Members(K, 0, g.entry.size)

\* Flushing a file of the present generation leaves it clean, its entry on the
\* volume.
LEMMA FlushedEntry ==
  ASSUME TypeOK, NEW f \in HandleType, f.pos \in 1 .. Slots, f.gen = gen,
         ~f.dirty => slots[f.pos] = f.entry
  PROVE  FlushedSlots(f)[f.pos] = f.entry /\ ~FlushedFile(f).dirty
  <1>1. ~FlushedFile(f).dirty
    BY FlushedIs
  <1>2. \/ ~f.dirty /\ FlushedSlots(f) = slots
        \/ FlushedSlots(f) = [slots EXCEPT ![f.pos] = f.entry]
    BY FlushedSlotsIs
  <1>3. QED
    BY <1>1, <1>2 DEF TypeOK

LEMMA ReadyIs ==
  ASSUME DirHandlesAssumption, DirInv, NEW h, NEW L, FileReady(h, L)
  PROVE  LET f == handle[h]
             m == f.entry.size
         IN  /\ h \in Open /\ h \in Handles /\ f \in HandleType /\ f.pos \in 1 .. Slots /\ f.gen = gen
             /\ Total \in Nat /\ MaxLen \in Nat
             /\ m \in 0 .. MaxLen /\ f.off \in 0 .. m
             /\ Chain(fat, L, m) /\ f.entry.first = FirstOf(L, m) /\ f.first = FirstOf(L, m)
             /\ f.cur = LastOf(L, f.off)
             /\ \A i \in 0 .. m - 1 : data[L[i]] = f.id
             /\ f.first = None <=> m = 0
             /\ f.cur = None <=> f.off = 0
             /\ ~f.dirty => slots[f.pos] = f.entry
  <1> DEFINE f == handle[h]
             m == f.entry.size
  <1>1. h \in Open /\ h \in Handles /\ f.gen = gen
    BY DEF FileReady, Open
  <1>2. f \in HandleType /\ f.pos \in 1 .. Slots
    BY <1>1, OpenHandle DEF DirInv, HandleInv
  <1>3. Total \in Nat /\ MaxLen \in Nat
    BY DirConstants
  <1>4. /\ Chain(fat, L, m) /\ f.entry.first = FirstOf(L, m) /\ f.first = FirstOf(L, m)
        /\ \A i \in 0 .. m - 1 : data[L[i]] = f.id
        /\ f.cur = LastOf(L, f.off) /\ f.off \in 0 .. m /\ (~f.dirty => slots[f.pos] = f.entry)
    BY DEF FileReady, ChainIs, AtCursor
  <1>5. m \in 0 .. MaxLen
    <2>1. f.entry \in EntryType
      BY <1>2, HandleIs
    <2>2. QED
      BY <2>1, EntryIs
  <1> HIDE DEF f
  <1>6. \A i \in 0 .. m - 1 : L[i] # None
    BY <1>3, <1>4, NextOfChain
  <1>7. f.first = None <=> m = 0
    BY <1>4, <1>5, <1>6 DEF FirstOf
  <1>8. f.cur = None <=> f.off = 0
    <2>1. f.off # 0 => f.off - 1 \in 0 .. m - 1
      BY <1>4, <1>5
    <2>2. QED
      BY <2>1, <1>4, <1>6 DEF LastOf
  <1>9. QED
    BY <1>1, <1>2, <1>3, <1>4, <1>5, <1>7, <1>8 DEF f

\* A write goes to the cluster at the offset, which is there or not.
LEMMA ClusterToWriteIs ==
  ASSUME DirHandlesAssumption, DirInv, NEW h, NEW L, FileReady(h, L)
  PROVE  LET f == handle[h] IN
         ClusterToWrite(f) = IF f.off < f.entry.size THEN L[f.off] ELSE None
  <1> DEFINE f == handle[h]
             m == f.entry.size
             o == f.off
  <1>1. /\ Total \in Nat /\ m \in Nat /\ o \in 0 .. m /\ Chain(fat, L, m) /\ f.first = FirstOf(L, m)
        /\ f.cur = LastOf(L, o) /\ (f.cur = None <=> o = 0)
    BY ReadyIs
  <1> SUFFICES ClusterToWrite(f) = IF o < m THEN L[o] ELSE None
    OBVIOUS
  <1> HIDE DEF f, m, o
  <1>2. CASE o = 0
    BY <1>1, <1>2 DEF ClusterToWrite, FirstOf
  <1>3. CASE o # 0
    <2>1. o - 1 \in 0 .. m - 1 /\ f.cur = L[o - 1] /\ (o - 1) + 1 = o
      BY <1>1, <1>3 DEF LastOf
    <2>2. NextIn(fat, L[o - 1]) = IF o < m THEN L[o] ELSE None
      <3> DEFINE k == o - 1
      <3>1. k \in 0 .. m - 1 /\ k + 1 = o
        BY <2>1
      <3> HIDE DEF k
      <3>2. NextIn(fat, L[k]) = IF k + 1 < m THEN L[k + 1] ELSE None
        BY <3>1, <1>1, NextOfChain
      <3>3. QED
        BY <3>1, <3>2 DEF k
    <2>3. QED
      BY <2>1, <2>2, <1>1, <1>3 DEF ClusterToWrite
  <1>4. QED
    BY <1>2, <1>3

\* What a write to cluster c leaves in the file, its entry flushed.
LEMMA WriteLeaves ==
  ASSUME DirHandlesAssumption, DirInv, NEW h, NEW L, FileReady(h, L), NEW c \in Clusters,
         handle[h].off < MaxLen, WriteTo(h, c), gen' = gen
  PROVE  LET f == handle[h]
             g == handle'[h]
         IN  /\ g.entry.size = SizeAfter(f, f.off + 1)
             /\ g.entry.first = (IF f.first = None THEN c ELSE f.entry.first)
             /\ g.first = (IF f.first = None THEN c ELSE f.first)
             /\ g.off = f.off + 1 /\ g.cur = c
             /\ ~g.dirty => slots'[f.pos] = g.entry
             /\ data' = [data EXCEPT ![c] = f.id]
  <1> DEFINE f == handle[h]
  <1>1. /\ h \in Handles /\ f \in HandleType /\ f.pos \in 1 .. Slots /\ f.gen = gen
        /\ ~f.dirty => slots[f.pos] = f.entry
    BY ReadyIs
  <1>2. PICK moved \in BOOLEAN :
          /\ data' = [data EXCEPT ![c] = f.id]
          /\ slots' = FlushedSlots(Written(f, c, moved))
          /\ handle' = [handle EXCEPT ![h] = FlushedFile(Written(f, c, moved))]
    BY WriteToIs
  <1>3. f.off < MaxLen
    OBVIOUS
  <1> DEFINE w == Written(f, c, moved)
             g == FlushedFile(w)
  <1>4. handle'[h] = g
    BY <1>1, <1>2 DEF DirInv, TypeOK
  <1>5. slots' = FlushedSlots(w)
    BY <1>2
  <1> SUFFICES /\ g.entry.size = SizeAfter(f, f.off + 1)
               /\ g.entry.first = (IF f.first = None THEN c ELSE f.entry.first)
               /\ g.first = (IF f.first = None THEN c ELSE f.first)
               /\ g.off = f.off + 1 /\ g.cur = c
               /\ ~g.dirty => slots'[f.pos] = g.entry
    BY <1>2, <1>4
  <1> HIDE DEF f
  <1>6. /\ w \in HandleType /\ w.pos = f.pos /\ w.gen = f.gen
        /\ w.cur = c /\ w.off = f.off + 1 /\ w.first = (IF f.first = None THEN c ELSE f.first)
        /\ w.entry.first = (IF f.first = None THEN c ELSE f.entry.first)
        /\ w.entry.size = SizeAfter(f, f.off + 1)
        /\ ~w.dirty => ~f.dirty /\ w.entry = f.entry
    BY <1>1, <1>3, WrittenIs
  <1> HIDE DEF w
  <1>7. g.first = w.first /\ g.cur = w.cur /\ g.off = w.off /\ g.entry = w.entry
    BY <1>6, FlushedIs
  <1>8. slots'[f.pos] = g.entry
    <2>1. FlushedSlots(w)[w.pos] = w.entry
      <3>1. w.pos \in 1 .. Slots /\ w.gen = gen /\ (~w.dirty => slots[w.pos] = w.entry)
        BY <1>1, <1>6
      <3>2. QED
        BY <3>1, <1>6, FlushedEntry DEF DirInv
    <2>2. QED
      BY <2>1, <1>5, <1>6, <1>7
  <1> HIDE DEF g
  <1>9. QED
    BY <1>6, <1>7, <1>8

LEMMA WriteOwn ==
  ASSUME DirHandlesAssumption, DirInv, NEW h, NEW L, FileReady(h, L), FileWrite(h)
  PROVE  \E K, N : OwnStep(h, L, K, N)
  <1> DEFINE f == handle[h]
             g == handle'[h]
             m == f.entry.size
             o == f.off
  <1>1. /\ h \in Handles /\ Total \in Nat /\ MaxLen \in Nat /\ m \in 0 .. MaxLen /\ o \in 0 .. m
        /\ Chain(fat, L, m) /\ f.entry.first = FirstOf(L, m) /\ f.first = FirstOf(L, m)
        /\ f.cur = LastOf(L, o)
        /\ \A i \in 0 .. m - 1 : data[L[i]] = f.id
        /\ f.first = None <=> m = 0
    BY ReadyIs
  <1>2. o < MaxLen /\ gen' = gen /\ data \in [Clusters -> 0 .. MaxIds]
    BY DEF FileWrite, DirInv, TypeOK
  <1>3. ClusterToWrite(f) = IF o < m THEN L[o] ELSE None
    BY ClusterToWriteIs
  <1>4. \A i \in 0 .. m - 1 : L[i] \in Clusters /\ L[i] # None
    BY <1>1, NextOfChain
  <1>5. SizeAfter(f, o + 1) = IF o < m THEN m ELSE m + 1
    BY <1>1 DEF SizeAfter
  <1>6. CASE o < m
    <2> DEFINE c == L[o]
    <2>1. c \in Clusters /\ c # None /\ o \in 0 .. m - 1
      BY <1>1, <1>4, <1>6
    <2>2. WriteTo(h, c) /\ fat' = fat
      BY <1>3, <1>6, <2>1 DEF FileWrite
    <2>3. /\ g.entry.size = SizeAfter(f, o + 1)
          /\ g.entry.first = (IF f.first = None THEN c ELSE f.entry.first)
          /\ g.first = (IF f.first = None THEN c ELSE f.first)
          /\ g.off = o + 1 /\ g.cur = c
          /\ ~g.dirty => slots'[f.pos] = g.entry
          /\ data' = [data EXCEPT ![c] = f.id]
      BY <1>2, <2>1, <2>2, WriteLeaves
    <2> HIDE DEF c, f, g, o
    <2>4. /\ g.entry.size = m /\ g.entry.first = FirstOf(L, m) /\ g.first = FirstOf(L, m)
      BY <1>1, <1>5, <1>6, <2>3
    <2>5. \A x \in Clusters : data'[x] = IF x = c THEN f.id ELSE data[x]
      BY <2>3, <1>2
    <2>6. ChainIs(fat', data', g.entry, f.id, L)
      BY <2>2, <2>4, <2>5, <1>1, <1>4 DEF ChainIs
    <2>7. AtCursor(g, L)
      <3>1. g.off \in 0 .. m /\ LastOf(L, o + 1) = c
        <4>1. o + 1 # 0 /\ (o + 1) - 1 = o /\ o + 1 \in 0 .. m
          BY <1>1, <2>1
        <4>2. QED
          BY <4>1, <2>3 DEF LastOf, c
      <3>2. QED
        BY <3>1, <2>3, <2>4 DEF AtCursor
    <2>8. c \in Members(L, 0, m)
      BY <2>1 DEF Members, c
    <2>9. OwnStep(h, L, L, {})
      <3>1. \A x \in Clusters : x \notin Members(L, 0, m) => fat'[x] = fat[x] /\ data'[x] = data[x]
        BY <2>2, <2>5, <2>8
      <3>2. QED
        BY <3>1, <2>3, <2>4, <2>6, <2>7 DEF OwnStep, f, g
    <2>10. QED
      BY <2>9
  <1>7. CASE ~(o < m)
    <2>1. o = m
      BY <1>1, <1>7
    <2>2. PICK new \in FreeIn(fat) : fat' = Extended(fat, f.cur, new) /\ WriteTo(h, new)
      BY <1>3, <1>7 DEF FileWrite
    <2>3. /\ new \in Clusters /\ new \notin Members(L, 0, m)
          /\ Chain(fat', Longer(L, m, new), m + 1)
          /\ Members(Longer(L, m, new), 0, m + 1) = Members(L, 0, m) \cup {new}
          /\ \A x \in Clusters : x # new /\ x \notin Members(L, 0, m) => fat'[x] = fat[x]
      <3>1. f.cur = LastOf(L, m)
        BY <1>1, <2>1
      <3>2. fat' = Extended(fat, LastOf(L, m), new)
        BY <3>1, <2>2
      <3> HIDE DEF m
      <3>3. QED
        BY <3>2, <1>1, ExtendedChain
    <2>4. /\ g.entry.size = SizeAfter(f, o + 1)
          /\ g.entry.first = (IF f.first = None THEN new ELSE f.entry.first)
          /\ g.first = (IF f.first = None THEN new ELSE f.first)
          /\ g.off = o + 1 /\ g.cur = new
          /\ ~g.dirty => slots'[f.pos] = g.entry
          /\ data' = [data EXCEPT ![new] = f.id]
      BY <1>2, <2>2, <2>3, WriteLeaves
    <2> DEFINE K == Longer(L, m, new)
    <2>5. \A i \in 0 .. m : K[i] = IF i = m THEN new ELSE L[i]
      BY DEF Longer
    <2> HIDE DEF f, g, o, K, m
    <2>6. g.entry.size = m + 1 /\ g.off = m + 1
      BY <1>5, <1>7, <2>1, <2>4
    <2>7. g.entry.first = FirstOf(K, m + 1) /\ g.first = FirstOf(K, m + 1)
      <3>1. FirstOf(K, m + 1) = IF m = 0 THEN new ELSE L[0]
        BY <1>1, <2>5 DEF FirstOf
      <3>2. QED
        BY <3>1, <1>1, <2>4 DEF FirstOf
    <2>8. \A x \in Clusters : data'[x] = IF x = new THEN f.id ELSE data[x]
      BY <2>4, <1>2
    <2>9. ChainIs(fat', data', g.entry, f.id, K)
      <3>1. \A i \in 0 .. m : data'[K[i]] = f.id
        BY <1>1, <1>4, <2>3, <2>5, <2>8
      <3>2. (m + 1) - 1 = m
        BY <1>1
      <3>3. QED
        BY <3>1, <3>2, <2>3, <2>6, <2>7 DEF ChainIs, K
    <2>10. AtCursor(g, K)
      <3>1. LastOf(K, m + 1) = new
        <4>1. m + 1 # 0 /\ (m + 1) - 1 = m /\ m \in 0 .. m
          BY <1>1
        <4>2. QED
          BY <4>1, <2>5 DEF LastOf
      <3>2. m + 1 \in 0 .. m + 1
        BY <1>1
      <3>3. QED
        BY <3>1, <3>2, <2>4, <2>6, <2>7 DEF AtCursor
    <2>11. OwnStep(h, L, K, {new})
      <3>1. \A x \in Clusters : x \notin Members(L, 0, m) \cup {new}
                                => fat'[x] = fat[x] /\ data'[x] = data[x]
        BY <2>3, <2>8
      <3>2. Members(L, 0, m) \cup {new} = Members(K, 0, g.entry.size)
        BY <2>3, <2>6 DEF K
      <3>3. QED
        BY <3>1, <3>2, <2>4, <2>9, <2>10 DEF OwnStep, f, g, m
    <2>12. QED
      BY <2>11
  <1>8. QED
    BY <1>6, <1>7

LEMMA FlushOwn ==
  ASSUME DirHandlesAssumption, DirInv, NEW h, NEW L, FileReady(h, L), Flush(h)
  PROVE  \E K, N : OwnStep(h, L, K, N)
  <1> DEFINE f == handle[h]
             g == handle'[h]
  <1>1. /\ h \in Handles /\ f \in HandleType /\ f.pos \in 1 .. Slots /\ f.gen = gen
        /\ ~f.dirty => slots[f.pos] = f.entry
    BY ReadyIs
  <1>2. UNCHANGED <<fat, data>> /\ slots' = FlushedSlots(f) /\ g = FlushedFile(f)
    BY <1>1 DEF Flush, DirInv, TypeOK
  <1>3. ChainIs(fat, data, f.entry, f.id, L) /\ AtCursor(f, L)
    BY DEF FileReady
  <1> HIDE DEF f, g
  <1>4. slots'[f.pos] = f.entry
    BY <1>1, <1>2, FlushedEntry DEF DirInv
  <1>5. g.first = f.first /\ g.cur = f.cur /\ g.off = f.off /\ g.entry = f.entry
    BY <1>1, <1>2, FlushedIs
  <1>6. ChainIs(fat', data', g.entry, f.id, L) /\ AtCursor(g, L)
    BY <1>2, <1>3, <1>5 DEF ChainIs, AtCursor
  <1>7. OwnStep(h, L, L, {})
    BY <1>2, <1>4, <1>5, <1>6 DEF OwnStep, f, g
  <1>8. QED
    BY <1>7

LEMMA SeekOwn ==
  ASSUME DirHandlesAssumption, DirInv, NEW h, NEW L, FileReady(h, L), NEW n, Seek(h, n)
  PROVE  \E K, N : OwnStep(h, L, K, N)
  <1> DEFINE f == handle[h]
             g == handle'[h]
             m == f.entry.size
             reached == {k \in 0 .. ClustersToSkip(n) : Walk(fat, f.first, k) # None}
             last == CHOOSE k \in reached : \A j \in reached : j <= k
  <1>1. /\ h \in Handles /\ f \in HandleType /\ Total \in Nat /\ m \in Nat
        /\ Chain(fat, L, m) /\ f.first = FirstOf(L, m) /\ f.entry.first = FirstOf(L, m)
        /\ f.first = None <=> m = 0
        /\ ~f.dirty => slots[f.pos] = f.entry
    BY ReadyIs
  <1>2. UNCHANGED <<fat, data, slots>> /\ n \in 0 .. m
    BY DEF Seek
  <1>3. ChainIs(fat, data, f.entry, f.id, L)
    BY DEF FileReady
  <1>4. \E c : g = [f EXCEPT !.off = n, !.cur = c] /\ c = LastOf(L, n)
    <2>1. CASE n = 0 \/ f.first = None
      <3>1. g = [f EXCEPT !.off = 0, !.cur = None]
        BY <2>1, <1>1 DEF Seek, DirInv, TypeOK
      <3>2. n = 0
        BY <2>1, <1>1, <1>2
      <3>3. QED
        BY <3>1, <3>2 DEF LastOf
    <2>2. CASE ~(n = 0 \/ f.first = None)
      <3>1. n \in 1 .. m /\ ClustersToSkip(n) = n - 1 /\ m # 0
        BY <2>2, <1>1, <1>2 DEF ClustersToSkip
      <3>2. ASSUME NEW k \in 0 .. n - 1 PROVE Walk(fat, f.first, k) = L[k] /\ L[k] # None
        <4>1. 0 \in 0 .. m - 1 /\ k \in Nat /\ 0 + k = k /\ k < m /\ k \in 0 .. m - 1
          BY <3>1, <1>1
        <4>2. f.first = L[0]
          BY <3>1, <1>1 DEF FirstOf
        <4>3. L[k] # None
          BY <4>1, <1>1, NextOfChain
        <4> HIDE DEF m, f
        <4>4. Walk(fat, L[0], k) = IF 0 + k < m THEN L[0 + k] ELSE None
          BY <4>1, <1>1, WalkOfChain
        <4>5. QED
          BY <4>1, <4>2, <4>3, <4>4
      <3>3. reached = 0 .. n - 1
        BY <3>1, <3>2
      <3>4. last = n - 1
        <4>1. last = CHOOSE k \in 0 .. n - 1 : \A j \in 0 .. n - 1 : j <= k
          BY <3>3
        <4>2. n - 1 \in 0 .. n - 1 /\ \A j \in 0 .. n - 1 : j <= n - 1
          BY <3>1
        <4>3. \A k \in 0 .. n - 1 : (\A j \in 0 .. n - 1 : j <= k) => k = n - 1
          BY <4>2, <3>1
        <4> HIDE DEF last
        <4>4. QED
          BY <4>1, <4>2, <4>3
      <3>5. g = [f EXCEPT !.off = IF last = ClustersToSkip(n) THEN n ELSE last + 1,
                          !.cur = Walk(fat, f.first, last)]
        BY <2>2, <1>1 DEF Seek, DirInv, TypeOK
      <3>6. Walk(fat, f.first, last) = LastOf(L, n)
        <4>1. n - 1 \in 0 .. n - 1 /\ n # 0
          BY <3>1
        <4>2. Walk(fat, f.first, n - 1) = L[n - 1]
          BY <4>1, <3>2
        <4> HIDE DEF last
        <4>3. QED
          BY <4>1, <4>2, <3>4 DEF LastOf
      <3> HIDE DEF last, f, g
      <3>7. QED
        BY <3>1, <3>4, <3>5, <3>6
    <2>3. QED
      BY <2>1, <2>2
  <1>5. PICK c : g = [f EXCEPT !.off = n, !.cur = c] /\ c = LastOf(L, n)
    BY <1>4
  <1> HIDE DEF f, g
  <1>6. /\ g.first = f.first /\ g.entry = f.entry /\ g.dirty = f.dirty
        /\ g.off = n /\ g.cur = c
    BY <1>1, <1>5 DEF HandleType
  <1>7. ChainIs(fat', data', g.entry, f.id, L)
    BY <1>2, <1>3, <1>6 DEF ChainIs
  <1>8. AtCursor(g, L)
    BY <1>1, <1>2, <1>5, <1>6 DEF AtCursor
  <1>9. OwnStep(h, L, L, {})
    BY <1>1, <1>2, <1>6, <1>7, <1>8 DEF OwnStep, f, g
  <1>10. QED
    BY <1>9

LEMMA TruncateOwn ==
  ASSUME DirHandlesAssumption, DirInv, NEW h, NEW L, FileReady(h, L), Truncate(h)
  PROVE  \E K, N : OwnStep(h, L, K, N)
  <1> DEFINE f == handle[h]
             g == handle'[h]
             m == f.entry.size
             o == f.off
             frees == f.cur = None /\ f.first # None
  <1>1. /\ h \in Handles /\ f \in HandleType /\ Total \in Nat /\ m \in Nat /\ o \in 0 .. m
        /\ Chain(fat, L, m) /\ f.entry.first = FirstOf(L, m) /\ f.first = FirstOf(L, m)
        /\ f.cur = LastOf(L, o)
        /\ \A i \in 0 .. m - 1 : data[L[i]] = f.id
        /\ f.first = None <=> m = 0
        /\ f.cur = None <=> o = 0
        /\ ~f.dirty => slots[f.pos] = f.entry
    BY ReadyIs
  <1>2. /\ frees => gen < MaxGen
        /\ fat' = IF f.cur # None THEN CutAfter(fat, f.cur)
                  ELSE IF frees THEN Released(fat, f.first) ELSE fat
        /\ gen' = IF frees THEN gen + 1 ELSE gen
        /\ handle' = [handle EXCEPT ![h] = Truncated(f, gen')]
        /\ UNCHANGED <<data, slots>>
    BY TruncateIs
  <1>3. g = Truncated(f, gen')
    BY <1>1, <1>2 DEF DirInv, TypeOK
  <1> HIDE DEF f, g
  <1>4. /\ g.cur = f.cur /\ g.off = o /\ g.first = (IF f.cur = None THEN None ELSE f.first)
        /\ g.entry.first = (IF o = 0 THEN None ELSE f.entry.first) /\ g.entry.size = o
        /\ ~g.dirty => ~f.dirty /\ g.entry = f.entry
    <2>1. PICK n \in 0 .. MaxGen : n = gen'
      <3>1. gen' \in 0 .. MaxGen
        BY <1>2, DirConstants DEF DirInv, TypeOK
      <3>2. QED
        BY <3>1
    <2>2. g = Truncated(f, n)
      BY <1>3, <2>1
    <2>3. QED
      BY <2>2, <1>1, TruncatedIs
  <1>5. ~g.dirty => slots'[f.pos] = g.entry
    BY <1>1, <1>2, <1>4
  <1>6. CASE o = 0
    <2> DEFINE K == [i \in 0 .. -1 |-> None]
    <2>1. Chain(fat', K, 0)
      BY EmptyChain
    <2>2. g.entry.size = 0 /\ g.entry.first = None /\ g.first = None /\ g.off = 0 /\ g.cur = None
      BY <1>1, <1>4, <1>6
    <2>3. ChainIs(fat', data', g.entry, f.id, K)
      BY <2>1, <2>2 DEF ChainIs, FirstOf
    <2>4. AtCursor(g, K)
      BY <2>2 DEF AtCursor, LastOf
    <2>5. \A x \in Clusters : x \notin Members(L, 0, m) => fat'[x] = fat[x]
      <3>1. CASE m = 0
        <4>1. fat' = fat
          BY <3>1, <1>1, <1>2, <1>6
        <4>2. QED
          BY <4>1
      <3>2. CASE m # 0
        <4>1. fat' = Released(fat, L[0])
          BY <3>2, <1>1, <1>2, <1>6 DEF FirstOf
        <4> HIDE DEF m
        <4>2. QED
          BY <4>1, <3>2, <1>1, ReleasedChain
      <3>3. QED
        BY <3>1, <3>2
    <2>6. \A x \in Members(L, 0, m) : fat'[x] = Free
      <3>1. CASE m = 0
        BY <3>1 DEF Members
      <3>2. CASE m # 0
        <4>1. fat' = Released(fat, L[0])
          BY <3>2, <1>1, <1>2, <1>6 DEF FirstOf
        <4>2. \A x \in Members(L, 0, m) : x \in Clusters
          BY <1>1 DEF Members, Chain, Listed
        <4> HIDE DEF m
        <4>3. QED
          BY <4>1, <4>2, <3>2, <1>1, ReleasedChain
      <3>3. QED
        BY <3>1, <3>2
    <2> HIDE DEF K
    <2>7. OwnStep(h, L, K, {})
      BY <1>2, <1>5, <2>3, <2>4, <2>5, <2>6 DEF OwnStep, f, g
    <2>8. QED
      BY <2>7
  <1>7. CASE o # 0
    <2> DEFINE k == o - 1
               K == Shorter(L, k)
    <2>1. k \in 0 .. m - 1 /\ k + 1 = o /\ f.cur = L[k] /\ f.cur # None /\ m # 0
      BY <1>1, <1>7 DEF LastOf
    <2>2. fat' = CutAfter(fat, L[k])
      BY <2>1, <1>2
    <2> HIDE DEF k
    <2>3. /\ Chain(fat', K, k + 1)
          /\ \A x \in Clusters : fat'[x] =
               IF x = L[k] THEN EOC ELSE IF x \in Members(L, k + 1, m) THEN Free ELSE fat[x]
          /\ Members(K, 0, k + 1) = Members(L, 0, k + 1)
          /\ Members(L, 0, m) = Members(L, 0, k + 1) \cup Members(L, k + 1, m)
      <3>1. k \in 0 .. m - 1 /\ Chain(fat, L, m) /\ Total \in Nat
        BY <2>1, <1>1
      <3> HIDE DEF m, K
      <3>2. /\ Chain(CutAfter(fat, L[k]), Shorter(L, k), k + 1)
            /\ \A x \in Clusters : CutAfter(fat, L[k])[x] =
                 IF x = L[k] THEN EOC ELSE IF x \in Members(L, k + 1, m) THEN Free ELSE fat[x]
            /\ Members(Shorter(L, k), 0, k + 1) = Members(L, 0, k + 1)
            /\ Members(L, 0, m) = Members(L, 0, k + 1) \cup Members(L, k + 1, m)
        BY <3>1, CutChain
      <3>3. QED
        BY <3>2, <2>2 DEF K
    <2>4. g.entry.size = k + 1 /\ g.off = k + 1 /\ g.entry.first = FirstOf(L, m)
          /\ g.first = FirstOf(L, m) /\ g.cur = L[k]
      BY <2>1, <1>1, <1>4, <1>7
    <2>5. \A i \in 0 .. k : K[i] = L[i]
      BY DEF Shorter
    <2> HIDE DEF K, o
    <2>6. FirstOf(K, k + 1) = FirstOf(L, m) /\ LastOf(K, k + 1) = L[k]
      <3>1. k + 1 # 0 /\ 0 \in 0 .. k /\ k \in 0 .. k /\ (k + 1) - 1 = k
        BY <2>1, <1>1
      <3>2. QED
        BY <3>1, <2>1, <2>5 DEF FirstOf, LastOf
    <2>7. ChainIs(fat', data', g.entry, f.id, K)
      <3>1. \A i \in 0 .. (k + 1) - 1 : i \in 0 .. k /\ i \in 0 .. m - 1
        BY <2>1, <1>1
      <3>2. \A i \in 0 .. (k + 1) - 1 : data'[K[i]] = f.id
        BY <3>1, <2>5, <1>1, <1>2
      <3>3. QED
        BY <3>2, <2>3, <2>4, <2>6 DEF ChainIs
    <2>8. AtCursor(g, K)
      <3>1. k + 1 \in 0 .. k + 1
        BY <2>1, <1>1
      <3>2. QED
        BY <3>1, <2>4, <2>6 DEF AtCursor
    <2>9. L[k] \in Members(L, 0, k + 1) /\ L[k] \in Members(L, 0, m)
      <3>1. k \in 0 .. (k + 1) - 1 /\ k \in 0 .. m - 1
        BY <2>1, <1>1
      <3> HIDE DEF m
      <3>2. QED
        BY <3>1 DEF Members
    <2>10. \A x \in Clusters : x \notin Members(L, 0, m) => fat'[x] = fat[x]
      BY <2>3, <2>9
    <2>11. \A x \in Members(L, 0, m) : fat'[x] # Free => x \in Members(K, 0, k + 1)
      <3>1. \A x \in Members(L, 0, m) : x \in Clusters
        BY <1>1 DEF Members, Chain, Listed
      <3> HIDE DEF m
      <3>2. QED
        BY <3>1, <2>3, <2>9
    <2>12. OwnStep(h, L, K, {})
      BY <1>2, <1>5, <2>4, <2>7, <2>8, <2>10, <2>11 DEF OwnStep, f, g
    <2>13. QED
      BY <2>12
  <1>8. QED
    BY <1>6, <1>7

-----------------------------------------------------------------------------
(* The volume of a careful program.                                        *)

Filled(x) == {s \in 1 .. Slots : x[s] # NoEntry}
OpenIn(y) == {h \in Handles : y[h] # Closed}
EntryIn(x, y, s) ==
  IF \E h \in OpenIn(y) : y[h].id = x[s].id
  THEN y[CHOOSE h \in OpenIn(y) : y[h].id = x[s].id].entry
  ELSE x[s]

\* No file is open twice.
OneFileEach(y) == \A h, k \in OpenIn(y) : y[h].id = y[k].id => h = k

\* The file of slot s has a chain, and its cursor, if it is open, is on it.
SlotIs(t, d, x, y, s) ==
  \E L : /\ ChainIs(t, d, EntryIn(x, y, s), x[s].id, L)
         /\ \A h \in OpenIn(y) : y[h].id = x[s].id => AtCursor(y[h], L)

\* Every file has its chain and every allocated cluster its file.
VolumeIs(t, d, x, y) ==
  /\ \A s \in Filled(x) : SlotIs(t, d, x, y, s)
  /\ \A c \in Clusters : t[c] # Free => \E s \in Filled(x) : c \in Held(t, EntryIn(x, y, s))

LEMMA ViewIs ==
  /\ Filled(slots) = Used /\ OpenIn(handle) = Open
  /\ \A s : View(s) = EntryIn(slots, handle, s)
  /\ \A e : ChainOf(e) = Held(fat, e)
  BY DEF Filled, Used, OpenIn, Open, View, EntryIn, ChainOf, Held

LEMMA EntryInIs ==
  ASSUME NEW x, NEW y, NEW s, OneFileEach(y)
  PROVE  /\ \A h \in OpenIn(y) : y[h].id = x[s].id => EntryIn(x, y, s) = y[h].entry
         /\ (\A h \in OpenIn(y) : y[h].id # x[s].id) => EntryIn(x, y, s) = x[s]
  <1>1. ASSUME NEW h \in OpenIn(y), y[h].id = x[s].id PROVE EntryIn(x, y, s) = y[h].entry
    <2> DEFINE k == CHOOSE k \in OpenIn(y) : y[k].id = x[s].id
    <2>1. k \in OpenIn(y) /\ y[k].id = x[s].id
      BY <1>1
    <2>2. EntryIn(x, y, s) = y[k].entry
      BY <1>1 DEF EntryIn
    <2> HIDE DEF k
    <2>3. k = h
      BY <2>1, <1>1 DEF OneFileEach
    <2>4. QED
      BY <2>2, <2>3
  <1>2. (\A h \in OpenIn(y) : y[h].id # x[s].id) => EntryIn(x, y, s) = x[s]
    BY DEF EntryIn
  <1>3. QED
    BY <1>1, <1>2

\* The entry of a slot is what it was when its file is open as it was.
LEMMA SameEntryIn ==
  ASSUME NEW x, NEW y, NEW s, OneFileEach(y), NEW z, NEW w, OneFileEach(w), z[s] = x[s],
         \A h \in Handles : y[h].id = x[s].id \/ w[h].id = x[s].id => w[h] = y[h]
  PROVE  EntryIn(z, w, s) = EntryIn(x, y, s)
  <1>1. CASE \E h \in OpenIn(y) : y[h].id = x[s].id
    <2>1. PICK h \in OpenIn(y) : y[h].id = x[s].id
      BY <1>1
    <2>2. h \in Handles /\ w[h] = y[h] /\ h \in OpenIn(w)
      BY <2>1 DEF OpenIn
    <2>3. EntryIn(x, y, s) = y[h].entry
      BY <2>1, EntryInIs
    <2>4. EntryIn(z, w, s) = w[h].entry
      BY <2>1, <2>2, EntryInIs
    <2>5. QED
      BY <2>2, <2>3, <2>4
  <1>2. CASE ~(\E h \in OpenIn(y) : y[h].id = x[s].id)
    <2>1. EntryIn(x, y, s) = x[s]
      BY <1>2, EntryInIs
    <2>2. \A h \in OpenIn(w) : w[h].id # z[s].id
      BY <1>2 DEF OpenIn
    <2>3. EntryIn(z, w, s) = z[s]
      BY <2>2, EntryInIs
    <2>4. QED
      BY <2>1, <2>3
  <1>3. QED
    BY <1>1, <1>2

LEMMA DisjointFiles ==
  ASSUME Total \in Nat, NEW t, NEW d, NEW x, NEW y, VolumeIs(t, d, x, y),
         NEW s \in Filled(x), NEW u \in Filled(x), x[s].id # x[u].id
  PROVE  Held(t, EntryIn(x, y, s)) \cap Held(t, EntryIn(x, y, u)) = {}
  <1>1. ASSUME NEW r \in Filled(x), NEW c \in Held(t, EntryIn(x, y, r)) PROVE d[c] = x[r].id
    <2>1. PICK L : ChainIs(t, d, EntryIn(x, y, r), x[r].id, L)
      BY DEF VolumeIs, SlotIs
    <2>2. QED
      BY <2>1, HeldIs
  <1>2. QED
    BY <1>1

\* A step that leaves the slots R as they are and writes the slots B, and that
\* changes no cluster but those of M, none of which is in a file of R.
Leaves(t, d, x, y, u, b, z, w, R, B, M) ==
  /\ R \in SUBSET Filled(x) /\ Filled(z) = R \cup B
  /\ \A s \in R : /\ z[s].id = x[s].id /\ EntryIn(z, w, s) = EntryIn(x, y, s)
                  /\ \A h \in OpenIn(w) : w[h].id = x[s].id => h \in OpenIn(y) /\ w[h] = y[h]
                  /\ Held(t, EntryIn(x, y, s)) \cap M = {}
  /\ \A c \in Clusters : c \notin M => u[c] = t[c] /\ b[c] = d[c]
  /\ \A c \in Clusters : c \notin M /\ t[c] # Free => \E s \in R : c \in Held(t, EntryIn(x, y, s))
  /\ \A c \in Clusters : c \in M /\ u[c] # Free => \E s \in B : c \in Held(u, EntryIn(z, w, s))
  /\ \A s \in B : SlotIs(u, b, z, w, s)

LEMMA VolumeStep ==
  ASSUME Total \in Nat, NEW t, NEW d, NEW x, NEW y, VolumeIs(t, d, x, y),
         NEW u, NEW b, NEW z, NEW w, NEW R, NEW B, NEW M, Leaves(t, d, x, y, u, b, z, w, R, B, M)
  PROVE  VolumeIs(u, b, z, w)
  <1>0. /\ R \in SUBSET Filled(x) /\ Filled(z) = R \cup B
        /\ \A s \in R : /\ z[s].id = x[s].id /\ EntryIn(z, w, s) = EntryIn(x, y, s)
                        /\ \A h \in OpenIn(w) : w[h].id = x[s].id
                                                => h \in OpenIn(y) /\ w[h] = y[h]
                        /\ Held(t, EntryIn(x, y, s)) \cap M = {}
        /\ \A c \in Clusters : c \notin M => u[c] = t[c] /\ b[c] = d[c]
        /\ \A c \in Clusters : c \notin M /\ t[c] # Free
                               => \E s \in R : c \in Held(t, EntryIn(x, y, s))
        /\ \A c \in Clusters : c \in M /\ u[c] # Free
                               => \E s \in B : c \in Held(u, EntryIn(z, w, s))
        /\ \A s \in B : SlotIs(u, b, z, w, s)
    BY DEF Leaves
  <1>1. ASSUME NEW s \in R
        PROVE  /\ SlotIs(u, b, z, w, s)
               /\ Held(u, EntryIn(z, w, s)) = Held(t, EntryIn(x, y, s))
    <2>1. PICK L : /\ ChainIs(t, d, EntryIn(x, y, s), x[s].id, L)
                   /\ \A h \in OpenIn(y) : y[h].id = x[s].id => AtCursor(y[h], L)
      BY <1>0 DEF VolumeIs, SlotIs
    <2> DEFINE e == EntryIn(x, y, s)
               n == x[s].id
    <2>2. EntryIn(z, w, s) = e /\ z[s].id = n
      BY <1>0
    <2>3. ChainIs(t, d, e, n, L)
      BY <2>1
    <2>4. Held(t, e) \cap M = {}
      BY <1>0
    <2>5. \A h \in OpenIn(w) : w[h].id = n => AtCursor(w[h], L)
      BY <2>1, <1>0
    <2> HIDE DEF e, n
    <2>6. Held(t, e) = Members(L, 0, e.size)
      BY <2>3, HeldIs
    <2>7. ASSUME NEW i \in 0 .. e.size - 1 PROVE u[L[i]] = t[L[i]] /\ b[L[i]] = d[L[i]]
      <3>1. L[i] \in Clusters
        BY <2>3 DEF ChainIs, Chain, Listed
      <3>2. L[i] \in Members(L, 0, e.size)
        BY DEF Members
      <3>3. QED
        BY <3>1, <3>2, <2>4, <2>6, <1>0
    <2>8. Chain(u, L, e.size)
      BY <2>3, <2>7, SameChain DEF ChainIs
    <2>9. ChainIs(u, b, e, n, L)
      BY <2>3, <2>7, <2>8 DEF ChainIs
    <2>10. Held(u, e) = Members(L, 0, e.size)
      BY <2>9, HeldIs
    <2>11. SlotIs(u, b, z, w, s)
      BY <2>2, <2>5, <2>9 DEF SlotIs
    <2>12. QED
      BY <2>2, <2>6, <2>10, <2>11 DEF e
  <1>2. ASSUME NEW c \in Clusters, u[c] # Free
        PROVE  \E s \in Filled(z) : c \in Held(u, EntryIn(z, w, s))
    <2>1. CASE c \in M
      BY <2>1, <1>2, <1>0
    <2>2. CASE c \notin M
      <3>1. PICK s \in R : c \in Held(t, EntryIn(x, y, s))
        BY <2>2, <1>2, <1>0
      <3>2. c \in Held(u, EntryIn(z, w, s))
        BY <3>1, <1>1
      <3>3. QED
        BY <3>2, <1>0
    <2>3. QED
      BY <2>1, <2>2
  <1>3. \A s \in Filled(z) : SlotIs(u, b, z, w, s)
    BY <1>0, <1>1
  <1>4. QED
    BY <1>2, <1>3 DEF VolumeIs

\* The states of a careful program: besides the entries (EntriesInv) and the
\* generations (CurrentInv) they are in order.
CarefulState ==
  /\ OneEntryEach /\ EntryFound /\ EntryNamed
  /\ \A h \in Open : handle[h].gen = gen
  /\ \A h \in Handles : ~handle[h].stale
  /\ OneFileEach(handle)
  /\ VolumeIs(fat, data, slots, handle)
  /\ \A h \in Open : ~handle[h].dirty => slots[handle[h].pos] = handle[h].entry

\* An open file is ready; its slot is used, and its is the only one of that number.
LEMMA OpenIsReady ==
  ASSUME DirHandlesAssumption, DirInv, CarefulState, NEW h \in Open
  PROVE  LET f == handle[h] IN
         /\ f.pos \in Used /\ slots[f.pos].id = f.id
         /\ \A s \in Used : slots[s].id = f.id => s = f.pos
         /\ EntryIn(slots, handle, f.pos) = f.entry
         /\ \E L : FileReady(h, L)
         /\ Total \in Nat
  <1> DEFINE f == handle[h]
             s == f.pos
  <1>1. s \in 1 .. Slots /\ f.id \in 1 .. ids
    BY DEF DirInv, HandleInv
  <1>2. slots[s].id = f.id
    BY DEF CarefulState, EntryFound
  <1>3. s \in Used
    <2>1. slots[s].id # 0
      BY <1>1, <1>2
    <2>2. QED
      BY <1>1, <2>1, UsedIs DEF DirInv
  <1>4. \A r \in Used : slots[r].id = f.id => r = s
    BY <1>2, <1>3 DEF CarefulState, OneEntryEach
  <1>5. EntryIn(slots, handle, s) = f.entry
    BY <1>2, EntryInIs, ViewIs DEF CarefulState
  <1>6. PICK L : /\ ChainIs(fat, data, f.entry, f.id, L)
                 /\ AtCursor(f, L)
    <2>1. SlotIs(fat, data, slots, handle, s)
      BY <1>3, ViewIs DEF CarefulState, VolumeIs
    <2>2. QED
      BY <2>1, <1>2, <1>5, ViewIs DEF SlotIs
  <1>7. FileReady(h, L)
    BY <1>6 DEF FileReady, CarefulState
  <1>8. QED
    BY <1>2, <1>3, <1>4, <1>5, <1>7, DirConstants

\* A step of an open file that stays open, on its own chain.
LEMMA OwnFileStep ==
  ASSUME DirHandlesAssumption, DirInv, EntriesStay, CarefulState, OneFileEach(handle'),
         NEW h, NEW g, FileStep(h, g), g # Closed, NEW L, FileReady(h, L),
         NEW K, NEW N, OwnStep(h, L, K, N)
  PROVE  VolumeIs(fat', data', slots', handle')
  <1> DEFINE f == handle[h]
             p == f.pos
             R == Used \ {p}
             M == Members(L, 0, f.entry.size) \cup N
  <1>1. /\ h \in Open /\ p \in Used /\ slots[p].id = f.id
        /\ \A s \in Used : slots[s].id = f.id => s = p
        /\ EntryIn(slots, handle, p) = f.entry /\ Total \in Nat
    BY OpenIsReady DEF FileReady
  <1>2. /\ h \in Handles /\ handle'[h] = g /\ SameFile(f, g)
        /\ \A k \in Handles : k # h => handle'[k] = handle[k]
    BY FileStepIs
  <1>3. g.id = f.id /\ h \in OpenIn(handle')
    BY <1>2 DEF SameFile, OpenIn
  <1>4. /\ \A s \in 1 .. Slots : slots'[s].id = slots[s].id
        /\ Filled(slots') = Used /\ Used = Filled(slots)
    <2>1. Used' = Used /\ \A s \in 1 .. Slots : slots'[s].id = slots[s].id
      BY FileStepEntries DEF CarefulState
    <2>2. QED
      BY <2>1 DEF Used, Filled
  <1>5. /\ ChainIs(fat', data', g.entry, f.id, K) /\ AtCursor(g, K)
        /\ N \subseteq FreeIn(fat)
        /\ \A c \in Clusters : c \notin M => fat'[c] = fat[c] /\ data'[c] = data[c]
        /\ \A c \in M : fat'[c] # Free => c \in Members(K, 0, g.entry.size)
    BY <1>2 DEF OwnStep
  <1>6. Held(fat, f.entry) = Members(L, 0, f.entry.size)
    BY <1>1, HeldIs DEF FileReady
  <1>7. OneFileEach(handle) /\ VolumeIs(fat, data, slots, handle)
    BY DEF CarefulState
  <1>8. ASSUME NEW s \in R
        PROVE  /\ slots'[s].id = slots[s].id
               /\ EntryIn(slots', handle', s) = EntryIn(slots, handle, s)
               /\ \A k \in OpenIn(handle') : handle'[k].id = slots[s].id
                                             => k \in OpenIn(handle) /\ handle'[k] = handle[k]
               /\ Held(fat, EntryIn(slots, handle, s)) \cap M = {}
    <2>1. s \in Used /\ s # p /\ s \in 1 .. Slots /\ slots[s].id # f.id
      BY <1>1 DEF Used
    <2>2. slots'[s] = slots[s]
      BY <2>1, FileStepSlots
    <2>3. \A k \in Handles : handle[k].id = slots[s].id \/ handle'[k].id = slots[s].id
                             => handle'[k] = handle[k]
      BY <1>2, <1>3, <2>1
    <2>4. EntryIn(slots', handle', s) = EntryIn(slots, handle, s)
      BY <1>7, <2>2, <2>3, SameEntryIn
    <2>5. \A k \in OpenIn(handle') : handle'[k].id = slots[s].id
                                     => k \in OpenIn(handle) /\ handle'[k] = handle[k]
      BY <2>3 DEF OpenIn
    <2>6. Held(fat, EntryIn(slots, handle, s)) \cap Members(L, 0, f.entry.size) = {}
      <3>1. Held(fat, EntryIn(slots, handle, s)) \cap Held(fat, EntryIn(slots, handle, p)) = {}
        BY <1>1, <1>4, <1>7, <2>1, DisjointFiles
      <3>2. QED
        BY <3>1, <1>1, <1>6
    <2>7. Held(fat, EntryIn(slots, handle, s)) \cap N = {}
      <3>1. PICK J : ChainIs(fat, data, EntryIn(slots, handle, s), slots[s].id, J)
        BY <1>4, <1>7, <2>1 DEF VolumeIs, SlotIs
      <3>2. \A c \in Held(fat, EntryIn(slots, handle, s)) : fat[c] # Free
        BY <3>1, <1>1, HeldIs
      <3>3. QED
        BY <3>2, <1>5 DEF FreeIn
    <2> HIDE DEF f, p
    <2>8. QED
      BY <2>2, <2>4, <2>5, <2>6, <2>7
  <1>9. EntryIn(slots', handle', p) = g.entry
    <2>1. handle'[h].id = slots'[p].id /\ h \in OpenIn(handle')
      BY <1>1, <1>2, <1>3, <1>4 DEF Used
    <2>2. EntryIn(slots', handle', p) = handle'[h].entry
      BY <2>1, EntryInIs
    <2>3. QED
      BY <2>2, <1>2
  <1>10. SlotIs(fat', data', slots', handle', p)
    <2>1. slots'[p].id = f.id
      BY <1>1, <1>4 DEF Used
    <2>2. \A k \in OpenIn(handle') : handle'[k].id = slots'[p].id => handle'[k] = g
      BY <2>1, <1>2, <1>3 DEF OneFileEach
    <2> HIDE DEF p, f
    <2>3. QED
      BY <2>1, <2>2, <1>5, <1>9 DEF SlotIs
  <1>11. Held(fat', g.entry) = Members(K, 0, g.entry.size)
    BY <1>1, <1>5, HeldIs
  <1>12. ASSUME NEW c \in Clusters, c \notin M, fat[c] # Free
         PROVE  \E s \in R : c \in Held(fat, EntryIn(slots, handle, s))
    <2>1. PICK s \in Used : c \in Held(fat, EntryIn(slots, handle, s))
      BY <1>12, <1>4, <1>7 DEF VolumeIs
    <2>2. s # p
      BY <2>1, <1>12, <1>1, <1>6
    <2>3. QED
      BY <2>1, <2>2
  <1>13. \A c \in Clusters : c \in M /\ fat'[c] # Free
                             => \E s \in {p} : c \in Held(fat', EntryIn(slots', handle', s))
    BY <1>5, <1>9, <1>11
  <1>14. R \in SUBSET Filled(slots) /\ Filled(slots') = R \cup {p}
    BY <1>1, <1>4
  <1>15. \A c \in Clusters : c \notin M => fat'[c] = fat[c] /\ data'[c] = data[c]
    BY <1>5
  <1>16. \A s \in {p} : SlotIs(fat', data', slots', handle', s)
    BY <1>10
  <1> HIDE DEF f, p, R, M
  <1>17. QED
    <2>1. VolumeIs(fat, data, slots, handle) /\ Total \in Nat
      BY <1>1, <1>7
    <2>2. Leaves(fat, data, slots, handle, fat', data', slots', handle', R, {p}, M)
      BY <1>8, <1>12, <1>13, <1>14, <1>15, <1>16 DEF Leaves
    <2>3. QED
      BY <2>1, <2>2, VolumeStep

LEMMA OneFileStep ==
  ASSUME DirHandlesAssumption, DirInv, OneFileEach(handle), [Next]_vars
  PROVE  OneFileEach(handle')
  <1>1. TypeOK /\ ids \in Nat
    BY UsedIs DEF DirInv
  <1>2. CASE handle' = handle
    BY <1>2
  <1>3. ASSUME NEW h, NEW g, FileStep(h, g) PROVE OneFileEach(handle')
    <2>1. /\ h \in Open /\ handle'[h] = g /\ (g # Closed => g.id = handle[h].id)
          /\ \A k \in Handles : k # h => handle'[k] = handle[k]
      BY <1>3, FileStepIs DEF FileStep, SameFile
    <2>2. \A k \in OpenIn(handle') : k \in OpenIn(handle) /\ handle'[k].id = handle[k].id
      BY <2>1, ViewIs DEF OpenIn
    <2>3. QED
      BY <2>2 DEF OneFileEach
  <1>4. ASSUME NEW h \in Handles, NEW s \in 1 .. Slots, NEW e \in EntryType,
               handle' = [handle EXCEPT ![h] = ToFile(s, e)],
               \A k \in Open : handle[k].id # e.id
        PROVE  OneFileEach(handle')
    <2> DEFINE f == ToFile(s, e)
    <2>1. f.id = e.id
      BY <1>1, ToFileIs DEF TypeOK
    <2>2. handle' = [handle EXCEPT ![h] = f]
      BY <1>4
    <2> HIDE DEF f
    <2>3. \A k \in Handles : handle'[k] = IF k = h THEN f ELSE handle[k]
      BY <2>2, <1>1 DEF TypeOK
    <2>4. \A k \in OpenIn(handle') : k \in Handles /\ (k # h => k \in Open)
      BY <2>3 DEF OpenIn, Open
    <2>5. ASSUME NEW j \in OpenIn(handle'), NEW k \in OpenIn(handle'), handle'[j].id = handle'[k].id
          PROVE  j = k
      <3>1. CASE j = h \/ k = h
        BY <3>1, <2>1, <2>3, <2>4, <2>5, <1>4
      <3>2. CASE j # h /\ k # h
        BY <3>2, <2>3, <2>4, <2>5, ViewIs DEF OneFileEach
      <3>3. QED
        BY <3>1, <3>2
    <2>6. QED
      BY <2>5 DEF OneFileEach
  <1>5. ASSUME NEW h \in Handles, NEW n \in Names, Create(h, n) PROVE OneFileEach(handle')
    <2>1. NewEntry(n) \in EntryType /\ NewEntry(n).id = ids + 1
      BY <1>1, <1>5, CreateIs, NewEntryIs
    <2>2. \A k \in Open : handle[k].id # ids + 1
      BY <1>1 DEF DirInv, HandleInv
    <2>3. PICK s \in 1 .. Slots : handle' = [handle EXCEPT ![h] = ToFile(s, NewEntry(n))]
      BY <1>5, CreateIs
    <2>4. QED
      BY <2>1, <2>2, <2>3, <1>4
  <1>6. ASSUME NEW h \in Handles, NEW n \in Names, OpenFile(h, n) PROVE OneFileEach(handle')
    <2>1. PICK s \in Used : ~IsOpen(slots[s].id) /\ handle' = [handle EXCEPT ![h] = ToFile(s, slots[s])]
      BY <1>6, OpenFileIs
    <2>2. s \in 1 .. Slots /\ slots[s] \in EntryType
      BY <1>1, UsedIs
    <2>3. \A k \in Open : handle[k].id # slots[s].id
      BY <2>1 DEF IsOpen
    <2>4. QED
      BY <2>1, <2>2, <2>3, <1>4
  <1>7. ASSUME NEW n \in Names, Remove(n) PROVE handle' = handle
    BY <1>7, RemoveIs
  <1>8. ASSUME NEW n \in Names, NEW m \in Names, Rename(n, m) PROVE handle' = handle
    BY <1>1, <1>8, RenameIs
  <1>9. UNCHANGED vars => handle' = handle
    BY DEF vars
  <1>10. QED
    BY <1>1, <1>2, <1>3, <1>5, <1>6, <1>7, <1>8, <1>9, StepCases

\* An open file that is clean has its entry on the volume.
TidyIs == \A h \in Open : ~handle[h].dirty => slots[handle[h].pos] = handle[h].entry

LEMMA TidyStep ==
  ASSUME DirHandlesAssumption, DirInv, CarefulState, NEW h, NEW g, FileStep(h, g),
         g # Closed => (~g.dirty => slots'[handle[h].pos] = g.entry)
  PROVE  TidyIs'
  <1> DEFINE f == handle[h]
  <1>1. /\ h \in Open /\ f.pos \in 1 .. Slots /\ handle'[h] = g
        /\ g # Closed => g.pos = f.pos
        /\ g = Closed => h \notin Open'
        /\ \A k \in Handles : k # h => handle'[k] = handle[k] /\ (k \in Open' <=> k \in Open)
    <2>1. h \in Open
      BY DEF FileStep
    <2>2. g # Closed => SameFile(f, g)
      BY FileStepIs
    <2>3. g # Closed => g.pos = f.pos
      BY <2>2 DEF SameFile
    <2> HIDE DEF f
    <2>4. QED
      BY <2>1, <2>3, FileStepIs DEF f
  <1>2. ASSUME NEW k \in Open', ~handle'[k].dirty PROVE slots'[handle'[k].pos] = handle'[k].entry
    <2>1. k \in Handles
      BY DEF Open
    <2>2. CASE k = h
      BY <2>2, <1>1, <1>2
    <2>3. CASE k # h
      <3>1. k \in Open /\ handle'[k] = handle[k]
        BY <2>1, <2>3, <1>1
      <3>2. slots[handle[k].pos].id = handle[k].id /\ slots[f.pos].id = f.id /\ handle[k].id # f.id
        <4>1. handle[k].id # f.id
          BY <3>1, <2>3, <1>1, ViewIs DEF CarefulState, OneFileEach
        <4>2. QED
          BY <4>1, <3>1, <1>1, OpenIsReady
      <3>3. handle[k].pos # f.pos /\ handle[k].pos \in 1 .. Slots
        BY <3>1, <3>2 DEF DirInv, HandleInv
      <3>4. slots'[handle[k].pos] = slots[handle[k].pos]
        BY <3>3, FileStepSlots
      <3>5. QED
        BY <3>1, <3>4, <1>2 DEF CarefulState
    <2>4. QED
      BY <2>2, <2>3
  <1>3. QED
    BY <1>2 DEF TidyIs

LEMMA CloseVolume ==
  ASSUME DirHandlesAssumption, DirInv, CarefulState, OneFileEach(handle'), NEW h, Close(h)
  PROVE  VolumeIs(fat', data', slots', handle') /\ TidyIs'
  <1> DEFINE f == handle[h]
  <1>1. /\ h \in Open /\ ~f.dirty /\ UNCHANGED <<fat, data, slots>>
        /\ handle' = [handle EXCEPT ![h] = Closed]
    BY DEF Close, CarefulState, Open
  <1>2. FileStep(h, Closed)
    BY CloseFileStep DEF DirInv
  <1>3. TidyIs'
    BY <1>2, TidyStep
  <1>4. /\ f.pos \in Used /\ slots[f.pos].id = f.id /\ Total \in Nat
        /\ \A s \in Used : slots[s].id = f.id => s = f.pos
        /\ EntryIn(slots, handle, f.pos) = f.entry /\ slots[f.pos] = f.entry
    BY <1>1, OpenIsReady DEF CarefulState
  <1>5. \A k \in Handles : handle'[k] = IF k = h THEN Closed ELSE handle[k]
    BY <1>1 DEF DirInv, TypeOK
  <1>6. OneFileEach(handle) /\ VolumeIs(fat, data, slots, handle) /\ Filled(slots) = Used
    BY ViewIs DEF CarefulState
  <1>7. \A k \in OpenIn(handle') : k \in OpenIn(handle) /\ handle'[k] = handle[k]
    BY <1>5 DEF OpenIn
  <1>8. ASSUME NEW s \in Used PROVE EntryIn(slots, handle', s) = EntryIn(slots, handle, s)
    <2>1. CASE s = f.pos
      <3>1. \A k \in OpenIn(handle') : handle'[k].id # slots[s].id
        <4>1. ASSUME NEW k \in OpenIn(handle'), handle'[k].id = slots[s].id PROVE FALSE
          <5>1. k # h /\ k \in OpenIn(handle) /\ handle[k].id = f.id
            BY <4>1, <2>1, <1>4, <1>5, <1>7 DEF OpenIn
          <5>2. h \in OpenIn(handle) /\ handle[h].id = f.id
            BY <1>1, ViewIs
          <5>3. QED
            BY <5>1, <5>2, <1>6 DEF OneFileEach
        <4>2. QED
          BY <4>1
      <3>2. EntryIn(slots, handle', s) = slots[s]
        BY <3>1, EntryInIs
      <3>3. QED
        BY <3>2, <2>1, <1>4
    <2>2. CASE s # f.pos
      <3>1. slots[s].id # f.id /\ slots[s].id # 0
        BY <2>2, <1>4 DEF DirInv, NumbersInv
      <3>2. \A k \in Handles : handle[k].id = slots[s].id \/ handle'[k].id = slots[s].id
                               => handle'[k] = handle[k]
        BY <3>1, <1>5, ClosedIs
      <3>3. QED
        BY <3>2, <1>6, SameEntryIn
    <2>3. QED
      BY <2>1, <2>2
  <1>9. Leaves(fat, data, slots, handle, fat, data, slots, handle', Used, {}, {})
    <2>1. \A c \in Clusters : fat[c] # Free => \E s \in Used : c \in Held(fat, EntryIn(slots, handle, s))
      BY <1>6 DEF VolumeIs
    <2> HIDE DEF f
    <2>2. QED
      BY <2>1, <1>6, <1>7, <1>8 DEF Leaves
  <1>10. VolumeIs(fat, data, slots, handle')
    BY <1>4, <1>6, <1>9, VolumeStep
  <1>11. QED
    BY <1>1, <1>3, <1>10

\* The steps of an open file.
LEMMA FileVolume ==
  ASSUME DirHandlesAssumption, DirInv, EntriesStay, CarefulState, OneFileEach(handle'),
         NEW h, FileWrite(h) \/ Truncate(h) \/ Flush(h) \/ (\E n \in 0 .. MaxLen : Seek(h, n))
  PROVE  VolumeIs(fat', data', slots', handle') /\ TidyIs'
  <1>1. h \in Open
    BY DEF FileWrite, Truncate, Flush, Seek
  <1>2. PICK L : FileReady(h, L)
    BY <1>1, OpenIsReady
  <1>3. PICK K, N : OwnStep(h, L, K, N)
    BY <1>2, WriteOwn, TruncateOwn, FlushOwn, SeekOwn
  <1>4. PICK g : FileStep(h, g) /\ SameFile(handle[h], g)
    BY FileWriteStep, TruncateFileStep, FlushFileStep, SeekFileStep DEF DirInv
  <1>5. handle'[h] = g
    BY <1>4, FileStepIs
  <1>6. ~g.dirty => slots'[handle[h].pos] = g.entry
    BY <1>3, <1>5 DEF OwnStep
  <1>7. TidyIs'
    BY <1>4, <1>6, TidyStep
  <1>8. g # Closed
    <2>1. g.id = handle[h].id /\ handle[h].id # 0
      BY <1>1, <1>4 DEF SameFile, DirInv, HandleInv
    <2>2. QED
      BY <2>1, ClosedIs
  <1>9. QED
    BY <1>2, <1>3, <1>4, <1>7, <1>8, OwnFileStep

\* A file that is opened, or created, in slot s: the slot and the others.
Opening(h, s, e) ==
  /\ h \in Handles /\ h \notin Open /\ s \in 1 .. Slots /\ e \in EntryType /\ e.id # 0 /\ slots'[s] = e
  /\ handle' = [handle EXCEPT ![h] = ToFile(s, e)]
  /\ \E L : ChainIs(fat, data, e, e.id, L)

LEMMA OpenedSlot ==
  ASSUME DirHandlesAssumption, TypeOK, OneFileEach(handle), OneFileEach(handle'),
         NEW h, NEW s, NEW e, Opening(h, s, e)
  PROVE  /\ SlotIs(fat, data, slots', handle', s) /\ EntryIn(slots', handle', s) = e
         /\ \A r : slots'[r] = slots[r] /\ slots[r].id # e.id /\ slots[r].id # 0
                   => /\ EntryIn(slots', handle', r) = EntryIn(slots, handle, r)
                      /\ \A k \in OpenIn(handle') : handle'[k].id = slots[r].id
                                                    => k \in OpenIn(handle) /\ handle'[k] = handle[k]
  <1> DEFINE f == ToFile(s, e)
  <1>0. h \in Handles /\ h \notin Open /\ s \in 1 .. Slots /\ e \in EntryType /\ e.id # 0
        /\ slots'[s] = e
    BY DEF Opening
  <1>1. f.id = e.id /\ f.entry = e /\ f.first = e.first /\ f.cur = None /\ f.off = 0
    BY <1>0, ToFileIs DEF TypeOK
  <1>2. handle' = [handle EXCEPT ![h] = f]
    BY DEF Opening
  <1> HIDE DEF f
  <1>3. \A k \in Handles : handle'[k] = IF k = h THEN f ELSE handle[k]
    BY <1>2 DEF TypeOK
  <1>4. f # Closed /\ handle[h] = Closed
    BY <1>0, <1>1, ClosedIs DEF Open
  <1>5. h \in OpenIn(handle') /\ handle'[h] = f
    BY <1>0, <1>3, <1>4 DEF OpenIn
  <1>6. EntryIn(slots', handle', s) = e
    <2>1. handle'[h].id = slots'[s].id
      BY <1>0, <1>1, <1>5
    <2>2. EntryIn(slots', handle', s) = handle'[h].entry
      BY <2>1, <1>5, EntryInIs
    <2>3. QED
      BY <2>2, <1>1, <1>5
  <1>7. PICK L : ChainIs(fat, data, e, e.id, L)
    BY DEF Opening
  <1>8. AtCursor(f, L)
    <2>1. e.size \in Nat
      BY <1>7 DEF ChainIs, Chain, Listed
    <2>2. QED
      BY <2>1, <1>1 DEF AtCursor, LastOf
  <1>9. SlotIs(fat, data, slots', handle', s)
    <2>1. \A k \in OpenIn(handle') : handle'[k].id = slots'[s].id => handle'[k] = f
      BY <1>0, <1>1, <1>5 DEF OneFileEach
    <2>2. QED
      BY <2>1, <1>0, <1>6, <1>7, <1>8 DEF SlotIs
  <1>10. ASSUME NEW r, slots'[r] = slots[r], slots[r].id # e.id, slots[r].id # 0
        PROVE  /\ EntryIn(slots', handle', r) = EntryIn(slots, handle, r)
               /\ \A k \in OpenIn(handle') : handle'[k].id = slots[r].id
                                             => k \in OpenIn(handle) /\ handle'[k] = handle[k]
    <2>1. \A k \in Handles : handle[k].id = slots[r].id \/ handle'[k].id = slots[r].id
                             => handle'[k] = handle[k]
      BY <1>1, <1>3, <1>4, <1>10, ClosedIs
    <2>2. EntryIn(slots', handle', r) = EntryIn(slots, handle, r)
      BY <1>10, <2>1, SameEntryIn
    <2>3. QED
      BY <2>1, <2>2 DEF OpenIn
  <1>11. QED
    BY <1>6, <1>9, <1>10

LEMMA CreateVolume ==
  ASSUME DirHandlesAssumption, DirInv, CarefulState, OneFileEach(handle'),
         NEW h \in Handles, NEW n \in Names, Create(h, n)
  PROVE  VolumeIs(fat', data', slots', handle') /\ TidyIs'
  <1>1. PICK s \in 1 .. Slots : /\ slots[s] = NoEntry
                                /\ slots' = [slots EXCEPT ![s] = NewEntry(n)]
                                /\ handle' = [handle EXCEPT ![h] = ToFile(s, NewEntry(n))]
    BY CreateIs
  <1>2. h \notin Open /\ ids < MaxIds /\ UNCHANGED <<fat, data, gen>>
    BY CreateIs
  <1> DEFINE e == NewEntry(n)
             K == [i \in 0 .. -1 |-> None]
  <1>3. e \in EntryType /\ e.id = ids + 1 /\ e.first = None /\ e.size = 0 /\ e # NoEntry
    BY <1>2, NewEntryIs DEF DirInv
  <1>4. slots' = [slots EXCEPT ![s] = e] /\ handle' = [handle EXCEPT ![h] = ToFile(s, e)]
    BY <1>1
  <1> HIDE DEF e
  <1>5. TypeOK /\ ids \in Nat /\ Total \in Nat
    BY UsedIs, DirConstants DEF DirInv
  <1>6. ChainIs(fat, data, e, e.id, K)
    BY <1>3, EmptyChain DEF ChainIs, FirstOf
  <1> HIDE DEF K
  <1>7. \A r \in 1 .. Slots : slots'[r] = IF r = s THEN e ELSE slots[r]
    BY <1>4, <1>5 DEF TypeOK
  <1>8. OneFileEach(handle) /\ VolumeIs(fat, data, slots, handle) /\ Filled(slots) = Used
    BY ViewIs DEF CarefulState
  <1>9. e.id # 0
    BY <1>3, <1>5
  <1>10. /\ SlotIs(fat, data, slots', handle', s) /\ EntryIn(slots', handle', s) = e
         /\ \A r : slots'[r] = slots[r] /\ slots[r].id # e.id /\ slots[r].id # 0
                   => /\ EntryIn(slots', handle', r) = EntryIn(slots, handle, r)
                      /\ \A k \in OpenIn(handle') : handle'[k].id = slots[r].id
                                                    => k \in OpenIn(handle) /\ handle'[k] = handle[k]
    <2>1. slots'[s] = e
      BY <1>7
    <2>2. Opening(h, s, e)
      BY <2>1, <1>2, <1>3, <1>4, <1>6, <1>9 DEF Opening
    <2>3. QED
      BY <2>2, <1>5, <1>8, OpenedSlot
  <1>11. \A r \in Used : slots'[r] = slots[r] /\ slots[r].id # e.id /\ slots[r].id # 0
    <2>1. \A r \in Used : r \in 1 .. Slots /\ r # s /\ slots[r].id \in 1 .. ids
      BY <1>1 DEF Used, DirInv, NumbersInv
    <2>2. QED
      BY <2>1, <1>3, <1>5, <1>7
  <1>12. Filled(slots') = Used \cup {s}
    BY <1>3, <1>7 DEF Filled, Used
  <1>13. Leaves(fat, data, slots, handle, fat, data, slots', handle', Used, {s}, {})
    <2>1. \A c \in Clusters : fat[c] # Free => \E r \in Used : c \in Held(fat, EntryIn(slots, handle, r))
      BY <1>8 DEF VolumeIs
    <2>2. QED
      BY <2>1, <1>8, <1>10, <1>11, <1>12 DEF Leaves
  <1>14. VolumeIs(fat, data, slots', handle')
    BY <1>5, <1>8, <1>13, VolumeStep
  <1>15. TidyIs'
    <2>1. ASSUME NEW k \in Open', ~handle'[k].dirty PROVE slots'[handle'[k].pos] = handle'[k].entry
      <3>1. CASE k = h
        <4>1. handle'[k] = ToFile(s, e)
          BY <3>1, <1>4, <1>5 DEF TypeOK
        <4>2. ToFile(s, e).pos = s /\ ToFile(s, e).entry = e
          BY <1>3, <1>5, ToFileIs DEF TypeOK
        <4>3. QED
          BY <4>1, <4>2, <1>7
      <3>2. CASE k # h
        <4>1. k \in Open /\ handle'[k] = handle[k]
          BY <3>2, <1>4, <1>5 DEF Open, TypeOK
        <4>2. handle[k].pos \in Used
          BY <4>1, OpenIsReady
        <4>3. QED
          BY <4>1, <4>2, <2>1, <1>11 DEF CarefulState
      <3>3. QED
        BY <3>1, <3>2
    <2>2. QED
      BY <2>1 DEF TidyIs
  <1>16. QED
    BY <1>2, <1>14, <1>15

\* A file that no handle has open: its slot, and its clusters are no other file's.
LEMMA ClosedFile ==
  ASSUME DirHandlesAssumption, DirInv, CarefulState, NEW s \in Used, ~IsOpen(slots[s].id)
  PROVE  /\ s \in 1 .. Slots /\ slots[s] \in EntryType /\ slots[s].id # 0 /\ Total \in Nat
         /\ EntryIn(slots, handle, s) = slots[s]
         /\ \E L : ChainIs(fat, data, slots[s], slots[s].id, L)
         /\ \A r \in Used \ {s} : /\ slots[r].id # slots[s].id /\ slots[r].id # 0
                                  /\ Held(fat, EntryIn(slots, handle, r)) \cap Held(fat, slots[s]) = {}
         /\ \A c \in Clusters : c \notin Held(fat, slots[s]) /\ fat[c] # Free
                                => \E r \in Used \ {s} : c \in Held(fat, EntryIn(slots, handle, r))
         /\ \A h \in Open : handle[h].pos # s
  <1>1. OneFileEach(handle) /\ VolumeIs(fat, data, slots, handle) /\ Filled(slots) = Used
        /\ OpenIn(handle) = Open
    BY ViewIs DEF CarefulState
  <1>2. s \in 1 .. Slots /\ slots[s] \in EntryType /\ slots[s].id # 0 /\ Total \in Nat
    <2>1. slots[s].id \in 1 .. ids
      BY DEF DirInv, NumbersInv
    <2>2. QED
      BY <2>1, UsedIs, DirConstants DEF DirInv
  <1>3. EntryIn(slots, handle, s) = slots[s]
    BY <1>1, EntryInIs DEF IsOpen
  <1>4. \E L : ChainIs(fat, data, slots[s], slots[s].id, L)
    BY <1>1, <1>3 DEF VolumeIs, SlotIs
  <1>5. ASSUME NEW r \in Used \ {s}
        PROVE  /\ slots[r].id # slots[s].id /\ slots[r].id # 0
               /\ Held(fat, EntryIn(slots, handle, r)) \cap Held(fat, slots[s]) = {}
    <2>1. slots[r].id # slots[s].id
      BY DEF CarefulState, OneEntryEach
    <2>2. slots[r].id \in 1 .. ids
      BY DEF DirInv, NumbersInv
    <2>3. Held(fat, EntryIn(slots, handle, r)) \cap Held(fat, EntryIn(slots, handle, s)) = {}
      BY <2>1, <1>1, <1>2, DisjointFiles
    <2>4. QED
      BY <2>1, <2>2, <2>3, <1>3
  <1>6. ASSUME NEW c \in Clusters, c \notin Held(fat, slots[s]), fat[c] # Free
        PROVE  \E r \in Used \ {s} : c \in Held(fat, EntryIn(slots, handle, r))
    <2>1. PICK r \in Used : c \in Held(fat, EntryIn(slots, handle, r))
      BY <1>6, <1>1 DEF VolumeIs
    <2>2. r # s
      BY <2>1, <1>3, <1>6
    <2>3. QED
      BY <2>1, <2>2
  <1>7. \A h \in Open : handle[h].pos # s
    BY OpenIsReady DEF IsOpen
  <1>8. QED
    BY <1>2, <1>3, <1>4, <1>5, <1>6, <1>7

LEMMA OpenVolume ==
  ASSUME DirHandlesAssumption, DirInv, CarefulState, OneFileEach(handle'),
         NEW h \in Handles, NEW n \in Names, OpenFile(h, n)
  PROVE  VolumeIs(fat', data', slots', handle') /\ TidyIs'
  <1>1. PICK s \in Used : ~IsOpen(slots[s].id) /\ handle' = [handle EXCEPT ![h] = ToFile(s, slots[s])]
    BY OpenFileIs
  <1>2. h \notin Open /\ UNCHANGED <<fat, data, slots, gen>>
    BY OpenFileIs
  <1> DEFINE e == slots[s]
             R == Used \ {s}
             M == Held(fat, e)
  <1>3. /\ s \in 1 .. Slots /\ e \in EntryType /\ e.id # 0 /\ Total \in Nat
        /\ EntryIn(slots, handle, s) = e
        /\ \E L : ChainIs(fat, data, e, e.id, L)
        /\ \A r \in R : /\ slots[r].id # e.id /\ slots[r].id # 0
                        /\ Held(fat, EntryIn(slots, handle, r)) \cap M = {}
        /\ \A c \in Clusters : c \notin M /\ fat[c] # Free
                               => \E r \in R : c \in Held(fat, EntryIn(slots, handle, r))
    BY <1>1, ClosedFile
  <1>4. OneFileEach(handle) /\ VolumeIs(fat, data, slots, handle) /\ Filled(slots) = Used /\ TypeOK
    BY ViewIs DEF CarefulState, DirInv
  <1>6. /\ SlotIs(fat, data, slots', handle', s) /\ EntryIn(slots', handle', s) = e
        /\ \A r : slots'[r] = slots[r] /\ slots[r].id # e.id /\ slots[r].id # 0
                  => /\ EntryIn(slots', handle', r) = EntryIn(slots, handle, r)
                     /\ \A k \in OpenIn(handle') : handle'[k].id = slots[r].id
                                                   => k \in OpenIn(handle) /\ handle'[k] = handle[k]
    <2>1. slots'[s] = e /\ handle' = [handle EXCEPT ![h] = ToFile(s, e)]
      BY <1>1, <1>2
    <2> HIDE DEF e
    <2>2. Opening(h, s, e)
      BY <2>1, <1>2, <1>3 DEF Opening
    <2>3. QED
      BY <2>2, <1>4, OpenedSlot
  <1>7. Leaves(fat, data, slots, handle, fat, data, slots', handle', R, {s}, M)
    <2>1. R \in SUBSET Filled(slots) /\ Filled(slots') = R \cup {s}
      BY <1>2, <1>4
    <2>2. \A r \in R : slots'[r] = slots[r]
      BY <1>2
    <2> HIDE DEF R, M, e
    <2>3. QED
      BY <2>1, <2>2, <1>3, <1>6 DEF Leaves, M
  <1>8. VolumeIs(fat, data, slots', handle')
    BY <1>3, <1>4, <1>7, VolumeStep
  <1>9. TidyIs'
    <2>1. ASSUME NEW k \in Open', ~handle'[k].dirty PROVE slots'[handle'[k].pos] = handle'[k].entry
      <3>1. CASE k = h
        <4>1. handle'[k] = ToFile(s, e)
          BY <3>1, <1>1, <1>4 DEF TypeOK
        <4>2. ToFile(s, e).pos = s /\ ToFile(s, e).entry = e
          BY <1>3, <1>4, ToFileIs DEF TypeOK
        <4>3. QED
          BY <4>1, <4>2, <1>2
      <3>2. CASE k # h
        <4>1. k \in Open /\ handle'[k] = handle[k]
          BY <3>2, <1>1, <1>4 DEF Open, TypeOK
        <4>2. QED
          BY <4>1, <2>1, <1>2 DEF CarefulState
      <3>3. QED
        BY <3>1, <3>2
    <2>2. QED
      BY <2>1 DEF TidyIs
  <1>10. QED
    BY <1>2, <1>8, <1>9

LEMMA RemoveVolume ==
  ASSUME DirHandlesAssumption, DirInv, Careful, CarefulState, NEW n \in Names, Remove(n)
  PROVE  VolumeIs(fat', data', slots', handle') /\ TidyIs'
  <1>1. PICK s \in Used :
          /\ slots' = [slots EXCEPT ![s] = NoEntry]
          /\ \/ /\ slots[s].first = None /\ UNCHANGED <<fat, gen>>
                /\ IsOpen(slots[s].id) => May("remove_empty_open")
             \/ /\ slots[s].first # None /\ fat' = Released(fat, slots[s].first)
                /\ IsOpen(slots[s].id) => May("remove_nonempty_open")
          /\ UNCHANGED <<data, handle>>
    BY RemoveIs
  <1>2. ~IsOpen(slots[s].id)
    BY <1>1 DEF Careful, May
  <1> DEFINE e == slots[s]
             R == Used \ {s}
             M == Held(fat, e)
  <1>3. /\ s \in 1 .. Slots /\ Total \in Nat /\ EntryIn(slots, handle, s) = e
        /\ \A r \in R : Held(fat, EntryIn(slots, handle, r)) \cap M = {}
        /\ \A c \in Clusters : c \notin M /\ fat[c] # Free
                               => \E r \in R : c \in Held(fat, EntryIn(slots, handle, r))
        /\ \A h \in Open : handle[h].pos # s
    BY <1>2, ClosedFile
  <1>4. OneFileEach(handle) /\ VolumeIs(fat, data, slots, handle) /\ Filled(slots) = Used /\ TypeOK
    BY ViewIs DEF CarefulState, DirInv
  <1>5. \A r \in 1 .. Slots : slots'[r] = IF r = s THEN NoEntry ELSE slots[r]
    BY <1>1, <1>4 DEF TypeOK
  <1>6. Filled(slots') = R \cup {} /\ R \in SUBSET Filled(slots)
    BY <1>4, <1>5 DEF Filled, Used
  <1>7. \A c \in Clusters : fat'[c] = IF c \in M THEN Free ELSE fat[c]
    <2>1. CASE e.first = None
      BY <2>1, <1>1 DEF Held
    <2>2. CASE e.first # None
      <3>1. fat' = Released(fat, e.first) /\ M = ChainFrom(fat, e.first)
        BY <2>2, <1>1 DEF Held
      <3> HIDE DEF M, e
      <3>2. QED
        BY <3>1 DEF Released
    <2>3. QED
      BY <2>1, <2>2
  <1>8. ASSUME NEW r \in R
        PROVE  slots'[r] = slots[r] /\ EntryIn(slots', handle', r) = EntryIn(slots, handle, r)
    <2>1. slots'[r] = slots[r]
      BY <1>5 DEF Used
    <2>2. QED
      BY <2>1, <1>1 DEF EntryIn
  <1>9. \A k \in OpenIn(handle') : k \in OpenIn(handle) /\ handle'[k] = handle[k]
    BY <1>1
  <1> HIDE DEF R, M, e
  <1>10. Leaves(fat, data, slots, handle, fat', data', slots', handle', R, {}, M)
    BY <1>1, <1>3, <1>6, <1>7, <1>8, <1>9 DEF Leaves
  <1>11. VolumeIs(fat', data', slots', handle')
    BY <1>3, <1>4, <1>10, VolumeStep
  <1>12. TidyIs'
    <2>1. ASSUME NEW k \in Open, ~handle[k].dirty PROVE slots'[handle[k].pos] = handle[k].entry
      <3>1. handle[k].pos # s /\ handle[k].pos \in 1 .. Slots
        BY <1>3 DEF DirInv, HandleInv
      <3>2. QED
        BY <2>1, <3>1, <1>5 DEF CarefulState
    <2>2. Open' = Open
      BY <1>1 DEF Open
    <2>3. QED
      BY <1>1, <2>1, <2>2 DEF TidyIs
  <1>13. QED
    BY <1>11, <1>12

LEMMA RenameVolume ==
  ASSUME DirHandlesAssumption, DirInv, Careful, CarefulState, NEW n \in Names, NEW m \in Names,
         Rename(n, m)
  PROVE  VolumeIs(fat', data', slots', handle') /\ TidyIs'
  <1>1. PICK s \in Used, p \in 1 .. Slots :
          /\ IsOpen(slots[s].id) => May("rename_open")
          /\ p = s \/ slots[p] = NoEntry
          /\ slots' = [[slots EXCEPT ![s] = NoEntry] EXCEPT ![p] = RenamedEntry(slots[s], m)]
    BY RenameIs DEF DirInv
  <1>2. ~IsOpen(slots[s].id) /\ UNCHANGED <<fat, data, handle>>
    BY <1>1, RenameIs DEF Careful, May, DirInv
  <1> DEFINE e == slots[s]
             e2 == RenamedEntry(e, m)
             R == Used \ {s}
             M == Held(fat, e)
  <1>3. /\ s \in 1 .. Slots /\ e \in EntryType /\ e.id # 0
        /\ Total \in Nat /\ EntryIn(slots, handle, s) = e
        /\ \E L : ChainIs(fat, data, e, e.id, L)
        /\ \A r \in R : Held(fat, EntryIn(slots, handle, r)) \cap M = {}
        /\ \A c \in Clusters : c \notin M /\ fat[c] # Free
                               => \E r \in R : c \in Held(fat, EntryIn(slots, handle, r))
        /\ \A h \in Open : handle[h].pos # s
    BY <1>2, ClosedFile
  <1>4. OneFileEach(handle) /\ VolumeIs(fat, data, slots, handle) /\ Filled(slots) = Used /\ TypeOK
        /\ OpenIn(handle) = Open
    BY ViewIs DEF CarefulState, DirInv
  <1>5. \A r \in 1 .. Slots : slots'[r] = IF r = p THEN e2 ELSE IF r = s THEN NoEntry ELSE slots[r]
    BY <1>1, <1>4 DEF TypeOK
  <1>6. e2.id = e.id /\ e2.first = e.first /\ e2.size = e.size /\ e2 # NoEntry
    <2>1. e2.id = e.id /\ e2.first = e.first /\ e2.size = e.size
      <3> HIDE DEF e
      <3>1. QED
        BY <1>3, RenamedIs
    <2>2. QED
      BY <2>1, <1>3, ClosedIs
  <1> HIDE DEF e2
  <1>7. p \notin R
    BY <1>1 DEF Used
  <1>8. Filled(slots') = R \cup {p} /\ R \in SUBSET Filled(slots)
    <2>1. p \notin R
      BY <1>7
    <2>2. QED
      BY <2>1, <1>1, <1>4, <1>5, <1>6 DEF Filled, Used
  <1>9. ASSUME NEW r \in R
        PROVE  slots'[r] = slots[r] /\ EntryIn(slots', handle', r) = EntryIn(slots, handle, r)
    <2>1. slots'[r] = slots[r]
      BY <1>5, <1>7 DEF Used
    <2>2. QED
      BY <2>1, <1>2 DEF EntryIn
  <1>10. EntryIn(slots', handle', p) = e2 /\ slots'[p] = e2
    <2>1. slots'[p] = e2
      BY <1>5
    <2>2. \A k \in OpenIn(handle) : handle[k].id # e.id
      BY <1>2, <1>4 DEF IsOpen
    <2>3. \A k \in OpenIn(handle) : handle[k].id # slots'[p].id
      BY <2>1, <2>2, <1>6
    <2>4. EntryIn(slots', handle, p) = slots'[p]
      BY <2>3, <1>4, EntryInIs
    <2>5. QED
      BY <2>1, <2>4, <1>2
  <1>11. SlotIs(fat, data, slots', handle, p)
    <2>1. PICK L : ChainIs(fat, data, e, e.id, L)
      BY <1>3
    <2>2. ChainIs(fat, data, e2, e2.id, L)
      <3> HIDE DEF e
      <3>1. QED
        BY <2>1, <1>6 DEF ChainIs
    <2>3. \A k \in OpenIn(handle) : handle[k].id # slots'[p].id
      BY <1>2, <1>4, <1>6, <1>10 DEF IsOpen
    <2>4. EntryIn(slots', handle, p) = e2
      BY <1>2, <1>10
    <2>5. QED
      BY <2>2, <2>3, <2>4, <1>10 DEF SlotIs
  <1>12. Held(fat, e2) = M
    <2> HIDE DEF e
    <2>1. QED
      BY <1>6 DEF Held
  <1> HIDE DEF R, M, e
  <1>13. Leaves(fat, data, slots, handle, fat, data, slots', handle, R, {p}, M)
    <2>1. \A r \in R : EntryIn(slots', handle, r) = EntryIn(slots, handle, r) /\ slots'[r] = slots[r]
      BY <1>2, <1>9
    <2>2. EntryIn(slots', handle, p) = e2
      BY <1>2, <1>10
    <2>3. QED
      BY <2>1, <2>2, <1>3, <1>8, <1>11, <1>12 DEF Leaves
  <1>14. VolumeIs(fat, data, slots', handle)
    BY <1>3, <1>4, <1>13, VolumeStep
  <1>15. TidyIs'
    <2>1. ASSUME NEW k \in Open, ~handle[k].dirty PROVE slots'[handle[k].pos] = handle[k].entry
      <3>1. handle[k].pos # s /\ handle[k].pos \in Used
        BY <1>3, OpenIsReady
      <3>2. handle[k].pos \in R
        BY <3>1 DEF R
      <3>3. QED
        BY <2>1, <3>2, <1>9 DEF CarefulState
    <2>2. Open' = Open
      BY <1>2 DEF Open
    <2>3. QED
      BY <1>2, <2>1, <2>2 DEF TidyIs
  <1>16. QED
    BY <1>2, <1>14, <1>15

CarefulInv == Careful => CarefulState

LEMMA CarefulStep ==
  ASSUME DirHandlesAssumption, DirInv, EntriesInv, CurrentInv, CarefulInv, [Next]_vars
  PROVE  CarefulInv'
  <1>1. allowed' = allowed
    BY StepCases DEF DirInv
  <1> SUFFICES ASSUME Careful PROVE CarefulState'
    BY <1>1 DEF CarefulInv, Careful
  <1>2. CarefulState /\ EntriesStay /\ ~May("free_while_open")
    BY DEF CarefulInv, Careful, EntriesStay, May
  <1>3. OneEntryEach' /\ EntryFound' /\ EntryNamed'
    <2>1. EntriesInv' /\ EntriesStay'
      BY <1>1, <1>2, EntriesStep DEF EntriesStay
    <2>2. QED
      BY <2>1 DEF EntriesInv
  <1>4. \A h \in Open' : handle'[h].gen = gen'
    <2>1. CurrentInv' /\ ~May("free_while_open")'
      BY <1>1, <1>2, CurrentStep DEF May
    <2>2. QED
      BY <2>1 DEF CurrentInv
  <1>5. \A h \in Handles : ~handle'[h].stale
    <2>1. \A h \in Handles : handle'[h].stale => handle[h].stale
      BY <1>2, CurrentStep
    <2>2. QED
      BY <2>1, <1>2 DEF CarefulState
  <1>6. OneFileEach(handle')
    BY <1>2, OneFileStep DEF CarefulState
  <1>7. VolumeIs(fat', data', slots', handle') /\ TidyIs'
    <2>1. CASE UNCHANGED vars
      <3>1. UNCHANGED <<fat, data, slots, handle>>
        BY <2>1 DEF vars
      <3>2. VolumeIs(fat, data, slots, handle)
        BY <1>2 DEF CarefulState
      <3>3. TidyIs
        BY <1>2 DEF CarefulState, TidyIs
      <3>4. TidyIs'
        BY <3>1, <3>3 DEF TidyIs, Open
      <3>5. QED
        BY <3>1, <3>2, <3>4
    <2>2. CASE Next
      <3>1. \/ \E h \in Handles : FileWrite(h) \/ Truncate(h) \/ Flush(h)
                                  \/ \E n \in 0 .. MaxLen : Seek(h, n)
            \/ \E h \in Handles : Close(h)
            \/ \E h \in Handles, n \in Names : Create(h, n)
            \/ \E h \in Handles, n \in Names : OpenFile(h, n)
            \/ \E n \in Names : Remove(n)
            \/ \E n \in Names, m \in Names : Rename(n, m)
        BY <2>2, Zenon DEF Next
      <3>2. CASE \E h \in Handles : FileWrite(h) \/ Truncate(h) \/ Flush(h)
                                    \/ \E n \in 0 .. MaxLen : Seek(h, n)
        BY <3>2, <1>2, <1>6, FileVolume
      <3>3. CASE \E h \in Handles : Close(h)
        BY <3>3, <1>2, <1>6, CloseVolume
      <3>4. CASE \E h \in Handles, n \in Names : Create(h, n)
        BY <3>4, <1>2, <1>6, CreateVolume
      <3>5. CASE \E h \in Handles, n \in Names : OpenFile(h, n)
        BY <3>5, <1>2, <1>6, OpenVolume
      <3>6. CASE \E n \in Names : Remove(n)
        BY <3>6, <1>2, RemoveVolume
      <3>7. CASE \E n \in Names, m \in Names : Rename(n, m)
        BY <3>7, <1>2, RenameVolume
      <3>8. QED
        BY <3>1, <3>2, <3>3, <3>4, <3>5, <3>6, <3>7
    <2>3. QED
      BY <2>1, <2>2
  <1>8. QED
    BY <1>3, <1>4, <1>5, <1>6, <1>7 DEF CarefulState, TidyIs

VolumeInv == DirInv /\ EntriesInv /\ CurrentInv /\ CarefulInv

LEMMA VolumeStarts ==
  ASSUME DirHandlesAssumption, Init PROVE VolumeInv
  <1>1. DirInv /\ Open = {} /\ Used = {} /\ live = {}
    BY DirStarts
  <1>2. OneEntryEach /\ EntryFound /\ EntryNamed
    BY <1>1 DEF OneEntryEach, EntryFound, EntryNamed
  <1>3. \A h \in Handles : ~handle[h].stale
    BY ClosedIs DEF Init
  <1>4. OneFileEach(handle)
    BY <1>1, ViewIs DEF OneFileEach
  <1>5. VolumeIs(fat, data, slots, handle)
    <2>1. Filled(slots) = {}
      BY <1>1, ViewIs
    <2>2. \A c \in Clusters : fat[c] = Free
      BY DEF Init
    <2>3. QED
      BY <2>1, <2>2 DEF VolumeIs
  <1>6. CarefulState
    BY <1>1, <1>2, <1>3, <1>4, <1>5 DEF CarefulState
  <1>7. QED
    BY <1>1, <1>2, <1>6 DEF VolumeInv, EntriesInv, CurrentInv, CarefulInv

LEMMA VolumeInvariant ==
  ASSUME DirHandlesAssumption PROVE Spec => []VolumeInv
  <1>1. Init => VolumeInv
    BY VolumeStarts
  <1>2. VolumeInv /\ [Next]_vars => VolumeInv'
    BY DirInvStep, EntriesStep, CurrentStep, CarefulStep DEF VolumeInv
  <1>3. QED
    BY <1>1, <1>2, PTL DEF Spec

\* What the chains of a careful program's files are.
LEMMA FilesOfVolume ==
  ASSUME DirHandlesAssumption, VolumeInv, Careful
  PROVE  /\ \A s \in Used : /\ Cardinality(ChainOf(View(s))) = View(s).size
                            /\ \A c \in ChainOf(View(s)) : fat[c] # Free /\ data[c] = slots[s].id
         /\ \A s, t \in Used : s # t => ChainOf(View(s)) \cap ChainOf(View(t)) = {}
         /\ \A c \in Clusters : fat[c] # Free => \E s \in Used : c \in ChainOf(View(s))
  <1>1. CarefulState /\ Total \in Nat
    BY DirConstants DEF VolumeInv, CarefulInv
  <1>2. VolumeIs(fat, data, slots, handle) /\ Filled(slots) = Used
    BY <1>1, ViewIs DEF CarefulState
  <1>3. \A s : ChainOf(View(s)) = Held(fat, EntryIn(slots, handle, s)) /\ View(s) = EntryIn(slots, handle, s)
    BY ViewIs
  <1>4. ASSUME NEW s \in Used
        PROVE  /\ Cardinality(Held(fat, EntryIn(slots, handle, s))) = EntryIn(slots, handle, s).size
               /\ \A c \in Held(fat, EntryIn(slots, handle, s)) : fat[c] # Free /\ data[c] = slots[s].id
    <2>1. PICK L : ChainIs(fat, data, EntryIn(slots, handle, s), slots[s].id, L)
      BY <1>2 DEF VolumeIs, SlotIs
    <2>2. QED
      BY <2>1, <1>1, HeldIs
  <1>5. ASSUME NEW s \in Used, NEW t \in Used, s # t
        PROVE  Held(fat, EntryIn(slots, handle, s)) \cap Held(fat, EntryIn(slots, handle, t)) = {}
    <2>1. slots[s].id # slots[t].id
      BY <1>1, <1>5 DEF CarefulState, OneEntryEach
    <2>2. QED
      BY <2>1, <1>1, <1>2, DisjointFiles
  <1>6. \A c \in Clusters : fat[c] # Free
                            => \E s \in Used : c \in Held(fat, EntryIn(slots, handle, s))
    BY <1>2 DEF VolumeIs
  <1>7. QED
    BY <1>3, <1>4, <1>5, <1>6

\* A program that removes and renames no open file, and releases nothing while
\* another is open, keeps chains and sizes together: a file of n clusters has a
\* chain of n allocated ones, no other file has any of them, and none is lost.
THEOREM ChainsAndSizes ==
  ASSUME DirHandlesAssumption PROVE Spec => []ChainsMatchSizes
  <1>1. VolumeInv => ChainsMatchSizes
    BY FilesOfVolume DEF ChainsMatchSizes
  <1>2. QED
    BY <1>1, VolumeInvariant, PTL

\* ... and what each of them holds was written for that file.
THEOREM DataIsOfItsFile ==
  ASSUME DirHandlesAssumption PROVE Spec => []DataIntact
  <1>1. VolumeInv => DataIntact
    BY FilesOfVolume DEF DataIntact
  <1>2. QED
    BY <1>1, VolumeInvariant, PTL
=============================================================================
