------------------------ MODULE EvidenceSearchProofs ------------------------
(***************************************************************************)
(* What holds of a governed search for every set of sources, contents,     *)
(* permissions and words, over an index that is written meanwhile.         *)
(***************************************************************************)
EXTENDS EvidenceSearch, FiniteSetTheorems, SequenceTheorems, NaturalsInduction,
        WellFoundedInduction, TLAPS

-----------------------------------------------------------------------------
(* Induction up to a bound, and functions defined by it *)

\* What holds of 0 and, up to N, of a number if of the one before it, holds of
\* all of them.
LEMMA BoundedInduction ==
    ASSUME NEW N \in Nat, NEW G, 0 \in G, \A n \in 1..N : n - 1 \in G => n \in G
    PROVE  \A n \in 0..N : n \in G
<1> SUFFICES ASSUME NEW bad \in 0..N, bad \notin G PROVE FALSE
  OBVIOUS
<1> DEFINE less == {ss \in Nat \X Nat : ss[1] < ss[2]}
           missing == {n \in 0..N : n \notin G}
<1>1. IsWellFoundedOn(less, Nat)
  BY NatLessThanWellFounded DEF OpToRel
<1>2. missing \subseteq Nat /\ bad \in missing
  OBVIOUS
<1>3. PICK m \in missing : \A n \in missing : ~ (<<n, m>> \in less)
  BY <1>1, <1>2, WFMin
<1>4. \A n \in missing : ~ (n < m)
  BY <1>2, <1>3
<1>5. m \in 1..N /\ m - 1 \in 0..N /\ m - 1 < m
  BY <1>3
<1> QED
  BY <1>3, <1>4, <1>5

\* f begins with s0 and goes on by the step function F.
Follows(f, N, S, s0, F) ==
    /\ f \in [0..N -> S] /\ f[0] = s0
    /\ \A n \in 1..N : f[n] = F[n][f[n - 1]]

LEMMA RecursiveSequence ==
    ASSUME NEW N \in Nat, NEW S, NEW s0 \in S, NEW F \in [1..N -> [S -> S]]
    PROVE  \E f : Follows(f, N, S, s0, F)
<1> DEFINE G == {n \in 0..N : \E f : Follows(f, n, S, s0, F)}
<1>1. 0 \in G
  <2>1. Follows([m \in 0..0 |-> s0], 0, S, s0, F)
    BY DEF Follows
  <2>2. \E f : Follows(f, 0, S, s0, F)
    BY <2>1
  <2> QED
    BY <2>2
<1>2. ASSUME NEW n \in 1..N, n - 1 \in G PROVE n \in G
  <2>1. PICK f : Follows(f, n - 1, S, s0, F)
    BY <1>2
  <2> DEFINE g == [m \in 0..n |-> IF m = n THEN F[n][f[n - 1]] ELSE f[m]]
  <2>2. n - 1 \in 0..(n - 1) /\ f[n - 1] \in S
    BY <2>1 DEF Follows
  <2>3. F[n][f[n - 1]] \in S
    BY <2>2
  <2>4. \A m \in 0..(n - 1) : g[m] = f[m]
    OBVIOUS
  <2>5. g \in [0..n -> S]
    <3>1. ASSUME NEW m \in 0..n PROVE g[m] \in S
      <4>1. CASE m = n
        BY <2>3, <4>1
      <4>2. CASE m # n
        BY <2>1, <4>2 DEF Follows
      <4> QED
        BY <4>1, <4>2
    <3> QED
      BY <3>1
  <2>6. g[0] = s0
    BY <2>1 DEF Follows
  <2>7. ASSUME NEW m \in 1..n PROVE g[m] = F[m][g[m - 1]]
    <3>1. g[m - 1] = f[m - 1]
      BY <2>4
    <3>2. CASE m = n
      BY <3>1, <3>2
    <3>3. CASE m # n
      <4>1. m \in 1..(n - 1) /\ m \in 0..(n - 1)
        BY <3>3
      <4>2. g[m] = f[m] /\ f[m] = F[m][f[m - 1]]
        BY <2>1, <2>4, <4>1 DEF Follows
      <4> QED
        BY <3>1, <4>2
    <3> QED
      BY <3>2, <3>3
  <2> HIDE DEF g
  <2>8. Follows(g, n, S, s0, F)
    BY <2>5, <2>6, <2>7 DEF Follows
  <2> QED
    BY <2>8
<1>3. N \in G
  <2>1. \A n \in 1..N : n - 1 \in G => n \in G
    BY <1>2
  <2> HIDE DEF G
  <2>2. \A n \in 0..N : n \in G
    BY <1>1, <2>1, BoundedInduction
  <2> QED
    BY <2>2
<1> QED
  BY <1>3 DEF G

-----------------------------------------------------------------------------
(* Sets in an order *)

\* R is a strict total order on S.
Orders(R, S) ==
    /\ R \subseteq S \X S
    /\ \A x \in S : <<x, x>> \notin R
    /\ \A x, y, z \in S : <<x, y>> \in R /\ <<y, z>> \in R => <<x, z>> \in R
    /\ \A x, y \in S : x # y => <<x, y>> \in R \/ <<y, x>> \in R

Below(S, R, x) == {y \in S : <<y, x>> \in R}

\* The elements of a finite set have the ranks from 0 on, one each.
LEMMA Ranks ==
    ASSUME NEW S, IsFiniteSet(S), NEW R, Orders(R, S)
    PROVE  /\ Cardinality(S) \in Nat
           /\ \A x \in S : Cardinality(Below(S, R, x)) \in 0..(Cardinality(S) - 1)
           /\ \A x, y \in S : <<x, y>> \in R =>
                Cardinality(Below(S, R, x)) < Cardinality(Below(S, R, y))
           /\ \A i \in 0..(Cardinality(S) - 1) :
                \E x \in S : Cardinality(Below(S, R, x)) = i
<1> DEFINE rank == [x \in S |-> Cardinality(Below(S, R, x))]
           size == Cardinality(S)
<1>1. size \in Nat
  BY FS_CardinalityType
<1>2. ASSUME NEW x \in S
      PROVE  /\ IsFiniteSet(Below(S, R, x)) /\ rank[x] \in Nat /\ rank[x] < size
  <2>1. Below(S, R, x) \subseteq S /\ x \notin Below(S, R, x)
    BY DEF Below, Orders
  <2>2. IsFiniteSet(Below(S, R, x)) /\ Cardinality(Below(S, R, x)) <= size
    BY <2>1, FS_Subset
  <2>3. Cardinality(Below(S, R, x)) # size
    BY <2>1, FS_Subset
  <2>4. Cardinality(Below(S, R, x)) \in Nat
    BY <2>2, FS_CardinalityType
  <2> QED
    BY <1>1, <2>2, <2>3, <2>4
<1>3. ASSUME NEW x \in S, NEW y \in S, <<x, y>> \in R PROVE rank[x] < rank[y]
  <2>1. Below(S, R, x) \subseteq Below(S, R, y)
    BY <1>3 DEF Below, Orders
  <2>2. x \in Below(S, R, y) /\ x \notin Below(S, R, x)
    BY <1>3 DEF Below, Orders
  <2>3. /\ Cardinality(Below(S, R, x)) <= Cardinality(Below(S, R, y))
        /\ Cardinality(Below(S, R, x)) # Cardinality(Below(S, R, y))
    BY <1>2, <2>1, <2>2, FS_Subset
  <2> QED
    BY <1>2, <2>3
<1>4. \A x \in S : rank[x] \in 0..(size - 1)
  BY <1>1, <1>2
<1> DEFINE taken == {rank[x] : x \in S}
<1>5. rank \in [S -> taken]
  OBVIOUS
<1> HIDE DEF rank, size
<1>6. \A x, y \in S : rank[x] = rank[y] => x = y
  <2> SUFFICES ASSUME NEW x \in S, NEW y \in S, rank[x] = rank[y], x # y PROVE FALSE
    OBVIOUS
  <2>1. <<x, y>> \in R \/ <<y, x>> \in R
    BY DEF Orders
  <2> QED
    BY <1>3, <1>4, <2>1
<1>7. rank \in Injection(S, taken)
  BY <1>5, <1>6 DEF Injection, IsInjective
<1>8. rank \in Surjection(S, taken)
  BY <1>5 DEF Surjection
<1>9. IsFiniteSet(taken) /\ Cardinality(taken) = size
  BY <1>7, <1>8, FS_Surjection DEF size
<1>10. IsFiniteSet(0..(size - 1)) /\ Cardinality(0..(size - 1)) = size
  BY <1>1, FS_Interval
<1>11. taken \subseteq 0..(size - 1)
  BY <1>4
<1>12. taken = 0..(size - 1)
  <2> HIDE DEF taken
  <2> QED
    BY <1>9, <1>10, <1>11, FS_Subset
<1>13. \A i \in 0..(size - 1) : \E x \in S : rank[x] = i
  BY <1>12
<1> QED
  BY <1>1, <1>3, <1>4, <1>13 DEF rank, size

\* A listing has every element of the set once, in the order.
LEMMA Listed ==
    ASSUME NEW S, IsFiniteSet(S), NEW R, Orders(R, S)
    PROVE  /\ Cardinality(S) \in Nat
           /\ Ordered(S, R) \in [1..Cardinality(S) -> S]
           /\ \A i, j \in 1..Cardinality(S) : Ordered(S, R)[i] = Ordered(S, R)[j] => i = j
           /\ \A x \in S : \E i \in 1..Cardinality(S) : Ordered(S, R)[i] = x
           /\ \A i, j \in 1..Cardinality(S) :
                i < j => <<Ordered(S, R)[i], Ordered(S, R)[j]>> \in R
<1> DEFINE rank(x) == Cardinality(Below(S, R, x))
           size == Cardinality(S)
           list == Ordered(S, R)
<1>1. /\ size \in Nat /\ \A x \in S : rank(x) \in 0..(size - 1)
      /\ \A x, y \in S : <<x, y>> \in R => rank(x) < rank(y)
      /\ \A i \in 0..(size - 1) : \E x \in S : rank(x) = i
  BY Ranks
<1>2. ASSUME NEW i \in 1..size PROVE list[i] \in S /\ rank(list[i]) = i - 1
  <2>1. list[i] = CHOOSE x \in S : rank(x) = i - 1
    BY <1>2 DEF Ordered, Below
  <2>2. i - 1 \in 0..(size - 1)
    BY <1>1
  <2>3. \E x \in S : rank(x) = i - 1
    BY <1>1, <2>2
  <2> QED
    BY <2>1, <2>3
<1>3. list \in [1..size -> S]
  <2> DEFINE ranked(i) == CHOOSE x \in S : rank(x) = i - 1
  <2>1. list = [i \in 1..size |-> ranked(i)]
    BY DEF Ordered, Below
  <2>2. \A i \in 1..size : list[i] = ranked(i)
    BY <2>1
  <2> HIDE DEF list, ranked
  <2> QED
    BY <1>2, <2>1, <2>2
<1>4. \A x, y \in S : rank(x) = rank(y) => x = y
  <2> SUFFICES ASSUME NEW x \in S, NEW y \in S, rank(x) = rank(y), x # y PROVE FALSE
    OBVIOUS
  <2>1. <<x, y>> \in R \/ <<y, x>> \in R
    BY DEF Orders
  <2>2. rank(x) \in Nat /\ rank(y) \in Nat /\ (rank(x) < rank(y) \/ rank(y) < rank(x))
    BY <1>1, <2>1
  <2> QED
    BY <2>2
<1> HIDE DEF rank, size, list
<1>5. \A i, j \in 1..size : list[i] = list[j] => i = j
  BY <1>1, <1>2
<1>6. ASSUME NEW x \in S PROVE \E i \in 1..size : list[i] = x
  <2>1. rank(x) + 1 \in 1..size
    BY <1>1
  <2>2. list[rank(x) + 1] \in S /\ rank(list[rank(x) + 1]) = rank(x)
    BY <1>1, <1>2, <2>1
  <2> QED
    BY <1>4, <2>1, <2>2
<1>7. ASSUME NEW i \in 1..size, NEW j \in 1..size, i < j PROVE <<list[i], list[j]>> \in R
  <2>1. rank(list[i]) < rank(list[j]) /\ list[i] \in S /\ list[j] \in S
    BY <1>1, <1>2, <1>7
  <2>2. list[i] # list[j]
    BY <1>1, <2>1
  <2>3. <<list[i], list[j]>> \in R \/ <<list[j], list[i]>> \in R
    BY <2>1, <2>2 DEF Orders
  <2>4. ~ (rank(list[j]) < rank(list[i]))
    BY <1>1, <2>1
  <2> QED
    BY <1>1, <2>1, <2>3, <2>4
<1> QED
  BY <1>1, <1>2, <1>3, <1>5, <1>6, <1>7 DEF size, list
-----------------------------------------------------------------------------
(* Permissions *)

Own == Roles \union {GroupOf[role] : role \in Roles} \union {Human}
ParentsOf(refs) == {i[2] : i \in {j \in Inherits : j[1] \in refs}}

LEMMA ParentsAre ==
    /\ Cardinality(Inherits) \in Nat
    /\ \A refs : ParentsOf(refs) \subseteq PermRefs
    /\ \A refs, more : refs \subseteq more => ParentsOf(refs) \subseteq ParentsOf(more)
    /\ Own \subseteq PermRefs
<1>1. Cardinality(Inherits) \in Nat
  BY FS_CardinalityType, EvidenceSearchAssumption
<1>2. \A refs : ParentsOf(refs) \subseteq PermRefs
  BY EvidenceSearchAssumption DEF ParentsOf
<1>3. \A refs, more : refs \subseteq more => ParentsOf(refs) \subseteq ParentsOf(more)
  BY DEF ParentsOf
<1>4. Own \subseteq PermRefs
  BY EvidenceSearchAssumption DEF Own, Roles
<1> QED
  BY <1>1, <1>2, <1>3, <1>4

\* The parents in n steps are those in one step less, and their parents.
LEMMA ParentsByStep ==
    ASSUME NEW refs
    PROVE  LET N == Cardinality(Inherits)
               reach == ParentsWithin(refs)
           IN /\ reach[0] = {}
              /\ \A n \in 1..N : reach[n] = reach[n - 1] \union ParentsOf(refs \union reach[n - 1])
              /\ \A n \in 0..N : reach[n] \subseteq PermRefs
<1> DEFINE N == Cardinality(Inherits)
           reach == ParentsWithin(refs)
           next == [n \in 1..N |-> [X \in SUBSET PermRefs |->
                        X \union ParentsOf(refs \union X)]]
<1>1. N \in Nat
  BY ParentsAre
<1>2. next \in [1..N -> [SUBSET PermRefs -> SUBSET PermRefs]]
  BY ParentsAre
<1>3. PICK f \in [0..N -> SUBSET PermRefs] :
        f[0] = {} /\ \A n \in 1..N : f[n] = next[n][f[n - 1]]
  <2> DEFINE Sets == SUBSET PermRefs
             none == {}
  <2>1. none \in Sets
    OBVIOUS
  <2>2. next \in [1..N -> [Sets -> Sets]]
    BY <1>2
  <2> HIDE DEF next, N, Sets, none
  <2>3. \E f : Follows(f, N, Sets, none, next)
    BY <1>1, <2>1, <2>2, RecursiveSequence
  <2> QED
    BY <2>3 DEF Follows, Sets, none
<1>4. \A n \in 1..N : f[n] = f[n - 1] \union ParentsOf(refs \union f[n - 1])
  <2> SUFFICES ASSUME NEW n \in 1..N
               PROVE  f[n] = f[n - 1] \union ParentsOf(refs \union f[n - 1])
    OBVIOUS
  <2>1. n - 1 \in 0..N
    BY <1>1
  <2>2. f[n - 1] \in SUBSET PermRefs
    BY <2>1
  <2> QED
    BY <1>3, <2>2
<1>5. f = [n \in 0..N |-> IF n = 0 THEN {}
                          ELSE f[n - 1] \union ParentsOf(refs \union f[n - 1])]
  <2>1. \A n \in 0..N : n # 0 => n \in 1..N
    BY <1>1
  <2> QED
    BY <1>3, <1>4, <2>1
<1>6. reach = [n \in 0..N |-> IF n = 0 THEN {}
                              ELSE reach[n - 1] \union ParentsOf(refs \union reach[n - 1])]
  BY <1>5 DEF ParentsWithin, ParentsOf
<1>7. reach[0] = {} /\ \A n \in 1..N : reach[n] = reach[n - 1] \union ParentsOf(refs \union reach[n - 1])
  <2>1. 0 \in 0..N /\ \A n \in 1..N : n \in 0..N /\ n # 0
    BY <1>1
  <2> HIDE DEF reach
  <2> QED
    BY <1>6, <2>1
<1>8. \A n \in 0..N : reach[n] \subseteq PermRefs
  <2> DEFINE G == {n \in 0..N : reach[n] \subseteq PermRefs}
  <2> HIDE DEF reach
  <2>1. 0 \in G
    BY <1>1, <1>7
  <2>2. ASSUME NEW n \in 1..N, n - 1 \in G PROVE n \in G
    <3>1. reach[n - 1] \subseteq PermRefs /\ ParentsOf(refs \union reach[n - 1]) \subseteq PermRefs
      BY <2>2, ParentsAre
    <3>2. reach[n] \subseteq PermRefs
      BY <1>7, <3>1
    <3> QED
      BY <1>1, <3>2
  <2> HIDE DEF G, N
  <2>3. \A n \in 0..N : n \in G
    BY <1>1, <2>1, <2>2, BoundedInduction
  <2> QED
    BY <2>3 DEF G
<1> QED
  BY <1>7, <1>8

\* A set of groups with their parents in it.
Closed(S) == \A i \in Inherits : i[1] \in S => i[2] \in S

LEMMA ClosedHasParents == \A S, refs : Closed(S) /\ refs \subseteq S => ParentsOf(refs) \subseteq S
BY DEF Closed, ParentsOf

\* In as many steps as there are pairs in Inherits, every parent is reached.
LEMMA StepsReachAll ==
    ASSUME NEW refs
    PROVE  ParentsOf(refs \union TransitiveRefs(refs)) \subseteq TransitiveRefs(refs)
<1> DEFINE N == Cardinality(Inherits)
           reach == ParentsWithin(refs)
           parents == {i[2] : i \in Inherits}
           Still(n) == ParentsOf(refs \union reach[n]) \subseteq reach[n]
           G == {n \in 0..N : Still(n) \/ n <= Cardinality(reach[n])}
<1>1. N \in Nat
  BY ParentsAre
<1>2. /\ reach[0] = {}
      /\ \A n \in 1..N : reach[n] = reach[n - 1] \union ParentsOf(refs \union reach[n - 1])
  BY ParentsByStep
<1>3. IsFiniteSet(parents) /\ Cardinality(parents) <= N /\ Cardinality(parents) \in Nat
  <2> DEFINE parent == [i \in Inherits |-> i[2]]
  <2>1. parent \in Surjection(Inherits, parents)
    BY DEF Surjection
  <2> HIDE DEF parents, parent
  <2> QED
    BY <2>1, EvidenceSearchAssumption, FS_Surjection, FS_CardinalityType
<1>4. \A S : ParentsOf(S) \subseteq parents
  BY DEF ParentsOf
<1> HIDE DEF reach, N, parents
<1>5. \A n \in 0..N : reach[n] \subseteq parents
  <2> DEFINE H == {n \in 0..N : reach[n] \subseteq parents}
  <2>1. 0 \in H
    BY <1>1, <1>2
  <2>2. ASSUME NEW n \in 1..N, n - 1 \in H PROVE n \in H
    <3>1. reach[n] = reach[n - 1] \union ParentsOf(refs \union reach[n - 1])
      BY <1>2
    <3> QED
      BY <1>1, <1>4, <2>2, <3>1
  <2>3. \A n \in 1..N : n - 1 \in H => n \in H
    BY <2>2
  <2> HIDE DEF H
  <2>4. \A n \in 0..N : n \in H
    BY <1>1, <2>1, <2>3, BoundedInduction
  <2> QED
    BY <2>4 DEF H
<1>6. \A n \in 0..N : IsFiniteSet(reach[n]) /\ Cardinality(reach[n]) \in Nat
  BY <1>3, <1>5, FS_Subset, FS_CardinalityType
<1>7. 0 \in G
  <2>1. 0 \in 0..N
    BY <1>1
  <2> QED
    BY <1>6, <2>1
<1>8. ASSUME NEW n \in 1..N, n - 1 \in G PROVE n \in G
  <2>0. n - 1 \in 0..N /\ n \in 0..N
    BY <1>1
  <2>1. reach[n] = reach[n - 1] \union ParentsOf(refs \union reach[n - 1])
    BY <1>2
  <2>2. CASE Still(n - 1)
    <3>1. reach[n] = reach[n - 1]
      BY <2>1, <2>2
    <3> QED
      BY <2>0, <2>2, <3>1
  <2>3. CASE ~ Still(n - 1)
    <3>1. n - 1 <= Cardinality(reach[n - 1])
      BY <1>8, <2>3
    <3>2. reach[n - 1] \subseteq reach[n] /\ reach[n - 1] # reach[n]
      BY <2>1, <2>3
    <3>3. /\ Cardinality(reach[n - 1]) <= Cardinality(reach[n])
          /\ Cardinality(reach[n - 1]) # Cardinality(reach[n])
      BY <1>6, <2>0, <3>2, FS_Subset
    <3>4. n <= Cardinality(reach[n])
      BY <1>6, <2>0, <3>1, <3>3
    <3> QED
      BY <2>0, <3>4
  <2> QED
    BY <2>2, <2>3
<1>9. N \in G
  <2>1. \A n \in 1..N : n - 1 \in G => n \in G
    BY <1>8
  <2> HIDE DEF G
  <2>2. \A n \in 0..N : n \in G
    BY <1>1, <1>7, <2>1, BoundedInduction
  <2> QED
    BY <1>1, <2>2
<1>10. Still(N)
  <2>0. N \in 0..N
    BY <1>1
  <2>1. CASE N <= Cardinality(reach[N])
    <3>1. Cardinality(reach[N]) <= Cardinality(parents) /\ reach[N] \subseteq parents
      BY <1>3, <1>5, <2>0, FS_Subset
    <3>2. Cardinality(reach[N]) = Cardinality(parents)
      BY <1>1, <1>3, <1>6, <2>0, <2>1, <3>1
    <3>3. reach[N] = parents
      BY <1>3, <3>1, <3>2, FS_Subset
    <3> QED
      BY <1>4, <3>3
  <2> QED
    BY <1>9, <2>1
<1> QED
  BY <1>10 DEF TransitiveRefs, reach, N

\* What is reached lies in every closed set that has the refs.
LEMMA OnlyParentsAreReached ==
    ASSUME NEW refs, NEW S, Closed(S), refs \subseteq S
    PROVE  TransitiveRefs(refs) \subseteq S
<1> DEFINE N == Cardinality(Inherits)
           reach == ParentsWithin(refs)
           G == {n \in 0..N : reach[n] \subseteq S}
<1>1. N \in Nat
  BY ParentsAre
<1>2. /\ reach[0] = {}
      /\ \A n \in 1..N : reach[n] = reach[n - 1] \union ParentsOf(refs \union reach[n - 1])
  BY ParentsByStep
<1> HIDE DEF reach, N
<1>3. 0 \in G
  BY <1>1, <1>2
<1>4. ASSUME NEW n \in 1..N, n - 1 \in G PROVE n \in G
  <2>1. reach[n] = reach[n - 1] \union ParentsOf(refs \union reach[n - 1])
    BY <1>2
  <2>2. reach[n - 1] \subseteq S
    BY <1>4
  <2>3. ParentsOf(refs \union reach[n - 1]) \subseteq S
    BY <2>2, ClosedHasParents
  <2> QED
    BY <1>1, <2>1, <2>2, <2>3
<1>5. N \in G
  <2>1. \A n \in 1..N : n - 1 \in G => n \in G
    BY <1>4
  <2> HIDE DEF G
  <2>2. \A n \in 0..N : n \in G
    BY <1>1, <1>3, <2>1, BoundedInduction
  <2> QED
    BY <1>1, <2>2
<1> QED
  BY <1>5 DEF TransitiveRefs, reach, N

\* The permission refs a principal is given (governance/permissions.py) are the
\* least set with its own refs and the parents of the members: the loop over
\* parents of parents ends with all of them, cycles or not.
THEOREM PrincipalHasInherited == PrincipalRefs = Inherited
<1>1. PrincipalRefs = Own \union TransitiveRefs(Own)
  BY DEF PrincipalRefs, Own
<1>2. PrincipalRefs \subseteq PermRefs
  <2>1. Closed(PermRefs)
    BY EvidenceSearchAssumption DEF Closed
  <2> QED
    BY <1>1, <2>1, ParentsAre, OnlyParentsAreReached
<1>3. Closed(PrincipalRefs)
  <2>1. ParentsOf(PrincipalRefs) \subseteq PrincipalRefs
    BY <1>1, StepsReachAll
  <2> QED
    BY <2>1 DEF Closed, ParentsOf
<1>4. Inherited = {ref \in PermRefs : \A S \in SUBSET PermRefs : Own \subseteq S /\ Closed(S) => ref \in S}
  BY DEF Inherited, Own, Closed
<1>5. PrincipalRefs \subseteq Inherited
  <2> SUFFICES ASSUME NEW S \in SUBSET PermRefs, Own \subseteq S, Closed(S)
               PROVE  PrincipalRefs \subseteq S
    BY <1>2, <1>4
  <2> QED
    BY <1>1, OnlyParentsAreReached
<1>6. Inherited \subseteq PrincipalRefs
  BY <1>1, <1>2, <1>3, <1>4
<1> QED
  BY <1>5, <1>6
-----------------------------------------------------------------------------
(* The tables the search reads *)

Piece == Refs \X Nat \X Versions
Rows == [Refs -> Row \union {Nil}]

\* A row holds a content of its source.
RowsOfTheirRef(some) == \A r \in Refs : some[r] # Nil => RefOf[some[r].ver] = r

\* A unit is a piece of the content in the row of its source.
UnitsOfTheirRow ==
    \A x \in unit : row[x[1]] # Nil /\ row[x[1]].ver = x[3] /\ x \in PiecesOf(x[3])

\* Past its first commit an application finds its content in the row.
RowStored ==
    storing # Nil /\ storing.step # "row" =>
        LET r == RefOf[storing.ver] IN row[r] # Nil /\ row[r].ver = storing.ver

IndexInv == IndexTypeOK /\ RowsOfTheirRef(row) /\ UnitsOfTheirRow /\ RowStored

\* The pieces a content is cut into are pieces of its source.
LEMMA PiecesType ==
    ASSUME NEW v \in Versions
    PROVE  PiecesOf(v) \subseteq Piece /\ \A x \in PiecesOf(v) : x[1] = RefOf[v] /\ x[3] = v
BY ServingIndexAssumption DEF PiecesOf, Piece

\* A row whose state is overwritten keeps its type and its content.
LEMMA OverwrittenRow ==
    ASSUME NEW table \in Rows, RowsOfTheirRef(table), NEW r \in Refs, NEW life \in {"active", "inactive"}
    PROVE  LET new == [table EXCEPT ![r] = IF @ = Nil THEN Nil ELSE [@ EXCEPT !.life = life]]
           IN  new \in Rows /\ RowsOfTheirRef(new)
<1> DEFINE new == [table EXCEPT ![r] = IF @ = Nil THEN Nil ELSE [@ EXCEPT !.life = life]]
<1>1. table[r] # Nil => /\ [table[r] EXCEPT !.life = life] \in Row
                       /\ [table[r] EXCEPT !.life = life].ver = table[r].ver
  BY DEF Rows, Row
<1>2. new \in Rows
  BY <1>1 DEF Rows
<1>3. RowsOfTheirRef(new)
  BY <1>1 DEF Rows, RowsOfTheirRef
<1> QED
  BY <1>2, <1>3

\* What replaces the pieces of a stored source is cut from its content.
LEMMA ReplacementType ==
    ASSUME IndexTypeOK, storing # Nil
    PROVE  /\ storing \in Application /\ RefOf[storing.ver] \in Refs
           /\ Replacement \subseteq Piece
           /\ \A x \in Replacement : /\ x[1] = RefOf[storing.ver] /\ x[3] = storing.ver
                                     /\ storing.life = "active"
<1>1. storing \in Application /\ storing.ver \in Versions /\ RefOf[storing.ver] \in Refs
  BY ServingIndexAssumption DEF IndexTypeOK, Application
<1> QED
  BY <1>1, PiecesType DEF Replacement

\* An application leaves the row of its content in the place of that source.
LEMMA StoredRow ==
    ASSUME IndexTypeOK, StoreRow
    PROVE  LET new == [ver |-> storing.ver, life |-> storing.life]
               r == RefOf[storing.ver]
           IN  /\ new \in Row /\ new # Nil /\ r \in Refs
               /\ row' = [row EXCEPT ![r] = new]
               /\ unit' = IF row[r] # Nil /\ row[r] # new THEN Others(unit, r) ELSE unit
<1>1. storing \in Application /\ RefOf[storing.ver] \in Refs
  BY ReplacementType DEF StoreRow, StoreStep
<1>2. [ver |-> storing.ver, life |-> storing.life] \in Row
  BY <1>1 DEF Application, Row
<1>3. row \in [Refs -> Row \union {Nil}]
  BY DEF IndexTypeOK
<1> QED
  BY <1>1, <1>2, <1>3, NilIsNoRow DEF StoreRow, RowChanged

\* The application and the withdrawal keep the types of the tables.
LEMMA WriterTypes ==
    ASSUME IndexTypeOK, RowsOfTheirRef(row), WriterStep
    PROVE  IndexTypeOK' /\ RowsOfTheirRef(row)'
<1> USE ServingIndexAssumption
<1>1. row \in Rows /\ RowsOfTheirRef(row) /\ IndexTypeOK
  BY DEF IndexTypeOK, Rows
<1>2. ASSUME NEW v \in Versions, BeginStore(v)
      PROVE  IndexTypeOK' /\ RowsOfTheirRef(row)'
  <2>1. storing' \in Application
    BY <1>2 DEF BeginStore, Application, Steps
  <2> QED
    BY <1>1, <1>2, <2>1 DEF BeginStore, tables, IndexTypeOK, RowsOfTheirRef
<1>3. ASSUME NEW v \in Versions, BeginRestore(v)
      PROVE  IndexTypeOK' /\ RowsOfTheirRef(row)'
  <2>1. storing' \in Application
    BY <1>3 DEF BeginRestore, Application, Steps
  <2>2. row' \in Rows /\ RowsOfTheirRef(row')
    BY <1>1, <1>3, OverwrittenRow DEF BeginRestore
  <2> QED
    BY <1>1, <1>3, <2>1, <2>2 DEF BeginRestore, IndexTypeOK, Rows, Others, RowsOfTheirRef
<1>4. CASE StoreRow
  <2>1. storing \in Application /\ storing # Nil
    BY <1>1, <1>4, ReplacementType DEF StoreRow, StoreStep
  <2>2. storing' \in Application
    BY <1>4, <2>1 DEF StoreRow, StoreStep, Application, Steps
  <2>3. row' \in Rows /\ RowsOfTheirRef(row') /\ unit' \subseteq unit
    BY <1>1, <1>4, StoredRow DEF Rows, RowsOfTheirRef, Others
  <2> QED
    BY <1>1, <1>4, <2>2, <2>3 DEF StoreRow, StoreStep, IndexTypeOK, Rows, RowsOfTheirRef
<1>5. CASE StoreObjects
  <2>1. storing \in Application /\ RefOf[storing.ver] \in Refs
    BY <1>1, <1>5, ReplacementType DEF StoreObjects, StoreStep
  <2>2. storing' \in Application
    BY <1>5, <2>1 DEF StoreObjects, StoreStep, Application, Steps
  <2> QED
    BY <1>1, <1>5, <2>1, <2>2 DEF StoreObjects, StoreStep, IndexTypeOK, RowsOfTheirRef
<1>6. CASE StoreLinks
  <2>1. storing \in Application /\ LinksOf[storing.ver] \subseteq Refs \X Refs
    BY <1>1, <1>6, ReplacementType DEF StoreLinks, StoreStep, Application
  <2>2. storing' \in Application
    BY <1>6, <2>1 DEF StoreLinks, StoreStep, Application, Steps
  <2> QED
    BY <1>1, <1>6, <2>1, <2>2 DEF StoreLinks, StoreStep, IndexTypeOK, RowsOfTheirRef
<1>7. CASE StoreUnits
  <2>1. storing \in Application /\ Replacement \subseteq Piece
    BY <1>1, <1>7, ReplacementType DEF StoreUnits, StoreStep
  <2>2. storing' \in Application
    BY <1>7, <2>1 DEF StoreUnits, StoreStep, Application, Steps
  <2> QED
    BY <1>1, <1>7, <2>1, <2>2
       DEF StoreUnits, StoreStep, IndexTypeOK, RowsOfTheirRef, Others, Piece
<1>8. CASE StoreVectors
  <2>1. storing \in Application /\ Replacement \subseteq Piece
    BY <1>1, <1>8, ReplacementType DEF StoreVectors, StoreStep
  <2> QED
    BY <1>1, <1>8, <2>1
       DEF StoreVectors, StoreStep, IndexTypeOK, RowsOfTheirRef, Others, Piece
<1>9. ASSUME NEW r \in Refs, Withdraw(r)
      PROVE  IndexTypeOK' /\ RowsOfTheirRef(row)'
  BY <1>1, <1>9 DEF Withdraw, IndexTypeOK, RowsOfTheirRef, Others
<1>10. CASE MarkInactive
  <2>1. dropping \in Refs
    BY <1>1, <1>10 DEF MarkInactive, IndexTypeOK
  <2>2. row' \in Rows /\ RowsOfTheirRef(row')
    BY <1>1, <1>10, <2>1, OverwrittenRow DEF MarkInactive
  <2> QED
    BY <1>1, <1>10, <2>2 DEF MarkInactive, IndexTypeOK, Rows, Others, RowsOfTheirRef
<1> QED
  BY <1>2, <1>3, <1>4, <1>5, <1>6, <1>7, <1>8, <1>9, <1>10 DEF WriterStep

LEMMA IndexInvInit == IndexInit => IndexInv
<1> SUFFICES ASSUME IndexInit PROVE IndexInv
  OBVIOUS
<1> USE ServingIndexAssumption
<1>1. PICK gone \in SUBSET Refs, relinked \in SUBSET Initially :
         LET kept == {v \in Initially : RefOf[v] \notin gone} IN
         /\ relinked \subseteq Initially \ kept
         /\ held = gone
         /\ row = [r \in Refs |->
                     IF \E v \in Initially : RefOf[v] = r
                     THEN [ver |-> CHOOSE v \in Initially : RefOf[v] = r,
                           life |-> IF r \in gone THEN "inactive" ELSE "active"]
                     ELSE Nil]
         /\ unit = UNION {PiecesOf(v) : v \in kept}
         /\ vec = UNION {PiecesOf(v) : v \in kept}
         /\ object = {RefOf[v] : v \in Initially}
         /\ links = {l \in UNION {LinksOf[v] : v \in kept} : l[2] \notin gone}
                      \union UNION {LinksOf[v] : v \in relinked}
         /\ storing = Nil /\ dropping = Nil /\ writes = 0
  BY DEF IndexInit
<1>2. ASSUME NEW r \in Refs
      PROVE  row[r] \in Row \union {Nil} /\ (row[r] # Nil => RefOf[row[r].ver] = r)
  <2>1. CASE \E v \in Initially : RefOf[v] = r
    BY <1>1, <2>1 DEF Row
  <2>2. CASE ~ \E v \in Initially : RefOf[v] = r
    BY <1>1, <2>2
  <2> QED
    BY <2>1, <2>2
<1>3. row \in Rows /\ RowsOfTheirRef(row)
  BY <1>1, <1>2 DEF Rows, RowsOfTheirRef
<1>4. unit \subseteq Piece /\ vec \subseteq Piece
  BY <1>1, PiecesType
<1>5. links \subseteq Refs \X Refs
  BY <1>1
<1>6. IndexTypeOK
  BY <1>1, <1>3, <1>4, <1>5 DEF IndexTypeOK, Rows, Piece
<1>7. UnitsOfTheirRow
  <2> SUFFICES ASSUME NEW x \in unit
               PROVE  row[x[1]] # Nil /\ row[x[1]].ver = x[3] /\ x \in PiecesOf(x[3])
    BY DEF UnitsOfTheirRow
  <2>1. PICK v \in Initially : x \in PiecesOf(v)
    BY <1>1
  <2>2. x[1] = RefOf[v] /\ x[3] = v /\ RefOf[v] \in Refs
    BY <2>1, PiecesType
  <2>3. row[x[1]] = [ver |-> CHOOSE w \in Initially : RefOf[w] = RefOf[v],
                     life |-> IF x[1] \in gone THEN "inactive" ELSE "active"]
    BY <1>1, <2>2
  <2>4. (CHOOSE w \in Initially : RefOf[w] = RefOf[v]) = v
    OBVIOUS
  <2>5. row[x[1]].ver = x[3]
    BY <2>2, <2>3, <2>4
  <2>6. row[x[1]] \in Row
    BY <2>2, <2>3, <2>4 DEF Row
  <2>7. row[x[1]] # Nil
    BY <2>6, NilIsNoRow
  <2> QED
    BY <2>1, <2>2, <2>5, <2>7
<1>8. RowStored
  BY <1>1 DEF RowStored
<1> QED
  BY <1>3, <1>6, <1>7, <1>8 DEF IndexInv

\* Every commit of the writers keeps units and rows together.
LEMMA IndexInvStep ==
    ASSUME IndexInv, WriterStep \/ WriterStop
    PROVE  IndexInv'
<1> USE ServingIndexAssumption
<1>1. row \in Rows /\ RowsOfTheirRef(row) /\ IndexTypeOK /\ unit \subseteq Piece
  BY DEF IndexInv, IndexTypeOK, Rows, Piece
<1>2. CASE WriterStop
  <2>1. CASE StopStore
    BY <2>1 DEF StopStore, tables, IndexInv, IndexTypeOK, RowsOfTheirRef, UnitsOfTheirRow, RowStored
  <2>2. CASE StopWithdrawal
    BY <2>2 DEF StopWithdrawal, tables, IndexInv, IndexTypeOK, RowsOfTheirRef, UnitsOfTheirRow, RowStored
  <2> QED
    BY <1>2, <2>1, <2>2 DEF WriterStop
<1>3. CASE WriterStep
  <2>1. IndexTypeOK' /\ RowsOfTheirRef(row)'
    BY <1>1, <1>3, WriterTypes
  <2>2. (UnitsOfTheirRow /\ RowStored)'
    <3>1. ASSUME NEW v \in Versions, BeginStore(v) PROVE (UnitsOfTheirRow /\ RowStored)'
      BY <3>1 DEF BeginStore, tables, IndexInv, UnitsOfTheirRow, RowStored
    <3>2. ASSUME NEW r \in Refs, NEW life \in {"active", "inactive"}, unit' \subseteq unit,
                 row' = [row EXCEPT ![r] = IF @ = Nil THEN Nil ELSE [@ EXCEPT !.life = life]]
          PROVE  /\ UnitsOfTheirRow'
                 /\ \A s \in Refs : row[s] # Nil => row'[s] # Nil /\ row'[s].ver = row[s].ver
      <4>1. row[r] # Nil => [row[r] EXCEPT !.life = life] \in Row
        BY <1>1 DEF Rows, Row
      <4>2. row[r] # Nil => /\ [row[r] EXCEPT !.life = life] # Nil
                            /\ [row[r] EXCEPT !.life = life].ver = row[r].ver
        BY <1>1, <4>1, NilIsNoRow DEF Rows, Row
      <4>3. \A s \in Refs : row[s] # Nil => row'[s] # Nil /\ row'[s].ver = row[s].ver
        BY <1>1, <3>2, <4>2 DEF Rows
      <4>4. \A x \in unit : x[1] \in Refs
        BY <1>1 DEF Piece
      <4>5. UnitsOfTheirRow'
        BY <3>2, <4>3, <4>4 DEF IndexInv, UnitsOfTheirRow, PiecesOf
      <4> QED
        BY <4>3, <4>5
    <3>3. ASSUME NEW v \in Versions, BeginRestore(v) PROVE (UnitsOfTheirRow /\ RowStored)'
      <4>1. UnitsOfTheirRow'
        BY <3>2, <3>3 DEF BeginRestore, Others
      <4>2. RowStored'
        BY <3>3 DEF BeginRestore, RowStored
      <4> QED
        BY <4>1, <4>2
    <3>4. CASE MarkInactive
      <4>0. dropping \in Refs
        BY <1>1, <3>4 DEF MarkInactive, IndexTypeOK
      <4>1. /\ UnitsOfTheirRow'
            /\ \A s \in Refs : row[s] # Nil => row'[s] # Nil /\ row'[s].ver = row[s].ver
        BY <3>2, <3>4, <4>0 DEF MarkInactive, Others
      <4>2. storing' = storing /\ (storing # Nil => RefOf[storing.ver] \in Refs)
        BY <1>1, <3>4, ReplacementType DEF MarkInactive
      <4>3. RowStored'
        BY <4>1, <4>2 DEF IndexInv, RowStored
      <4> QED
        BY <4>1, <4>3
    <3>5. CASE StoreRow
      <4> DEFINE new == [ver |-> storing.ver, life |-> storing.life]
                 r == RefOf[storing.ver]
      <4>1. /\ new \in Row /\ new # Nil /\ r \in Refs
            /\ row' = [row EXCEPT ![r] = new]
            /\ unit' = IF row[r] # Nil /\ row[r] # new THEN Others(unit, r) ELSE unit
        BY <1>1, <3>5, StoredRow
      <4>2. storing' = [storing EXCEPT !.step = "objects"] /\ storing \in Application
        BY <1>1, <3>5, ReplacementType DEF StoreRow, StoreStep
      <4>3. storing'.ver = storing.ver
        BY <4>2 DEF Application
      <4>4. row'[r] = new /\ \A s \in Refs : s # r => row'[s] = row[s]
        BY <1>1, <4>1 DEF Rows
      <4>5. RowStored'
        BY <4>1, <4>3, <4>4 DEF RowStored
      <4>6. ASSUME NEW x \in unit'
            PROVE  (row[x[1]] # Nil /\ row[x[1]].ver = x[3] /\ x \in PiecesOf(x[3]))'
        <5>1. x \in unit /\ x[1] \in Refs
          BY <1>1, <4>1, <4>6 DEF Others, Piece
        <5>2. row[x[1]] # Nil /\ row[x[1]].ver = x[3] /\ x \in PiecesOf(x[3])
          BY <5>1 DEF IndexInv, UnitsOfTheirRow
        <5>3. CASE x[1] # r
          BY <4>4, <5>1, <5>2, <5>3 DEF PiecesOf
        <5>4. CASE x[1] = r
          <6>1. ~ (row[r] # Nil /\ row[r] # new)
            BY <4>1, <4>6, <5>4 DEF Others
          <6>2. row'[r] = row[r]
            BY <4>4, <5>2, <5>4, <6>1
          <6> QED
            BY <5>2, <5>4, <6>2 DEF PiecesOf
        <5> QED
          BY <5>3, <5>4
      <4> QED
        BY <4>5, <4>6 DEF UnitsOfTheirRow
    <3>6. ASSUME NEW from \in Steps \ {"row"}, NEW to, StoreStep(from, to), row' = row
          PROVE  RowStored'
      <4>1. storing # Nil /\ storing \in Application /\ storing.step # "row"
        BY <1>1, <3>6, ReplacementType DEF StoreStep
      <4>2. storing' = Nil \/ storing' = [storing EXCEPT !.step = to]
        BY <3>6 DEF StoreStep
      <4>3. storing' # Nil => storing'.ver = storing.ver
        BY <4>1, <4>2 DEF Application
      <4> QED
        BY <3>6, <4>1, <4>3 DEF IndexInv, RowStored
    <3>7. CASE StoreObjects
      BY <3>6, <3>7 DEF StoreObjects, Steps, IndexInv, UnitsOfTheirRow, PiecesOf
    <3>8. CASE StoreLinks
      BY <3>6, <3>8 DEF StoreLinks, Steps, IndexInv, UnitsOfTheirRow, PiecesOf
    <3>9. CASE StoreVectors
      BY <3>6, <3>9 DEF StoreVectors, Steps, IndexInv, UnitsOfTheirRow, PiecesOf
    <3>10. CASE StoreUnits
      <4>1. RowStored'
        BY <3>6, <3>10 DEF StoreUnits, Steps
      <4>2. storing \in Application /\ storing # Nil /\ storing.step # "row"
        BY <1>1, <3>10, ReplacementType DEF StoreUnits, StoreStep
      <4>3. row[RefOf[storing.ver]] # Nil /\ row[RefOf[storing.ver]].ver = storing.ver
        BY <4>2 DEF IndexInv, RowStored
      <4>4. ASSUME NEW x \in Replacement
            PROVE  row[x[1]] # Nil /\ row[x[1]].ver = x[3] /\ x \in PiecesOf(x[3])
        <5>1. x[1] = RefOf[storing.ver] /\ x[3] = storing.ver
          BY <1>1, <4>2, ReplacementType
        <5>2. x \in PiecesOf(storing.ver)
          BY DEF Replacement
        <5> QED
          BY <4>3, <5>1, <5>2
      <4>5. unit' \subseteq unit \union Replacement /\ row' = row
        BY <3>10 DEF StoreUnits, Others
      <4>6. UnitsOfTheirRow'
        BY <4>4, <4>5 DEF IndexInv, UnitsOfTheirRow, PiecesOf
      <4> QED
        BY <4>1, <4>6
    <3>11. ASSUME NEW r \in Refs, Withdraw(r) PROVE (UnitsOfTheirRow /\ RowStored)'
      BY <3>11 DEF Withdraw, IndexInv, UnitsOfTheirRow, RowStored, PiecesOf
    <3> QED
      BY <1>3, <3>1, <3>3, <3>4, <3>5, <3>7, <3>8, <3>9, <3>10, <3>11 DEF WriterStep
  <2> QED
    BY <2>1, <2>2 DEF IndexInv
<1> QED
  BY <1>2, <1>3
-----------------------------------------------------------------------------
(* Lists *)

\* What a function lists from 1 to n is a sequence of that length.
LEMMA ListIsSequence ==
    ASSUME NEW S, NEW n \in Nat, NEW f \in [1..n -> S]
    PROVE  f \in Seq(S) /\ Len(f) = n /\ DOMAIN f = 1..n
<1>1. f \in Seq(S)
  BY SeqDef
<1>2. DOMAIN f = 1..Len(f) /\ Len(f) \in Nat
  BY <1>1, LenProperties
<1>3. 1..Len(f) = 1..n
  BY <1>2
<1>4. Len(f) = n
  BY <1>2, <1>3
<1> QED
  BY <1>1, <1>4

LEMMA PrefixIs ==
    ASSUME NEW S, NEW s \in Seq(S), NEW n \in Nat
    PROVE  /\ Prefix(s, n) \in Seq(S)
           /\ Len(Prefix(s, n)) = IF Len(s) < n THEN Len(s) ELSE n
           /\ \A i \in 1..Len(Prefix(s, n)) : i \in 1..Len(s) /\ Prefix(s, n)[i] = s[i]
           /\ Len(Prefix(s, n)) < n => Prefix(s, n) = s
<1> DEFINE len == IF Len(s) < n THEN Len(s) ELSE n
           p == Prefix(s, n)
<1>1. Len(s) \in Nat /\ s \in [1..Len(s) -> S] /\ DOMAIN s = 1..Len(s)
  BY LenProperties
<1>0. Len(s) \in Nat /\ n \in Nat
  BY <1>1
<1>2. len \in Nat /\ len <= Len(s) /\ len <= n /\ (len < n => len = Len(s))
  BY <1>0
<1> HIDE DEF len
<1>3. \A i \in 1..len : i \in 1..Len(s)
  BY <1>0, <1>2
<1>4. p = [i \in 1..len |-> s[i]]
  BY DEF Prefix, len
<1>5. p \in [1..len -> S] /\ \A i \in 1..len : p[i] = s[i]
  BY <1>1, <1>3, <1>4
<1>6. p \in Seq(S) /\ Len(p) = len
  BY <1>2, <1>5, ListIsSequence
<1>7. ASSUME Len(p) < n PROVE p = s
  <2> HIDE DEF p, len
  <2>1. len = Len(s)
    BY <1>0, <1>2, <1>6, <1>7
  <2>2. p = [i \in 1..Len(s) |-> s[i]]
    BY <1>4, <2>1
  <2> QED
    BY <1>1, <2>2
<1> QED
  BY <1>3, <1>5, <1>6, <1>7 DEF len

-----------------------------------------------------------------------------
(* What the statements of the search return *)

\* Units of rows: no two of them differ in their content only.
LEMMA BetterOrders ==
    ASSUME IndexInv, NEW Score \in [Pieces -> Nat],
           NEW S, S \subseteq {x \in Pieces : Searchable(x)}
    PROVE  IsFiniteSet(S) /\ Orders({p \in S \X S : Better(Score, p[1], p[2])}, S)
<1> USE SearchRowsAssumption
<1> DEFINE R == {p \in S \X S : Better(Score, p[1], p[2])}
<1>1. IsFiniteSet(S)
  BY FS_Subset
<1>2. \A x \in S : /\ x \in Refs \X Nat \X Versions /\ x \in unit
                   /\ Score[x] \in Nat /\ x[1] \in Refs /\ Order[x[1]] \in Nat /\ x[2] \in Nat
                   /\ x[3] = row[x[1]].ver
  BY DEF IndexInv, IndexTypeOK, UnitsOfTheirRow, Searchable
<1>3. \A x, y \in S : x[1] = y[1] /\ x[2] = y[2] => x = y
  <2> SUFFICES ASSUME NEW x \in S, NEW y \in S, x[1] = y[1], x[2] = y[2] PROVE x = y
    OBVIOUS
  <2>1. x[3] = y[3]
    BY <1>2
  <2>2. x = <<x[1], x[2], x[3]>> /\ y = <<y[1], y[2], y[3]>>
    BY <1>2
  <2> QED
    BY <2>1, <2>2
<1>4. \A x, y \in S : <<x, y>> \in R <=> Better(Score, x, y)
  OBVIOUS
<1> HIDE DEF R
<1>5. \A x \in S : ~ Better(Score, x, x)
  BY <1>2 DEF Better
<1>6. ASSUME NEW x \in S, NEW y \in S, NEW z \in S, Better(Score, x, y), Better(Score, y, z)
      PROVE  Better(Score, x, z)
  BY <1>2, <1>6 DEF Better
<1>7. ASSUME NEW x \in S, NEW y \in S, x # y PROVE Better(Score, x, y) \/ Better(Score, y, x)
  <2>1. x[1] # y[1] => Order[x[1]] # Order[y[1]]
    BY <1>2
  <2>2. x[1] = y[1] => x[2] # y[2]
    BY <1>3, <1>7
  <2> QED
    BY <1>2, <2>1, <2>2 DEF Better
<1>8. R \subseteq S \X S
  BY DEF R
<1>9. Orders(R, S)
  BY <1>4, <1>5, <1>6, <1>7, <1>8 DEF Orders
<1> QED
  BY <1>1, <1>9 DEF R

Found == [ref: Refs, idx: {0}, ver: Versions]

\* The best of a set of pieces, up to a limit: rows of pieces of the set, and of
\* all of them if there is room left.
LEMMA BestRows ==
    ASSUME IndexInv, NEW Score \in [Pieces -> Nat], NEW limit \in Nat,
           NEW S, S \subseteq {x \in Pieces : Searchable(x)}
    PROVE  LET s == SearchRowsOf(Prefix(BestBy(Score, S), limit)) IN
           /\ s \in Seq(Found) /\ Len(s) <= limit
           /\ \A i \in 1..Len(s) : \E x \in S : s[i] = SearchRow(x)
           /\ Len(s) < limit => \A x \in S : \E i \in 1..Len(s) : s[i] = SearchRow(x)
<1> DEFINE best == BestBy(Score, S)
           size == Cardinality(S)
           first == Prefix(best, limit)
           s == SearchRowsOf(first)
           R == {p \in S \X S : Better(Score, p[1], p[2])}
<1>0. best = Ordered(S, R)
  BY DEF BestBy
<1>1. IsFiniteSet(S) /\ Orders(R, S)
  BY BetterOrders
<1> HIDE DEF best, R
<1>2. /\ size \in Nat /\ best \in [1..size -> S]
      /\ \A x \in S : \E i \in 1..size : best[i] = x
  BY <1>0, <1>1, Listed
<1> HIDE DEF size
<1>5. best \in Seq(S) /\ Len(best) = size
  BY <1>2, ListIsSequence
<1>6. /\ first \in Seq(S) /\ Len(first) <= limit /\ Len(first) \in Nat
      /\ \A i \in 1..Len(first) : first[i] \in S
      /\ DOMAIN first = 1..Len(first)
      /\ Len(first) < limit => first = best
  <2>1. first \in Seq(S) /\ Len(first) = IF Len(best) < limit THEN Len(best) ELSE limit
    BY <1>5, PrefixIs
  <2>2. Len(first) < limit => first = best
    BY <1>5, PrefixIs
  <2>3. /\ Len(first) \in Nat /\ DOMAIN first = 1..Len(first)
        /\ first \in [1..Len(first) -> S]
    BY <2>1, LenProperties
  <2> HIDE DEF first
  <2> QED
    BY <1>2, <1>5, <2>1, <2>2, <2>3
<1>7. ASSUME NEW x \in S PROVE SearchRow(x) \in Found
  <2>1. x \in Refs \X Nat \X Versions
    BY DEF Searchable, IndexInv, IndexTypeOK
  <2> QED
    BY <2>1 DEF SearchRow, Found
<1> HIDE DEF first
<1>8. s = [i \in 1..Len(first) |-> SearchRow(first[i])]
  BY <1>6 DEF SearchRowsOf
<1>9. s \in [1..Len(first) -> Found]
  BY <1>6, <1>7, <1>8
<1>10. s \in Seq(Found) /\ Len(s) = Len(first)
  BY <1>6, <1>9, ListIsSequence
<1>11. \A i \in 1..Len(s) : s[i] = SearchRow(first[i]) /\ first[i] \in S
  BY <1>6, <1>8, <1>10
<1>12. ASSUME Len(s) < limit, NEW x \in S PROVE \E i \in 1..Len(s) : s[i] = SearchRow(x)
  <2>1. first = best
    BY <1>6, <1>10, <1>12
  <2>2. PICK i \in 1..size : best[i] = x
    BY <1>2
  <2>3. i \in 1..Len(s)
    BY <1>5, <1>10, <2>1
  <2> QED
    BY <1>11, <2>1, <2>2, <2>3
<1> HIDE DEF s
<1>13. s \in Seq(Found) /\ Len(s) <= limit
  BY <1>6, <1>10
<1>14. \A i \in 1..Len(s) : \E x \in S : s[i] = SearchRow(x)
  BY <1>11
<1> QED
  BY <1>12, <1>13, <1>14 DEF s, first, best
LEMMA MatchingIsSearchable ==
    ASSUME NEW Score, NEW excluded
    PROVE  Matching(Score, excluded) \subseteq {x \in Pieces : Searchable(x)}
BY DEF Matching

LEMMA ExactRowsAre ==
    ASSUME IndexInv, NEW excluded
    PROVE  LET s == ExactRows(excluded) IN
           /\ s \in Seq(Found) /\ Len(s) <= CandidateLimit
           /\ \A i \in 1..Len(s) : \E x \in Matching(Keyword, excluded) : s[i] = SearchRow(x)
           /\ Len(s) < CandidateLimit =>
                \A x \in Matching(Keyword, excluded) : \E i \in 1..Len(s) : s[i] = SearchRow(x)
BY SearchRowsAssumption, MatchingIsSearchable, BestRows DEF ExactRows

LEMMA FuzzyRowsAre ==
    ASSUME IndexInv, NEW excluded, NEW found \in Seq(Found), Len(found) < CandidateLimit
    PROVE  LET s == FuzzyRows(found, excluded) IN
           /\ s \in Seq(Found)
           /\ \A i \in 1..Len(s) : \E x \in Matching(Fuzzy, excluded) : s[i] = SearchRow(x)
<1> DEFINE more == {x \in Matching(Fuzzy, excluded) : ~ (x[2] = 0 /\ x[1] \in RefsIn(found))}
           room == CandidateLimit - Len(found)
<1>1. FuzzyRows(found, excluded) = SearchRowsOf(Prefix(BestBy(Fuzzy, more), room))
  BY DEF FuzzyRows
<1>2. room \in Nat /\ Fuzzy \in [Pieces -> Nat]
  BY SearchRowsAssumption, LenProperties
<1>3. more \subseteq Matching(Fuzzy, excluded) /\ more \subseteq {x \in Pieces : Searchable(x)}
  BY MatchingIsSearchable
<1> HIDE DEF more, room
<1>4. LET s == SearchRowsOf(Prefix(BestBy(Fuzzy, more), room)) IN
      s \in Seq(Found) /\ \A i \in 1..Len(s) : \E x \in more : s[i] = SearchRow(x)
  BY <1>2, <1>3, BestRows
<1> QED
  BY <1>1, <1>3, <1>4

\* A row is of an active source that is not left out, with its present content.
LEMMA RowsOfActive ==
    ASSUME IndexInv, NEW Score, NEW excluded, NEW x \in Matching(Score, excluded)
    PROVE  LET found == SearchRow(x) IN
           /\ found.ref = x[1] /\ found.ver = x[3] /\ found.ref \in Refs
           /\ found.ref \notin excluded
           /\ row[found.ref] # Nil /\ row[found.ref].ver = found.ver
<1>1. x \in unit /\ x[1] \notin excluded
  BY DEF Matching, Searchable
<1>2. x[1] \in Refs /\ row[x[1]] # Nil /\ row[x[1]].ver = x[3]
  BY <1>1 DEF IndexInv, IndexTypeOK, UnitsOfTheirRow
<1> QED
  BY <1>1, <1>2 DEF SearchRow

-----------------------------------------------------------------------------
(* What the evidence pack is made of *)

\* Refs in order are those of the set.
LEMMA InOrderIs ==
    ASSUME NEW S \in SUBSET Refs
    PROVE  InOrder(S) \in Seq(S)
<1> DEFINE R == {p \in S \X S : Order[p[1]] < Order[p[2]]}
<1>1. IsFiniteSet(S) /\ \A r \in S : Order[r] \in Nat
  BY SearchRowsAssumption, FS_Subset
<1>2. \A r, s \in S : r # s => Order[r] # Order[s]
  BY SearchRowsAssumption
<1>3. \A r, s \in S : <<r, s>> \in R <=> Order[r] < Order[s]
  OBVIOUS
<1>4. R \subseteq S \X S
  OBVIOUS
<1>5. InOrder(S) = Ordered(S, R)
  BY DEF InOrder
<1> HIDE DEF R
<1>6. Orders(R, S)
  BY <1>1, <1>2, <1>3, <1>4 DEF Orders
<1>7. Cardinality(S) \in Nat /\ Ordered(S, R) \in [1..Cardinality(S) -> S]
  BY <1>1, <1>6, Listed
<1> QED
  BY <1>5, <1>7, ListIsSequence

\* Positions one after another.
LEMMA InTurnIs ==
    ASSUME NEW n \in Nat, NEW S \in SUBSET (1..n)
    PROVE  /\ Cardinality(S) \in Nat
           /\ InTurn(S) \in [1..Cardinality(S) -> S]
           /\ \A i, j \in 1..Cardinality(S) : i # j => InTurn(S)[i] # InTurn(S)[j]
<1> DEFINE R == {p \in S \X S : p[1] < p[2]}
<1>1. IsFiniteSet(S) /\ \A i \in S : i \in Nat
  <2>1. IsFiniteSet(1..n)
    BY FS_Interval
  <2>2. IsFiniteSet(S)
    BY <2>1, FS_Subset
  <2> QED
    BY <2>2
<1>2. \A i, j \in S : <<i, j>> \in R <=> i < j
  OBVIOUS
<1>3. R \subseteq S \X S
  OBVIOUS
<1>4. InTurn(S) = Ordered(S, R)
  BY DEF InTurn
<1> HIDE DEF R
<1>5. Orders(R, S)
  BY <1>1, <1>2, <1>3 DEF Orders
<1> QED
  BY <1>1, <1>4, <1>5, Listed

Item == [ref: VisibleObjects, as: {"entity", "project", "thread"}]

LEMMA AsIs ==
    ASSUME NEW refs \in Seq(VisibleObjects), NEW relation \in {"entity", "project", "thread"}
    PROVE  As(relation, refs) \in Seq(Item)
<1>1. Len(refs) \in Nat /\ refs \in [1..Len(refs) -> VisibleObjects] /\ DOMAIN refs = 1..Len(refs)
  BY LenProperties
<1>2. As(relation, refs) \in [1..Len(refs) -> Item]
  BY <1>1 DEF As, Item
<1> QED
  BY <1>1, <1>2, ListIsSequence

\* A result is related to objects that are visible.
LEMMA RelatedToIs ==
    ASSUME objects \subseteq Refs, NEW r, NEW read
    PROVE  RelatedTo(r, read) \in Seq(Item)
<1>1. VisibleObjects \subseteq Refs
  BY DEF VisibleObjects
<1>2. ASSUME NEW S \in SUBSET VisibleObjects, NEW relation \in {"entity", "project", "thread"}
      PROVE  As(relation, InOrder(S)) \in Seq(Item)
  <2>1. InOrder(S) \in Seq(S) /\ Seq(S) \subseteq Seq(VisibleObjects)
    BY <1>1, InOrderIs, SeqMonotonic
  <2> QED
    BY <2>1, AsIs
<1>3. /\ LinkedObjects(r, read) \subseteq VisibleObjects
      /\ ProjectObject(r) \subseteq VisibleObjects
      /\ ThreadMates(r) \subseteq VisibleObjects
  BY DEF LinkedObjects, VisibleLinks, ProjectObject, ThreadMates
<1>4. /\ As("entity", InOrder(LinkedObjects(r, read))) \in Seq(Item)
      /\ As("project", InOrder(ProjectObject(r))) \in Seq(Item)
      /\ As("thread", InOrder(ThreadMates(r))) \in Seq(Item)
  BY <1>2, <1>3
<1>5. <<>> \in Seq(Item)
  BY EmptySeq
<1>6. As("project", InOrder(ProjectObject(r))) \o As("thread", InOrder(ThreadMates(r))) \in Seq(Item)
  BY <1>4, ConcatProperties
<1> DEFINE rest == IF r \notin VisibleRefs THEN <<>>
                   ELSE As("project", InOrder(ProjectObject(r)))
                        \o As("thread", InOrder(ThreadMates(r)))
<1>7. rest \in Seq(Item)
  BY <1>5, <1>6
<1>8. RelatedTo(r, read) = As("entity", InOrder(LinkedObjects(r, read))) \o rest
  BY DEF RelatedTo
<1> HIDE DEF rest
<1> QED
  BY <1>4, <1>7, <1>8, ConcatProperties

LEMMA RelatedSoFarIs ==
    ASSUME objects \subseteq Refs, rows \in Seq(Found), NEW read
    PROVE  RelatedSoFar(read)[Len(rows)] \in Seq(Item)
<1> DEFINE N == Len(rows)
           Items == Seq(Item)
           none == <<>>
           next == [n \in 1..N |-> [s \in Items |-> s \o RelatedTo(rows[n].ref, read)]]
<1>1. N \in Nat /\ none \in Items
  BY LenProperties, EmptySeq
<1>2. next \in [1..N -> [Items -> Items]]
  <2>1. \A n \in 1..N : RelatedTo(rows[n].ref, read) \in Items
    BY RelatedToIs
  <2>2. \A n \in 1..N, s \in Items : s \o RelatedTo(rows[n].ref, read) \in Items
    BY <2>1, ConcatProperties
  <2> HIDE DEF Items
  <2> QED
    BY <2>2
<1>3. PICK f : Follows(f, N, Items, none, next)
  <2> HIDE DEF N, Items, none, next
  <2> QED
    BY <1>1, <1>2, RecursiveSequence
<1>4. f \in [0..N -> Items] /\ f[0] = none /\ \A n \in 1..N : f[n] = next[n][f[n - 1]]
  BY <1>3 DEF Follows
<1>5. \A n \in 1..N : f[n] = f[n - 1] \o RelatedTo(rows[n].ref, read)
  <2> SUFFICES ASSUME NEW n \in 1..N PROVE f[n] = f[n - 1] \o RelatedTo(rows[n].ref, read)
    OBVIOUS
  <2>1. n - 1 \in 0..N
    BY <1>1
  <2>2. f[n - 1] \in Items
    BY <1>4, <2>1
  <2> HIDE DEF Items
  <2> QED
    BY <1>4, <2>2
<1>6. f = [n \in 0..N |-> IF n = 0 THEN <<>> ELSE f[n - 1] \o RelatedTo(rows[n].ref, read)]
  <2>1. \A n \in 0..N : n # 0 => n \in 1..N
    BY <1>1
  <2> HIDE DEF Items, N, next
  <2> QED
    BY <1>4, <1>5, <2>1
<1>7. RelatedSoFar(read) =
         [n \in 0..N |-> IF n = 0 THEN <<>>
                         ELSE RelatedSoFar(read)[n - 1] \o RelatedTo(rows[n].ref, read)]
  BY <1>6 DEF RelatedSoFar
<1> DEFINE all == RelatedSoFar(read)
           G == {n \in 0..N : all[n] \in Items}
<1> HIDE DEF all, N
<1>8. 0 \in G
  BY <1>1, <1>7 DEF all
<1>9. ASSUME NEW n \in 1..N, n - 1 \in G PROVE n \in G
  <2>1. all[n] = all[n - 1] \o RelatedTo(rows[n].ref, read) /\ n \in 0..N
    BY <1>1, <1>7 DEF all
  <2>2. all[n - 1] \in Items /\ RelatedTo(rows[n].ref, read) \in Items
    BY <1>9, RelatedToIs
  <2>3. all[n] \in Items
    BY <2>1, <2>2, ConcatProperties
  <2> QED
    BY <2>1, <2>3
<1>10. N \in G
  <2>1. \A n \in 1..N : n - 1 \in G => n \in G
    BY <1>9
  <2> HIDE DEF G
  <2>2. \A n \in 0..N : n \in G
    BY <1>1, <1>8, <2>1, BoundedInduction
  <2> QED
    BY <1>1, <2>2
<1> QED
  BY <1>10 DEF all, N

\* The firsts of their refs are members of the sequence, no two of one ref.
LEMMA FirstsAre ==
    ASSUME NEW S, NEW s \in Seq(S)
    PROVE  /\ Firsts(s) \in Seq(S)
           /\ \A i, j \in 1..Len(Firsts(s)) : i # j => Firsts(s)[i].ref # Firsts(s)[j].ref
<1> DEFINE at == {i \in DOMAIN s : \A j \in 1..(i - 1) : s[j].ref # s[i].ref}
           turn == InTurn(at)
           size == Cardinality(at)
<1>1. Len(s) \in Nat /\ s \in [1..Len(s) -> S] /\ DOMAIN s = 1..Len(s)
  BY LenProperties
<1>2. at \in SUBSET (1..Len(s))
  BY <1>1
<1>3. \A i, j \in at : i # j => s[i].ref # s[j].ref
  <2>1. ASSUME NEW i \in at, NEW j \in at, i < j PROVE s[i].ref # s[j].ref
    <3>1. i \in 1..(j - 1)
      BY <1>1, <2>1
    <3> QED
      BY <3>1
  <2>2. \A i, j \in at : i # j => i < j \/ j < i
    BY <1>1
  <2> QED
    BY <2>1, <2>2
<1>4. Firsts(s) = [n \in DOMAIN turn |-> s[turn[n]]]
  BY DEF Firsts
<1> HIDE DEF at
<1>5. /\ size \in Nat /\ turn \in [1..size -> at]
      /\ \A i, j \in 1..size : i # j => turn[i] # turn[j]
  BY <1>1, <1>2, InTurnIs
<1> HIDE DEF turn, size
<1>6. Firsts(s) \in [1..size -> S] /\ \A n \in 1..size : Firsts(s)[n] = s[turn[n]] /\ turn[n] \in at
  <2>1. \A n \in 1..size : turn[n] \in at /\ turn[n] \in 1..Len(s)
    BY <1>2, <1>5
  <2>2. Firsts(s) = [n \in 1..size |-> s[turn[n]]]
    BY <1>4, <1>5
  <2>3. \A n \in 1..size : s[turn[n]] \in S
    BY <1>1, <2>1
  <2> QED
    BY <2>1, <2>2, <2>3
<1>7. Firsts(s) \in Seq(S) /\ Len(Firsts(s)) = size
  BY <1>5, <1>6, ListIsSequence
<1> QED
  BY <1>3, <1>5, <1>6, <1>7

\* Related objects are visible objects, one item each.
LEMMA RelatedObjectsAre ==
    ASSUME objects \subseteq Refs, rows \in Seq(Found), NEW read
    PROVE  LET related == RelatedObjects(read) IN
           /\ DOMAIN related = 1..Len(related) /\ Len(related) \in Nat
           /\ \A i \in DOMAIN related : related[i].ref \in VisibleObjects
           /\ \A i, j \in DOMAIN related : i # j => related[i].ref # related[j].ref
<1> DEFINE all == RelatedSoFar(read)[Len(rows)]
           firsts == Firsts(all)
           related == Prefix(firsts, 5)
<1>1. all \in Seq(Item)
  BY RelatedSoFarIs
<1> HIDE DEF all
<1>2. /\ firsts \in Seq(Item)
      /\ \A i, j \in 1..Len(firsts) : i # j => firsts[i].ref # firsts[j].ref
  BY <1>1, FirstsAre
<1> HIDE DEF firsts
<1>3. /\ related \in Seq(Item)
      /\ \A i \in 1..Len(related) : i \in 1..Len(firsts) /\ related[i] = firsts[i]
  BY <1>2, PrefixIs
<1> HIDE DEF related
<1>4. Len(related) \in Nat /\ related \in [1..Len(related) -> Item] /\ DOMAIN related = 1..Len(related)
  BY <1>3, LenProperties
<1>5. \A i \in DOMAIN related : related[i].ref \in VisibleObjects
  BY <1>4 DEF Item
<1>6. \A i, j \in DOMAIN related : i # j => related[i].ref # related[j].ref
  BY <1>2, <1>3, <1>4
<1> QED
  BY <1>4, <1>5, <1>6 DEF RelatedObjects, related, firsts, all
-----------------------------------------------------------------------------
(* The search *)

SearchTypeOK ==
    /\ pc \in {"idle", "exact", "fuzzy", "audit_search", "audit_access", "records",
               "objects", "links", "answered", "raised"}
    /\ rows \in Seq(Found) /\ objects \subseteq Refs

\* The list of what is denied is right for the sources that were not written
\* since it was read.
DeniedInv ==
    pc \notin {"idle", "raised"} =>
        \A r \in Refs : <<r, "row">> \notin changed =>
            (r \in denied <=> row[r] # Nil /\ ~ Permitted(row[r].ver))

\* What is active now was active at some time since the search began.
LiveInv == pc # "idle" => ActiveRefs \subseteq live

RecordsInv == \A x \in records : x[1] \in live /\ x[1] \notin denied

PackInv == pc # "answered" => pack = NoPack

\* What an unchanged source has to offer and the principal may read.
Offered ==
    {x \in unit : /\ Keyword[x] > 0 /\ MayRead(x[3]) /\ Active(x[1])
                  /\ {<<x[1], "row">>, <<x[1], "unit">>} \intersect changed = {}}

RoomInv ==
    pc \in {"fuzzy", "audit_search"} /\ Len(rows) < CandidateLimit =>
        \A x \in Offered : x[1] \in RefsIn(rows)

EvidenceInv ==
    /\ IndexInv /\ SearchTypeOK /\ DeniedInv /\ LiveInv /\ RecordsInv /\ PackInv /\ RoomInv
    /\ DeniedOnlyWhenChanged /\ PackIsVisible

\* What the pack names beside the results.
Named(some) ==
    some.primary \union some.unresolved
    \union {some.related[i].ref : i \in DOMAIN some.related}
    \union (UNION {{x.entity} \union x.sources : x \in some.entities})
    \union (UNION {some.items[i].entities : i \in DOMAIN some.items})

InOneGroup(some) ==
    \A r \in {some.related[i].ref : i \in DOMAIN some.related} :
        Cardinality({b \in Buckets : r \in some.groups[b]}) <= 1

LEMMA PackIsVisibleParts ==
    PackIsVisible <=> /\ Named(pack) \subseteq live
                      /\ pc = "answered" => Named(pack) \intersect denied = {}
                      /\ InOneGroup(pack)
BY Zenon DEF PackIsVisible, Named, InOneGroup

LEMMA NoPackIsVisible == Named(NoPack) = {} /\ InOneGroup(NoPack)
BY DEF NoPack, Named, InOneGroup

\* The objects, entities and persons of a pack are visible sources.
LEMMA PackNames ==
    ASSUME SearchTypeOK, NEW read
    PROVE  Named(Pack(read)) \subseteq VisibleRefs /\ InOneGroup(Pack(read))
<1> DEFINE related == RelatedObjects(read)
           new == Pack(read)
<1>1. VisibleObjects \subseteq VisibleRefs
  BY DEF VisibleObjects
<1>2. \A r : EntityRefs(r, read) \subseteq VisibleRefs
  BY <1>1 DEF EntityRefs, VisibleLinks
<1>3. \A r : EntityRefs(r, read) # {} => r \in VisibleRefs
  BY DEF EntityRefs, VisibleLinks
<1>4. /\ DOMAIN related = 1..Len(related) /\ Len(related) \in Nat
      /\ \A i \in DOMAIN related : related[i].ref \in VisibleObjects
      /\ \A i, j \in DOMAIN related : i # j => related[i].ref # related[j].ref
  BY RelatedObjectsAre DEF SearchTypeOK
<1>5. /\ new.primary = RefsIn(rows) \intersect VisibleObjects
      /\ new.related = related /\ new.groups = RelatedGroups(related)
      /\ new.entities = Entities(read) /\ new.unresolved = Unresolved
      /\ new.items = [i \in DOMAIN rows |-> EvidenceItem(rows[i], read)]
  BY DEF Pack
<1> HIDE DEF related, new
<1>6. new.primary \subseteq VisibleRefs
  BY <1>1, <1>5
<1>7. new.unresolved \subseteq VisibleRefs
  BY <1>1, <1>5 DEF Unresolved
<1>8. {new.related[i].ref : i \in DOMAIN new.related} \subseteq VisibleRefs
  BY <1>1, <1>4, <1>5
<1>9. UNION {{x.entity} \union x.sources : x \in new.entities} \subseteq VisibleRefs
  <2>1. ASSUME NEW x \in new.entities PROVE x.entity \in VisibleRefs /\ x.sources \subseteq VisibleRefs
    <3> DEFINE names == UNION {EntityRefs(r, read) : r \in RefsIn(rows)}
               sources(e) == {r \in RefsIn(rows) : e \in EntityRefs(r, read)}
    <3>1. new.entities = {[entity |-> e, sources |-> sources(e)] : e \in names}
      BY <1>5 DEF Entities
    <3>2. PICK e \in names : x = [entity |-> e, sources |-> sources(e)]
      BY <3>1
    <3>3. e \in VisibleRefs
      BY <1>2
    <3>4. sources(e) \subseteq VisibleRefs
      BY <1>3
    <3> QED
      BY <3>2, <3>3, <3>4
  <2> QED
    BY <2>1
<1>10. UNION {new.items[i].entities : i \in DOMAIN new.items} \subseteq VisibleRefs
  <2>1. ASSUME NEW i \in DOMAIN rows PROVE new.items[i].entities \subseteq VisibleRefs
    BY <1>2, <1>5 DEF EvidenceItem
  <2> QED
    BY <1>5, <2>1
<1>11. Named(new) \subseteq VisibleRefs
  <2> DEFINE ofRelated == {new.related[i].ref : i \in DOMAIN new.related}
             ofEntities == UNION {{x.entity} \union x.sources : x \in new.entities}
             ofItems == UNION {new.items[i].entities : i \in DOMAIN new.items}
  <2>1. Named(new) = new.primary \union new.unresolved \union ofRelated
                       \union ofEntities \union ofItems
    BY DEF Named
  <2>2. ofRelated \subseteq VisibleRefs /\ ofEntities \subseteq VisibleRefs /\ ofItems \subseteq VisibleRefs
    BY <1>8, <1>9, <1>10
  <2> HIDE DEF ofRelated, ofEntities, ofItems
  <2> QED
    BY <1>6, <1>7, <2>1, <2>2
<1>12. InOneGroup(new)
  <2> SUFFICES ASSUME NEW k \in DOMAIN related
               PROVE  Cardinality({b \in Buckets : related[k].ref \in new.groups[b]}) <= 1
    BY <1>5 DEF InOneGroup
  <2> DEFINE bucket == Bucket(related[k])
             groups == {b \in Buckets : related[k].ref \in new.groups[b]}
  <2>1. ASSUME NEW b \in groups PROVE b = bucket
    <3>1. new.groups[b] = {related[i].ref : i \in {j \in DOMAIN related : Bucket(related[j]) = b}}
      BY <1>5 DEF RelatedGroups
    <3>2. PICK i \in DOMAIN related : Bucket(related[i]) = b /\ related[i].ref = related[k].ref
      BY <3>1
    <3> QED
      BY <1>4, <3>2
  <2> HIDE DEF bucket, groups
  <2>2. groups \subseteq {bucket}
    BY <2>1
  <2>3. IsFiniteSet({bucket}) /\ Cardinality({bucket}) = 1
    BY FS_Singleton
  <2>4. Cardinality(groups) <= 1
    BY <2>2, <2>3, FS_Subset
  <2> QED
    BY <2>4 DEF groups
<1> QED
  BY <1>11, <1>12 DEF new

-----------------------------------------------------------------------------
(* The steps of the search keep the invariant *)

LEMMA EvidenceInit == Init => EvidenceInv
<1> SUFFICES ASSUME Init PROVE EvidenceInv
  OBVIOUS
<1>1. IndexInv
  BY IndexInvInit DEF Init
<1>2. SearchTypeOK
  BY EmptySeq DEF Init, SearchTypeOK
<1>3. DeniedInv /\ LiveInv /\ RecordsInv /\ PackInv /\ RoomInv
  BY DEF Init, DeniedInv, LiveInv, RecordsInv, PackInv, RoomInv
<1>4. DeniedOnlyWhenChanged
  BY DEF Init, DeniedOnlyWhenChanged
<1>5. PackIsVisible
  BY PackIsVisibleParts, NoPackIsVisible DEF Init
<1> QED
  BY <1>1, <1>2, <1>3, <1>4, <1>5 DEF EvidenceInv

\* A statement of the search leaves the tables alone.
LEMMA IndexUnchanged ==
    ASSUME IndexInv, UNCHANGED indexVars
    PROVE  IndexInv'
BY DEF IndexInv, IndexTypeOK, RowsOfTheirRef, UnitsOfTheirRow, RowStored, PiecesOf, indexVars, tables

LEMMA DomainOfRows ==
    ASSUME NEW s \in Seq(Found)
    PROVE  DOMAIN s = 1..Len(s) /\ Len(s) \in Nat
BY LenProperties

\* A row of a piece that is not left out is one the principal may read, unless
\* the row was written.
LEMMA FoundIsPermitted ==
    ASSUME IndexInv, DeniedInv, pc \notin {"idle", "raised"},
           NEW Score, NEW x \in Matching(Score, denied)
    PROVE  MayRead(SearchRow(x).ver) \/ <<SearchRow(x).ref, "row">> \in changed
<1> DEFINE f == SearchRow(x)
<1>1. /\ f.ref \in Refs /\ f.ref \notin denied
      /\ row[f.ref] # Nil /\ row[f.ref].ver = f.ver
  BY RowsOfActive
<1>2. MayRead(f.ver) <=> Permitted(f.ver)
  BY PrincipalHasInherited DEF MayRead, Permitted
<1> HIDE DEF f
<1>3. MayRead(f.ver) \/ <<f.ref, "row">> \in changed
  BY <1>1, <1>2 DEF DeniedInv
<1> QED
  BY <1>3 DEF f

\* What is on offer and not denied is matched.
LEMMA OfferedIsMatched ==
    ASSUME IndexInv, DeniedInv, pc \notin {"idle", "raised"}, NEW x \in Offered
    PROVE  x \in Matching(Keyword, denied)
<1>1. x \in unit /\ Keyword[x] > 0 /\ MayRead(x[3]) /\ Active(x[1]) /\ <<x[1], "row">> \notin changed
  BY DEF Offered
<1>2. x \in PiecesOf(x[3]) /\ row[x[1]].ver = x[3] /\ x[1] \in Refs /\ x[3] \in Versions
  BY <1>1 DEF IndexInv, IndexTypeOK, UnitsOfTheirRow
<1>3. x \in Pieces
  BY <1>2 DEF Pieces
<1>4. Permitted(x[3])
  BY <1>1, PrincipalHasInherited DEF MayRead, Permitted
<1>5. x[1] \notin denied
  BY <1>1, <1>2, <1>4 DEF DeniedInv
<1> QED
  BY <1>1, <1>3, <1>5 DEF Matching, Searchable

LEMMA BeginKeeps == ASSUME EvidenceInv, Begin PROVE EvidenceInv'
<1> USE DEF Begin
<1>1. IndexInv'
  BY IndexUnchanged DEF EvidenceInv
<1>2. SearchTypeOK'
  BY EmptySeq DEF SearchTypeOK
<1>3. row' = row
  BY DEF indexVars, tables
<1>4. DeniedInv'
  <2>1. \A r \in Refs : r \in DeniedNow <=> row[r] # Nil /\ ~ Permitted(row[r].ver)
    BY DEF DeniedNow
  <2>2. \A v : Permitted(v)' <=> Permitted(v)
    BY DEF Permitted
  <2> QED
    BY <1>3, <2>1, <2>2 DEF DeniedInv
<1>5. LiveInv'
  BY <1>3 DEF LiveInv, ActiveRefs, Active
<1>6. RecordsInv' /\ PackInv' /\ RoomInv'
  BY DEF RecordsInv, PackInv, RoomInv
<1>7. DeniedOnlyWhenChanged'
  BY DEF DeniedOnlyWhenChanged
<1>8. PackIsVisible'
  <2>1. Named(pack') = {} /\ InOneGroup(pack') /\ pc' # "answered"
    BY NoPackIsVisible
  <2>2. PackIsVisible' <=> /\ Named(pack') \subseteq live'
                           /\ pc' = "answered" => Named(pack') \intersect denied' = {}
                           /\ InOneGroup(pack')
    BY Zenon DEF PackIsVisible, Named, InOneGroup
  <2> QED
    BY <2>1, <2>2
<1> QED
  BY <1>1, <1>2, <1>4, <1>5, <1>6, <1>7, <1>8 DEF EvidenceInv

LEMMA NamedIsVisible ==
    PackIsVisible' <=> /\ Named(pack') \subseteq live'
                       /\ pc' = "answered" => Named(pack') \intersect denied' = {}
                       /\ InOneGroup(pack')
BY Zenon DEF PackIsVisible, Named, InOneGroup

\* Between its first and its last statement a search has no pack yet.
LEMMA StatementKeeps ==
    ASSUME EvidenceInv, UNCHANGED <<indexVars, pack, live, changed>>,
           pc \notin {"idle", "answered", "raised"}, pc' \notin {"idle", "answered"},
           denied' = denied \/ pc' = "raised"
    PROVE  IndexInv' /\ DeniedInv' /\ LiveInv' /\ PackInv' /\ PackIsVisible'
<1>1. IndexInv'
  BY IndexUnchanged DEF EvidenceInv
<1>2. row' = row
  BY DEF indexVars, tables
<1>3. DeniedInv'
  <2>1. \A v : Permitted(v)' <=> Permitted(v)
    BY DEF Permitted
  <2> QED
    BY <1>2, <2>1 DEF EvidenceInv, DeniedInv
<1>4. LiveInv'
  BY <1>2 DEF EvidenceInv, LiveInv, ActiveRefs, Active
<1>5. pack' = NoPack /\ PackInv'
  BY DEF EvidenceInv, PackInv
<1>6. PackIsVisible'
  BY <1>5, NoPackIsVisible, NamedIsVisible
<1> QED
  BY <1>1, <1>3, <1>4, <1>5, <1>6

LEMMA SearchExactKeeps == ASSUME EvidenceInv, SearchExact PROVE EvidenceInv'
<1> USE DEF SearchExact, Goto
<1>1. IndexInv' /\ DeniedInv' /\ LiveInv' /\ PackInv' /\ PackIsVisible'
  BY StatementKeeps
<1>2. IndexInv /\ DeniedInv /\ SearchTypeOK
  BY DEF EvidenceInv
<1>3. /\ rows' \in Seq(Found) /\ Len(rows') <= CandidateLimit
      /\ \A i \in 1..Len(rows') : \E x \in Matching(Keyword, denied) : rows'[i] = SearchRow(x)
      /\ Len(rows') < CandidateLimit =>
           \A x \in Matching(Keyword, denied) : \E i \in 1..Len(rows') : rows'[i] = SearchRow(x)
  BY <1>2, ExactRowsAre
<1>4. DOMAIN rows' = 1..Len(rows')
  BY <1>3, DomainOfRows
<1>5. SearchTypeOK'
  BY <1>2, <1>3 DEF SearchTypeOK
<1>6. RecordsInv'
  BY DEF EvidenceInv, RecordsInv
<1>7. RoomInv'
  <2> SUFFICES ASSUME Len(rows') < CandidateLimit, NEW x \in Offered'
               PROVE  x[1] \in RefsIn(rows)'
    BY DEF RoomInv
  <2>1. x \in Offered
    BY DEF Offered, indexVars, tables, Active, MayRead, Inherited, Roles
  <2>2. x \in Matching(Keyword, denied)
    BY <1>2, <2>1, OfferedIsMatched
  <2>3. PICK i \in 1..Len(rows') : rows'[i] = SearchRow(x)
    BY <1>3, <2>2
  <2>4. rows'[i].ref = x[1]
    BY <2>3 DEF SearchRow
  <2> QED
    BY <1>4, <2>4 DEF RefsIn
<1>8. DeniedOnlyWhenChanged'
  <2> SUFFICES ASSUME NEW i \in 1..Len(rows')
               PROVE  MayRead(rows'[i].ver) \/ <<rows'[i].ref, "row">> \in changed
    BY <1>4 DEF DeniedOnlyWhenChanged, MayRead, Inherited, Roles
  <2>1. PICK x \in Matching(Keyword, denied) : rows'[i] = SearchRow(x)
    BY <1>3
  <2> QED
    BY <1>2, <2>1, FoundIsPermitted
<1> QED
  BY <1>1, <1>5, <1>6, <1>7, <1>8 DEF EvidenceInv

LEMMA SearchFuzzyKeeps == ASSUME EvidenceInv, SearchFuzzy PROVE EvidenceInv'
<1> USE DEF SearchFuzzy, Goto
<1>1. IndexInv' /\ DeniedInv' /\ LiveInv' /\ PackInv' /\ PackIsVisible'
  BY StatementKeeps
<1>2. IndexInv /\ DeniedInv /\ SearchTypeOK /\ rows \in Seq(Found) /\ CandidateLimit \in Nat
  BY SearchRowsAssumption DEF EvidenceInv, SearchTypeOK
<1>3. RecordsInv'
  BY DEF EvidenceInv, RecordsInv
<1>4. Offered' = Offered
  BY DEF Offered, indexVars, tables, Active, MayRead, Inherited, Roles
<1>5. DOMAIN rows = 1..Len(rows) /\ Len(rows) \in Nat
  BY <1>2, DomainOfRows
<1>6. CASE Len(rows) >= CandidateLimit
  <2>1. rows' = rows
    BY <1>6
  <2>2. SearchTypeOK'
    BY <1>2, <2>1 DEF SearchTypeOK
  <2>3. RoomInv'
    BY <1>2, <1>5, <1>6, <2>1 DEF RoomInv
  <2>4. DeniedOnlyWhenChanged'
    BY <2>1 DEF EvidenceInv, DeniedOnlyWhenChanged, MayRead, Inherited, Roles
  <2> QED
    BY <1>1, <1>3, <2>2, <2>3, <2>4 DEF EvidenceInv
<1>7. CASE ~ (Len(rows) >= CandidateLimit)
  <2> DEFINE more == FuzzyRows(rows, denied)
  <2>0. Len(rows) < CandidateLimit
    BY <1>2, <1>5, <1>7
  <2>1. rows' = rows \o more
    BY <1>7
  <2>2. /\ more \in Seq(Found)
        /\ \A i \in 1..Len(more) : \E x \in Matching(Fuzzy, denied) : more[i] = SearchRow(x)
    BY <1>2, <2>0, FuzzyRowsAre
  <2> HIDE DEF more
  <2>3. /\ rows' \in Seq(Found) /\ Len(rows') = Len(rows) + Len(more)
        /\ \A i \in 1..Len(rows) + Len(more) :
             rows'[i] = IF i <= Len(rows) THEN rows[i] ELSE more[i - Len(rows)]
    <3>1. /\ rows \o more \in Seq(Found) /\ Len(rows \o more) = Len(rows) + Len(more)
          /\ \A i \in 1..Len(rows) + Len(more) :
               (rows \o more)[i] = IF i <= Len(rows) THEN rows[i] ELSE more[i - Len(rows)]
      BY <1>2, <2>2, ConcatProperties
    <3> QED
      BY <2>1, <3>1
  <2>4. DOMAIN rows' = 1..Len(rows') /\ Len(more) \in Nat
    BY <2>2, <2>3, DomainOfRows
  <2>5. SearchTypeOK'
    BY <1>2, <2>3 DEF SearchTypeOK
  <2>6. \A i \in 1..Len(rows) : i \in DOMAIN rows' /\ rows'[i] = rows[i]
    BY <1>5, <2>3, <2>4
  <2>7. RoomInv'
    <3>1. RefsIn(rows) \subseteq RefsIn(rows)'
      BY <1>5, <2>6 DEF RefsIn
    <3>2. \A x \in Offered : x[1] \in RefsIn(rows)
      BY <2>0 DEF EvidenceInv, RoomInv
    <3> QED
      BY <1>4, <3>1, <3>2 DEF RoomInv
  <2>8. DeniedOnlyWhenChanged'
    <3> SUFFICES ASSUME NEW i \in 1..Len(rows')
                 PROVE  MayRead(rows'[i].ver) \/ <<rows'[i].ref, "row">> \in changed
      BY <2>4 DEF DeniedOnlyWhenChanged, MayRead, Inherited, Roles
    <3>1. CASE i <= Len(rows)
      <4>1. i \in DOMAIN rows /\ rows'[i] = rows[i]
        BY <1>5, <2>6, <3>1
      <4> QED
        BY <4>1 DEF EvidenceInv, DeniedOnlyWhenChanged
    <3>2. CASE ~ (i <= Len(rows))
      <4>1. i - Len(rows) \in 1..Len(more) /\ rows'[i] = more[i - Len(rows)]
        BY <1>5, <2>3, <2>4, <3>2
      <4>2. PICK x \in Matching(Fuzzy, denied) : rows'[i] = SearchRow(x)
        BY <2>2, <4>1
      <4> QED
        BY <1>2, <4>2, FoundIsPermitted
    <3> QED
      BY <3>1, <3>2
  <2> QED
    BY <1>1, <1>3, <2>5, <2>7, <2>8 DEF EvidenceInv
<1> QED
  BY <1>6, <1>7

\* The rows and what was on offer stay.
LEMMA RowsKept ==
    ASSUME EvidenceInv, UNCHANGED <<rows, changed>>
    PROVE  DeniedOnlyWhenChanged'
BY DEF EvidenceInv, DeniedOnlyWhenChanged, MayRead, Inherited, Roles

LEMMA AuditKeeps == ASSUME EvidenceInv, AuditSearch \/ AuditAccess PROVE EvidenceInv'
<1> USE DEF AuditSearch, AuditAccess, Goto
<1>1. IndexInv' /\ DeniedInv' /\ LiveInv' /\ PackInv' /\ PackIsVisible'
  BY StatementKeeps
<1>2. SearchTypeOK' /\ RecordsInv' /\ RoomInv'
  BY DEF EvidenceInv, SearchTypeOK, RecordsInv, RoomInv
<1> QED
  BY <1>1, <1>2, RowsKept DEF EvidenceInv

LEMMA ReadRecordsKeeps == ASSUME EvidenceInv, ReadRecords PROVE EvidenceInv'
<1> USE DEF ReadRecords, Goto
<1>1. IndexInv' /\ DeniedInv' /\ LiveInv' /\ PackInv' /\ PackIsVisible'
  BY StatementKeeps
<1>2. SearchTypeOK' /\ RoomInv'
  BY DEF EvidenceInv, SearchTypeOK, RoomInv
<1>3. RecordsInv'
  BY DEF EvidenceInv, LiveInv, RecordsInv
<1> QED
  BY <1>1, <1>2, <1>3, RowsKept DEF EvidenceInv

LEMMA ReadObjectsKeeps == ASSUME EvidenceInv, ReadObjects PROVE EvidenceInv'
<1> USE DEF ReadObjects, Goto
<1>1. IndexInv' /\ DeniedInv' /\ LiveInv' /\ PackInv' /\ PackIsVisible'
  BY StatementKeeps
<1>2. SearchTypeOK' /\ RecordsInv' /\ RoomInv'
  BY DEF EvidenceInv, IndexInv, IndexTypeOK, SearchTypeOK, RecordsInv, RoomInv
<1> QED
  BY <1>1, <1>2, RowsKept DEF EvidenceInv

LEMMA BuildPackKeeps == ASSUME EvidenceInv, BuildPack PROVE EvidenceInv'
<1> USE DEF BuildPack, Goto
<1>1. IndexInv'
  BY IndexUnchanged DEF EvidenceInv
<1>2. row' = row
  BY DEF indexVars, tables
<1>3. DeniedInv'
  <2>1. \A v : Permitted(v)' <=> Permitted(v)
    BY DEF Permitted
  <2> QED
    BY <1>2, <2>1 DEF EvidenceInv, DeniedInv
<1>4. LiveInv'
  BY <1>2 DEF EvidenceInv, LiveInv, ActiveRefs, Active
<1>5. SearchTypeOK' /\ RecordsInv' /\ PackInv' /\ RoomInv'
  BY DEF EvidenceInv, SearchTypeOK, RecordsInv, PackInv, RoomInv
<1>6. PackIsVisible'
  <2>1. Named(Pack(links)) \subseteq VisibleRefs /\ InOneGroup(Pack(links))
    BY PackNames DEF EvidenceInv
  <2>2. VisibleRefs \subseteq live /\ VisibleRefs \intersect denied = {}
    BY DEF EvidenceInv, RecordsInv, VisibleRefs
  <2>3. pack' = Pack(links) /\ live' = live /\ denied' = denied
    OBVIOUS
  <2> QED
    BY <2>1, <2>2, <2>3, NamedIsVisible
<1> QED
  BY <1>1, <1>3, <1>4, <1>5, <1>6, RowsKept DEF EvidenceInv

LEMMA RaiseKeeps == ASSUME EvidenceInv, Raise PROVE EvidenceInv'
<1> USE DEF Raise
<1>1. IndexInv' /\ DeniedInv' /\ LiveInv' /\ PackInv' /\ PackIsVisible'
  BY StatementKeeps
<1>2. SearchTypeOK' /\ RecordsInv' /\ RoomInv' /\ DeniedOnlyWhenChanged'
  BY EmptySeq DEF SearchTypeOK, RecordsInv, RoomInv, DeniedOnlyWhenChanged
<1> QED
  BY <1>1, <1>2 DEF EvidenceInv

\* A commit of a writer during a search.
LEMMA WriteKeeps == ASSUME EvidenceInv, Write PROVE EvidenceInv'
<1> USE DEF Write
<1>1. IndexInv'
  BY IndexInvStep DEF EvidenceInv
<1>2. SearchTypeOK' /\ PackInv'
  BY DEF EvidenceInv, SearchTypeOK, PackInv
<1>3. live \subseteq live' /\ changed \subseteq changed'
  OBVIOUS
<1>4. \A r \in Refs : <<r, "row">> \notin changed' => <<r, "row">> \notin changed /\ row'[r] = row[r]
  <2> SUFFICES ASSUME NEW r \in Refs, row'[r] # row[r] PROVE <<r, "row">> \in changed'
    BY <1>3
  <2>1. r \in {s \in Refs : row'[s] # row[s]}
    OBVIOUS
  <2> QED
    BY <2>1
<1>5. ASSUME NEW x \in unit', <<x[1], "unit">> \notin changed' PROVE x \in unit
  <2>1. x \notin unit => <<x[1], "unit">> \in changed'
    BY <1>5
  <2> QED
    BY <1>5, <2>1
<1>6. DeniedInv'
  <2>1. \A v : Permitted(v)' <=> Permitted(v)
    BY DEF Permitted
  <2> QED
    BY <1>4, <2>1 DEF EvidenceInv, DeniedInv
<1>7. LiveInv'
  BY DEF LiveInv, ActiveRefs, Active
<1>8. RecordsInv'
  BY <1>3 DEF EvidenceInv, RecordsInv
<1>9. Offered' \subseteq Offered
  <2> SUFFICES ASSUME NEW x \in Offered' PROVE x \in Offered
    OBVIOUS
  <2>1. /\ x \in unit' /\ Keyword[x] > 0 /\ MayRead(x[3])
        /\ row'[x[1]] # Nil /\ row'[x[1]].life = "active"
        /\ <<x[1], "row">> \notin changed' /\ <<x[1], "unit">> \notin changed'
    BY DEF Offered, Active, MayRead, Inherited, Roles
  <2>2. x \in unit
    BY <1>5, <2>1
  <2>3. x[1] \in Refs
    BY <2>2 DEF EvidenceInv, IndexInv, IndexTypeOK
  <2>4. row'[x[1]] = row[x[1]]
    BY <1>4, <2>1, <2>3
  <2> QED
    BY <1>3, <2>1, <2>2, <2>4 DEF Offered, Active
<1>10. RoomInv'
  BY <1>9 DEF EvidenceInv, RoomInv, RefsIn
<1>11. DeniedOnlyWhenChanged'
  BY <1>3 DEF EvidenceInv, DeniedOnlyWhenChanged, MayRead, Inherited, Roles
<1>12. PackIsVisible'
  <2>1. /\ Named(pack) \subseteq live
        /\ pc = "answered" => Named(pack) \intersect denied = {}
        /\ InOneGroup(pack)
    BY PackIsVisibleParts DEF EvidenceInv
  <2>2. pack' = pack /\ pc' = pc /\ denied' = denied
    OBVIOUS
  <2> QED
    BY <1>3, <2>1, <2>2, NamedIsVisible
<1> QED
  BY <1>1, <1>2, <1>6, <1>7, <1>8, <1>10, <1>11, <1>12 DEF EvidenceInv

LEMMA EvidenceStep == ASSUME EvidenceInv, [Next]_vars PROVE EvidenceInv'
<1>1. CASE UNCHANGED vars
  <2>1. IndexInv'
    BY <1>1, IndexUnchanged DEF EvidenceInv, vars
  <2>2. \A v : Permitted(v)' <=> Permitted(v)
    BY DEF Permitted
  <2>3. (SearchTypeOK /\ DeniedInv /\ LiveInv /\ RecordsInv /\ PackInv)'
    BY <1>1, <2>2 DEF vars, indexVars, tables, searchVars, EvidenceInv, SearchTypeOK, DeniedInv,
                      LiveInv, RecordsInv, PackInv, ActiveRefs, Active
  <2>4. RoomInv'
    <3>1. Offered' = Offered /\ RefsIn(rows)' = RefsIn(rows)
      BY <1>1 DEF vars, indexVars, tables, searchVars, Offered, Active, MayRead, Inherited, Roles, RefsIn
    <3> QED
      BY <1>1, <3>1 DEF vars, searchVars, EvidenceInv, RoomInv
  <2>5. DeniedOnlyWhenChanged'
    BY <1>1, RowsKept DEF vars, searchVars
  <2>6. PackIsVisible'
    BY <1>1, PackIsVisibleParts, NamedIsVisible DEF vars, searchVars, EvidenceInv
  <2> QED
    BY <2>1, <2>3, <2>4, <2>5, <2>6 DEF EvidenceInv
<1> QED
  BY <1>1, BeginKeeps, SearchExactKeeps, SearchFuzzyKeeps, AuditKeeps, ReadRecordsKeeps,
     ReadObjectsKeeps, BuildPackKeeps, RaiseKeeps, WriteKeeps DEF Next

LEMMA EvidenceAlways == Spec => []EvidenceInv
BY EvidenceInit, EvidenceStep, PTL DEF Spec

\* The evidence pack names nothing that the principal was denied or that was not
\* active while the search ran, and no related object in two groups.
THEOREM PacksAreVisible == Spec => []PackIsVisible
<1>1. EvidenceInv => PackIsVisible
  BY DEF EvidenceInv
<1> QED
  BY <1>1, EvidenceAlways, PTL

\* A result the principal may not see was written after the permissions were
\* read: the fuzzy statement leaves out what the exact one leaves out.
THEOREM DenialsHold == Spec => []DeniedOnlyWhenChanged
<1>1. EvidenceInv => DeniedOnlyWhenChanged
  BY DEF EvidenceInv
<1> QED
  BY <1>1, EvidenceAlways, PTL

\* A search that has room left has found all that was on offer.
THEOREM PermittedIsFound == Spec => []FoundWhenPermitted
<1>1. EvidenceInv => FoundWhenPermitted
  BY DEF EvidenceInv, RoomInv, Offered, FoundWhenPermitted
<1> QED
  BY <1>1, EvidenceAlways, PTL
=============================================================================
