------------------------- MODULE AugmentationProofs -------------------------
(***************************************************************************)
(* What holds of a retrieval for every set of sources, contents, words and *)
(* budgets, over an index that is written meanwhile.  The lemmas on lists  *)
(* and on the index are those of EvidenceSearchProofs, about the variables *)
(* of Augmentation.                                                        *)
(***************************************************************************)
EXTENDS Augmentation, FiniteSetTheorems, SequenceTheorems, NaturalsInduction,
        WellFoundedInduction, TLAPS

-----------------------------------------------------------------------------
(* Induction up to a bound, and functions defined by it *)

\* What holds of 0 and, up to N, of a number if of the one before it, holds of
\* all of them.
LEMMA BoundedInduction ==
    ASSUME NEW N \in Nat, NEW G, 0 \in G, \A n \in 1..N : n - 1 \in G => n \in G
    PROVE  \A n \in 0..N : n \in G
<1> SUFFICES ASSUME NEW bad \in 0..N, bad \notin G PROVE FALSE
  OBVIOUS
<1> DEFINE less == {ss \in Nat \X Nat : ss[1] < ss[2]}
           missing == {n \in 0..N : n \notin G}
<1>1. IsWellFoundedOn(less, Nat)
  BY NatLessThanWellFounded DEF OpToRel
<1>2. missing \subseteq Nat /\ bad \in missing
  OBVIOUS
<1>3. PICK m \in missing : \A n \in missing : ~ (<<n, m>> \in less)
  BY <1>1, <1>2, WFMin
<1>4. \A n \in missing : ~ (n < m)
  BY <1>2, <1>3
<1>5. m \in 1..N /\ m - 1 \in 0..N /\ m - 1 < m
  BY <1>3
<1> QED
  BY <1>3, <1>4, <1>5

\* f begins with s0 and goes on by the step function F.
Follows(f, N, S, s0, F) ==
    /\ f \in [0..N -> S] /\ f[0] = s0
    /\ \A n \in 1..N : f[n] = F[n][f[n - 1]]

LEMMA RecursiveSequence ==
    ASSUME NEW N \in Nat, NEW S, NEW s0 \in S, NEW F \in [1..N -> [S -> S]]
    PROVE  \E f : Follows(f, N, S, s0, F)
<1> DEFINE G == {n \in 0..N : \E f : Follows(f, n, S, s0, F)}
<1>1. 0 \in G
  <2>1. Follows([m \in 0..0 |-> s0], 0, S, s0, F)
    BY DEF Follows
  <2>2. \E f : Follows(f, 0, S, s0, F)
    BY <2>1
  <2> QED
    BY <2>2
<1>2. ASSUME NEW n \in 1..N, n - 1 \in G PROVE n \in G
  <2>1. PICK f : Follows(f, n - 1, S, s0, F)
    BY <1>2
  <2> DEFINE g == [m \in 0..n |-> IF m = n THEN F[n][f[n - 1]] ELSE f[m]]
  <2>2. n - 1 \in 0..(n - 1) /\ f[n - 1] \in S
    BY <2>1 DEF Follows
  <2>3. F[n][f[n - 1]] \in S
    BY <2>2
  <2>4. \A m \in 0..(n - 1) : g[m] = f[m]
    OBVIOUS
  <2>5. g \in [0..n -> S]
    <3>1. ASSUME NEW m \in 0..n PROVE g[m] \in S
      <4>1. CASE m = n
        BY <2>3, <4>1
      <4>2. CASE m # n
        BY <2>1, <4>2 DEF Follows
      <4> QED
        BY <4>1, <4>2
    <3> QED
      BY <3>1
  <2>6. g[0] = s0
    BY <2>1 DEF Follows
  <2>7. ASSUME NEW m \in 1..n PROVE g[m] = F[m][g[m - 1]]
    <3>1. g[m - 1] = f[m - 1]
      BY <2>4
    <3>2. CASE m = n
      BY <3>1, <3>2
    <3>3. CASE m # n
      <4>1. m \in 1..(n - 1) /\ m \in 0..(n - 1)
        BY <3>3
      <4>2. g[m] = f[m] /\ f[m] = F[m][f[m - 1]]
        BY <2>1, <2>4, <4>1 DEF Follows
      <4> QED
        BY <3>1, <4>2
    <3> QED
      BY <3>2, <3>3
  <2> HIDE DEF g
  <2>8. Follows(g, n, S, s0, F)
    BY <2>5, <2>6, <2>7 DEF Follows
  <2> QED
    BY <2>8
<1>3. N \in G
  <2>1. \A n \in 1..N : n - 1 \in G => n \in G
    BY <1>2
  <2> HIDE DEF G
  <2>2. \A n \in 0..N : n \in G
    BY <1>1, <2>1, BoundedInduction
  <2> QED
    BY <2>2
<1> QED
  BY <1>3 DEF G

-----------------------------------------------------------------------------
(* Sets in an order *)

\* R is a strict total order on S.
Orders(R, S) ==
    /\ R \subseteq S \X S
    /\ \A x \in S : <<x, x>> \notin R
    /\ \A x, y, z \in S : <<x, y>> \in R /\ <<y, z>> \in R => <<x, z>> \in R
    /\ \A x, y \in S : x # y => <<x, y>> \in R \/ <<y, x>> \in R

Below(S, R, x) == {y \in S : <<y, x>> \in R}

\* The elements of a finite set have the ranks from 0 on, one each.
LEMMA Ranks ==
    ASSUME NEW S, IsFiniteSet(S), NEW R, Orders(R, S)
    PROVE  /\ Cardinality(S) \in Nat
           /\ \A x \in S : Cardinality(Below(S, R, x)) \in 0..(Cardinality(S) - 1)
           /\ \A x, y \in S : <<x, y>> \in R =>
                Cardinality(Below(S, R, x)) < Cardinality(Below(S, R, y))
           /\ \A i \in 0..(Cardinality(S) - 1) :
                \E x \in S : Cardinality(Below(S, R, x)) = i
<1> DEFINE rank == [x \in S |-> Cardinality(Below(S, R, x))]
           size == Cardinality(S)
<1>1. size \in Nat
  BY FS_CardinalityType
<1>2. ASSUME NEW x \in S
      PROVE  /\ IsFiniteSet(Below(S, R, x)) /\ rank[x] \in Nat /\ rank[x] < size
  <2>1. Below(S, R, x) \subseteq S /\ x \notin Below(S, R, x)
    BY DEF Below, Orders
  <2>2. IsFiniteSet(Below(S, R, x)) /\ Cardinality(Below(S, R, x)) <= size
    BY <2>1, FS_Subset
  <2>3. Cardinality(Below(S, R, x)) # size
    BY <2>1, FS_Subset
  <2>4. Cardinality(Below(S, R, x)) \in Nat
    BY <2>2, FS_CardinalityType
  <2> QED
    BY <1>1, <2>2, <2>3, <2>4
<1>3. ASSUME NEW x \in S, NEW y \in S, <<x, y>> \in R PROVE rank[x] < rank[y]
  <2>1. Below(S, R, x) \subseteq Below(S, R, y)
    BY <1>3 DEF Below, Orders
  <2>2. x \in Below(S, R, y) /\ x \notin Below(S, R, x)
    BY <1>3 DEF Below, Orders
  <2>3. /\ Cardinality(Below(S, R, x)) <= Cardinality(Below(S, R, y))
        /\ Cardinality(Below(S, R, x)) # Cardinality(Below(S, R, y))
    BY <1>2, <2>1, <2>2, FS_Subset
  <2> QED
    BY <1>2, <2>3
<1>4. \A x \in S : rank[x] \in 0..(size - 1)
  BY <1>1, <1>2
<1> DEFINE taken == {rank[x] : x \in S}
<1>5. rank \in [S -> taken]
  OBVIOUS
<1> HIDE DEF rank, size
<1>6. \A x, y \in S : rank[x] = rank[y] => x = y
  <2> SUFFICES ASSUME NEW x \in S, NEW y \in S, rank[x] = rank[y], x # y PROVE FALSE
    OBVIOUS
  <2>1. <<x, y>> \in R \/ <<y, x>> \in R
    BY DEF Orders
  <2> QED
    BY <1>3, <1>4, <2>1
<1>7. rank \in Injection(S, taken)
  BY <1>5, <1>6 DEF Injection, IsInjective
<1>8. rank \in Surjection(S, taken)
  BY <1>5 DEF Surjection
<1>9. IsFiniteSet(taken) /\ Cardinality(taken) = size
  BY <1>7, <1>8, FS_Surjection DEF size
<1>10. IsFiniteSet(0..(size - 1)) /\ Cardinality(0..(size - 1)) = size
  BY <1>1, FS_Interval
<1>11. taken \subseteq 0..(size - 1)
  BY <1>4
<1>12. taken = 0..(size - 1)
  <2> HIDE DEF taken
  <2> QED
    BY <1>9, <1>10, <1>11, FS_Subset
<1>13. \A i \in 0..(size - 1) : \E x \in S : rank[x] = i
  BY <1>12
<1> QED
  BY <1>1, <1>3, <1>4, <1>13 DEF rank, size

\* A listing has every element of the set once, in the order.
LEMMA Listed ==
    ASSUME NEW S, IsFiniteSet(S), NEW R, Orders(R, S)
    PROVE  /\ Cardinality(S) \in Nat
           /\ Ordered(S, R) \in [1..Cardinality(S) -> S]
           /\ \A i, j \in 1..Cardinality(S) : Ordered(S, R)[i] = Ordered(S, R)[j] => i = j
           /\ \A x \in S : \E i \in 1..Cardinality(S) : Ordered(S, R)[i] = x
           /\ \A i, j \in 1..Cardinality(S) :
                i < j => <<Ordered(S, R)[i], Ordered(S, R)[j]>> \in R
<1> DEFINE rank(x) == Cardinality(Below(S, R, x))
           size == Cardinality(S)
           list == Ordered(S, R)
<1>1. /\ size \in Nat /\ \A x \in S : rank(x) \in 0..(size - 1)
      /\ \A x, y \in S : <<x, y>> \in R => rank(x) < rank(y)
      /\ \A i \in 0..(size - 1) : \E x \in S : rank(x) = i
  BY Ranks
<1>2. ASSUME NEW i \in 1..size PROVE list[i] \in S /\ rank(list[i]) = i - 1
  <2>1. list[i] = CHOOSE x \in S : rank(x) = i - 1
    BY <1>2 DEF Ordered, Below
  <2>2. i - 1 \in 0..(size - 1)
    BY <1>1
  <2>3. \E x \in S : rank(x) = i - 1
    BY <1>1, <2>2
  <2> QED
    BY <2>1, <2>3
<1>3. list \in [1..size -> S]
  <2> DEFINE nth(i) == CHOOSE x \in S : rank(x) = i - 1
  <2>1. list = [i \in 1..size |-> nth(i)]
    BY DEF Ordered, Below
  <2>2. \A i \in 1..size : list[i] = nth(i)
    BY <2>1
  <2> HIDE DEF list, nth
  <2> QED
    BY <1>2, <2>1, <2>2
<1>4. \A x, y \in S : rank(x) = rank(y) => x = y
  <2> SUFFICES ASSUME NEW x \in S, NEW y \in S, rank(x) = rank(y), x # y PROVE FALSE
    OBVIOUS
  <2>1. <<x, y>> \in R \/ <<y, x>> \in R
    BY DEF Orders
  <2>2. rank(x) \in Nat /\ rank(y) \in Nat /\ (rank(x) < rank(y) \/ rank(y) < rank(x))
    BY <1>1, <2>1
  <2> QED
    BY <2>2
<1> HIDE DEF rank, size, list
<1>5. \A i, j \in 1..size : list[i] = list[j] => i = j
  BY <1>1, <1>2
<1>6. ASSUME NEW x \in S PROVE \E i \in 1..size : list[i] = x
  <2>1. rank(x) + 1 \in 1..size
    BY <1>1
  <2>2. list[rank(x) + 1] \in S /\ rank(list[rank(x) + 1]) = rank(x)
    BY <1>1, <1>2, <2>1
  <2> QED
    BY <1>4, <2>1, <2>2
<1>7. ASSUME NEW i \in 1..size, NEW j \in 1..size, i < j PROVE <<list[i], list[j]>> \in R
  <2>1. rank(list[i]) < rank(list[j]) /\ list[i] \in S /\ list[j] \in S
    BY <1>1, <1>2, <1>7
  <2>2. list[i] # list[j]
    BY <1>1, <2>1
  <2>3. <<list[i], list[j]>> \in R \/ <<list[j], list[i]>> \in R
    BY <2>1, <2>2 DEF Orders
  <2>4. ~ (rank(list[j]) < rank(list[i]))
    BY <1>1, <2>1
  <2> QED
    BY <1>1, <2>1, <2>3, <2>4
<1> QED
  BY <1>1, <1>2, <1>3, <1>5, <1>6, <1>7 DEF size, list

-----------------------------------------------------------------------------
(* The tables the search reads *)

Piece == Refs \X Nat \X Versions
Rows == [Refs -> Row \union {Nil}]

\* A row holds a content of its source.
RowsOfTheirRef(some) == \A r \in Refs : some[r] # Nil => RefOf[some[r].ver] = r

\* A unit is a piece of the content in the row of its source.
UnitsOfTheirRow ==
    \A x \in unit : row[x[1]] # Nil /\ row[x[1]].ver = x[3] /\ x \in PiecesOf(x[3])

\* Past its first commit an application finds its content in the row.
RowStored ==
    storing # Nil /\ storing.step # "row" =>
        LET r == RefOf[storing.ver] IN row[r] # Nil /\ row[r].ver = storing.ver

\* Vectors are pieces, and those of a source of one content.
OneContent(S) == \A x, y \in S : x[1] = y[1] => x[3] = y[3]
VectorsOfOneContent == OneContent(vec) /\ \A x \in vec : x \in PiecesOf(x[3])

IndexInv ==
    /\ IndexTypeOK /\ RowsOfTheirRef(row) /\ UnitsOfTheirRow /\ RowStored
    /\ VectorsOfOneContent

\* The pieces a content is cut into are pieces of its source.
LEMMA PiecesType ==
    ASSUME NEW v \in Versions
    PROVE  PiecesOf(v) \subseteq Piece /\ \A x \in PiecesOf(v) : x[1] = RefOf[v] /\ x[3] = v
BY ServingIndexAssumption DEF PiecesOf, Piece

\* A row whose state is overwritten keeps its type and its content.
LEMMA OverwrittenRow ==
    ASSUME NEW table \in Rows, RowsOfTheirRef(table), NEW r \in Refs, NEW life \in {"active", "inactive"}
    PROVE  LET new == [table EXCEPT ![r] = IF @ = Nil THEN Nil ELSE [@ EXCEPT !.life = life]]
           IN  new \in Rows /\ RowsOfTheirRef(new)
<1> DEFINE new == [table EXCEPT ![r] = IF @ = Nil THEN Nil ELSE [@ EXCEPT !.life = life]]
<1>1. table[r] # Nil => /\ [table[r] EXCEPT !.life = life] \in Row
                       /\ [table[r] EXCEPT !.life = life].ver = table[r].ver
  BY DEF Rows, Row
<1>2. new \in Rows
  BY <1>1 DEF Rows
<1>3. RowsOfTheirRef(new)
  BY <1>1 DEF Rows, RowsOfTheirRef
<1> QED
  BY <1>2, <1>3

\* What replaces the pieces of a stored source is cut from its content.
LEMMA ReplacementType ==
    ASSUME IndexTypeOK, storing # Nil
    PROVE  /\ storing \in Application /\ RefOf[storing.ver] \in Refs
           /\ Replacement \subseteq Piece
           /\ \A x \in Replacement : /\ x[1] = RefOf[storing.ver] /\ x[3] = storing.ver
                                     /\ storing.life = "active"
<1>1. storing \in Application /\ storing.ver \in Versions /\ RefOf[storing.ver] \in Refs
  BY ServingIndexAssumption DEF IndexTypeOK, Application
<1> QED
  BY <1>1, PiecesType DEF Replacement

\* An application leaves the row of its content in the place of that source.
LEMMA StoredRow ==
    ASSUME IndexTypeOK, StoreRow
    PROVE  LET new == [ver |-> storing.ver, life |-> storing.life]
               r == RefOf[storing.ver]
           IN  /\ new \in Row /\ new # Nil /\ r \in Refs
               /\ row' = [row EXCEPT ![r] = new]
               /\ unit' = IF row[r] # Nil /\ row[r] # new THEN Others(unit, r) ELSE unit
<1>1. storing \in Application /\ RefOf[storing.ver] \in Refs
  BY ReplacementType DEF StoreRow, StoreStep
<1>2. [ver |-> storing.ver, life |-> storing.life] \in Row
  BY <1>1 DEF Application, Row
<1>3. row \in [Refs -> Row \union {Nil}]
  BY DEF IndexTypeOK
<1> QED
  BY <1>1, <1>2, <1>3, NilIsNoRow DEF StoreRow, RowChanged

\* The application and the withdrawal keep the types of the tables.
LEMMA WriterTypes ==
    ASSUME IndexTypeOK, RowsOfTheirRef(row), WriterStep
    PROVE  IndexTypeOK' /\ RowsOfTheirRef(row)'
<1> USE ServingIndexAssumption
<1>1. row \in Rows /\ RowsOfTheirRef(row) /\ IndexTypeOK
  BY DEF IndexTypeOK, Rows
<1>2. ASSUME NEW v \in Versions, BeginStore(v)
      PROVE  IndexTypeOK' /\ RowsOfTheirRef(row)'
  <2>1. storing' \in Application
    BY <1>2 DEF BeginStore, Application, Steps
  <2> QED
    BY <1>1, <1>2, <2>1 DEF BeginStore, tables, IndexTypeOK, RowsOfTheirRef
<1>3. ASSUME NEW v \in Versions, BeginRestore(v)
      PROVE  IndexTypeOK' /\ RowsOfTheirRef(row)'
  <2>1. storing' \in Application
    BY <1>3 DEF BeginRestore, Application, Steps
  <2>2. row' \in Rows /\ RowsOfTheirRef(row')
    BY <1>1, <1>3, OverwrittenRow DEF BeginRestore
  <2> QED
    BY <1>1, <1>3, <2>1, <2>2 DEF BeginRestore, IndexTypeOK, Rows, Others, RowsOfTheirRef
<1>4. CASE StoreRow
  <2>1. storing \in Application /\ storing # Nil
    BY <1>1, <1>4, ReplacementType DEF StoreRow, StoreStep
  <2>2. storing' \in Application
    BY <1>4, <2>1 DEF StoreRow, StoreStep, Application, Steps
  <2>3. row' \in Rows /\ RowsOfTheirRef(row') /\ unit' \subseteq unit
    BY <1>1, <1>4, StoredRow DEF Rows, RowsOfTheirRef, Others
  <2> QED
    BY <1>1, <1>4, <2>2, <2>3 DEF StoreRow, StoreStep, IndexTypeOK, Rows, RowsOfTheirRef
<1>5. CASE StoreObjects
  <2>1. storing \in Application /\ RefOf[storing.ver] \in Refs
    BY <1>1, <1>5, ReplacementType DEF StoreObjects, StoreStep
  <2>2. storing' \in Application
    BY <1>5, <2>1 DEF StoreObjects, StoreStep, Application, Steps
  <2> QED
    BY <1>1, <1>5, <2>1, <2>2 DEF StoreObjects, StoreStep, IndexTypeOK, RowsOfTheirRef
<1>6. CASE StoreLinks
  <2>1. storing \in Application /\ LinksOf[storing.ver] \subseteq Refs \X Refs
    BY <1>1, <1>6, ReplacementType DEF StoreLinks, StoreStep, Application
  <2>2. storing' \in Application
    BY <1>6, <2>1 DEF StoreLinks, StoreStep, Application, Steps
  <2> QED
    BY <1>1, <1>6, <2>1, <2>2 DEF StoreLinks, StoreStep, IndexTypeOK, RowsOfTheirRef
<1>7. CASE StoreUnits
  <2>1. storing \in Application /\ Replacement \subseteq Piece
    BY <1>1, <1>7, ReplacementType DEF StoreUnits, StoreStep
  <2>2. storing' \in Application
    BY <1>7, <2>1 DEF StoreUnits, StoreStep, Application, Steps
  <2> QED
    BY <1>1, <1>7, <2>1, <2>2
       DEF StoreUnits, StoreStep, IndexTypeOK, RowsOfTheirRef, Others, Piece
<1>8. CASE StoreVectors
  <2>1. storing \in Application /\ Replacement \subseteq Piece
    BY <1>1, <1>8, ReplacementType DEF StoreVectors, StoreStep
  <2> QED
    BY <1>1, <1>8, <2>1
       DEF StoreVectors, StoreStep, IndexTypeOK, RowsOfTheirRef, Others, Piece
<1>9. ASSUME NEW r \in Refs, Withdraw(r)
      PROVE  IndexTypeOK' /\ RowsOfTheirRef(row)'
  BY <1>1, <1>9 DEF Withdraw, IndexTypeOK, RowsOfTheirRef, Others
<1>10. CASE MarkInactive
  <2>1. dropping \in Refs
    BY <1>1, <1>10 DEF MarkInactive, IndexTypeOK
  <2>2. row' \in Rows /\ RowsOfTheirRef(row')
    BY <1>1, <1>10, <2>1, OverwrittenRow DEF MarkInactive
  <2> QED
    BY <1>1, <1>10, <2>2 DEF MarkInactive, IndexTypeOK, Rows, Others, RowsOfTheirRef
<1> QED
  BY <1>2, <1>3, <1>4, <1>5, <1>6, <1>7, <1>8, <1>9, <1>10 DEF WriterStep

LEMMA IndexInvInit == IndexInit => IndexInv
<1> SUFFICES ASSUME IndexInit PROVE IndexInv
  OBVIOUS
<1> USE ServingIndexAssumption
<1>1. PICK gone \in SUBSET Refs, relinked \in SUBSET Initially :
         LET kept == {v \in Initially : RefOf[v] \notin gone} IN
         /\ relinked \subseteq Initially \ kept
         /\ held = gone
         /\ row = [r \in Refs |->
                     IF \E v \in Initially : RefOf[v] = r
                     THEN [ver |-> CHOOSE v \in Initially : RefOf[v] = r,
                           life |-> IF r \in gone THEN "inactive" ELSE "active"]
                     ELSE Nil]
         /\ unit = UNION {PiecesOf(v) : v \in kept}
         /\ vec = UNION {PiecesOf(v) : v \in kept}
         /\ object = {RefOf[v] : v \in Initially}
         /\ links = {l \in UNION {LinksOf[v] : v \in kept} : l[2] \notin gone}
                      \union UNION {LinksOf[v] : v \in relinked}
         /\ storing = Nil /\ dropping = Nil /\ writes = 0
  BY DEF IndexInit
<1>2. ASSUME NEW r \in Refs
      PROVE  row[r] \in Row \union {Nil} /\ (row[r] # Nil => RefOf[row[r].ver] = r)
  <2>1. CASE \E v \in Initially : RefOf[v] = r
    BY <1>1, <2>1 DEF Row
  <2>2. CASE ~ \E v \in Initially : RefOf[v] = r
    BY <1>1, <2>2
  <2> QED
    BY <2>1, <2>2
<1>3. row \in Rows /\ RowsOfTheirRef(row)
  BY <1>1, <1>2 DEF Rows, RowsOfTheirRef
<1>4. unit \subseteq Piece /\ vec \subseteq Piece
  BY <1>1, PiecesType
<1>5. links \subseteq Refs \X Refs
  BY <1>1
<1>6. IndexTypeOK
  BY <1>1, <1>3, <1>4, <1>5 DEF IndexTypeOK, Rows, Piece
<1>7. UnitsOfTheirRow
  <2> SUFFICES ASSUME NEW x \in unit
               PROVE  row[x[1]] # Nil /\ row[x[1]].ver = x[3] /\ x \in PiecesOf(x[3])
    BY DEF UnitsOfTheirRow
  <2>1. PICK v \in Initially : x \in PiecesOf(v)
    BY <1>1
  <2>2. x[1] = RefOf[v] /\ x[3] = v /\ RefOf[v] \in Refs
    BY <2>1, PiecesType
  <2>3. row[x[1]] = [ver |-> CHOOSE w \in Initially : RefOf[w] = RefOf[v],
                     life |-> IF x[1] \in gone THEN "inactive" ELSE "active"]
    BY <1>1, <2>2
  <2>4. (CHOOSE w \in Initially : RefOf[w] = RefOf[v]) = v
    OBVIOUS
  <2>5. row[x[1]].ver = x[3]
    BY <2>2, <2>3, <2>4
  <2>6. row[x[1]] \in Row
    BY <2>2, <2>3, <2>4 DEF Row
  <2>7. row[x[1]] # Nil
    BY <2>6, NilIsNoRow
  <2> QED
    BY <2>1, <2>2, <2>5, <2>7
<1>8. RowStored
  BY <1>1 DEF RowStored
<1>9. VectorsOfOneContent
  <2>1. vec = unit
    BY <1>1
  <2> QED
    BY <1>7, <2>1 DEF UnitsOfTheirRow, VectorsOfOneContent, OneContent
<1> QED
  BY <1>3, <1>6, <1>7, <1>8, <1>9 DEF IndexInv

\* Every commit of the writers keeps the vectors of a source of one content.
LEMMA VectorsStep ==
    ASSUME IndexInv, WriterStep \/ WriterStop
    PROVE  VectorsOfOneContent'
<1> USE DEF IndexInv
<1>1. CASE vec' \subseteq vec
  BY <1>1 DEF VectorsOfOneContent, OneContent, PiecesOf
<1>2. CASE StoreVectors
  <2>1. storing # Nil /\ vec' = Others(vec, RefOf[storing.ver]) \union Replacement
    BY <1>2 DEF StoreVectors, StoreStep
  <2>2. \A x \in Replacement :
           x[1] = RefOf[storing.ver] /\ x[3] = storing.ver /\ x \in PiecesOf(x[3])
    <3>1. \A x \in Replacement : x[1] = RefOf[storing.ver] /\ x[3] = storing.ver
      BY <2>1, ReplacementType
    <3> QED
      BY <3>1 DEF Replacement
  <2>3. \A x \in Others(vec, RefOf[storing.ver]) : x \in vec /\ x[1] # RefOf[storing.ver]
    BY DEF Others
  <2>4. OneContent(vec')
    BY <2>1, <2>2, <2>3 DEF VectorsOfOneContent, OneContent
  <2>5. \A x \in vec' : x \in PiecesOf(x[3])
    BY <2>1, <2>2, <2>3 DEF VectorsOfOneContent
  <2> QED
    BY <2>4, <2>5 DEF VectorsOfOneContent, OneContent, PiecesOf
<1>3. vec' \subseteq vec \/ StoreVectors
  BY DEF WriterStep, WriterStop, BeginStore, BeginRestore, StoreRow, StoreObjects, StoreLinks,
         StoreUnits, Withdraw, MarkInactive, StopStore, StopWithdrawal, tables, Others
<1> QED
  BY <1>1, <1>2, <1>3

\* Every commit of the writers keeps units and rows together.
LEMMA IndexInvStep ==
    ASSUME IndexInv, WriterStep \/ WriterStop
    PROVE  IndexInv'
<1> USE ServingIndexAssumption
<1>0. VectorsOfOneContent'
  BY VectorsStep
<1>1. row \in Rows /\ RowsOfTheirRef(row) /\ IndexTypeOK /\ unit \subseteq Piece
  BY DEF IndexInv, IndexTypeOK, Rows, Piece
<1>2. CASE WriterStop
  <2>1. CASE StopStore
    BY <2>1, <1>0 DEF StopStore, tables, IndexInv, IndexTypeOK, RowsOfTheirRef, UnitsOfTheirRow, RowStored
  <2>2. CASE StopWithdrawal
    BY <2>2, <1>0 DEF StopWithdrawal, tables, IndexInv, IndexTypeOK, RowsOfTheirRef, UnitsOfTheirRow, RowStored
  <2> QED
    BY <1>2, <2>1, <2>2 DEF WriterStop
<1>3. CASE WriterStep
  <2>1. IndexTypeOK' /\ RowsOfTheirRef(row)'
    BY <1>1, <1>3, WriterTypes
  <2>2. (UnitsOfTheirRow /\ RowStored)'
    <3>1. ASSUME NEW v \in Versions, BeginStore(v) PROVE (UnitsOfTheirRow /\ RowStored)'
      BY <3>1 DEF BeginStore, tables, IndexInv, UnitsOfTheirRow, RowStored
    <3>2. ASSUME NEW r \in Refs, NEW life \in {"active", "inactive"}, unit' \subseteq unit,
                 row' = [row EXCEPT ![r] = IF @ = Nil THEN Nil ELSE [@ EXCEPT !.life = life]]
          PROVE  /\ UnitsOfTheirRow'
                 /\ \A s \in Refs : row[s] # Nil => row'[s] # Nil /\ row'[s].ver = row[s].ver
      <4>1. row[r] # Nil => [row[r] EXCEPT !.life = life] \in Row
        BY <1>1 DEF Rows, Row
      <4>2. row[r] # Nil => /\ [row[r] EXCEPT !.life = life] # Nil
                            /\ [row[r] EXCEPT !.life = life].ver = row[r].ver
        BY <1>1, <4>1, NilIsNoRow DEF Rows, Row
      <4>3. \A s \in Refs : row[s] # Nil => row'[s] # Nil /\ row'[s].ver = row[s].ver
        BY <1>1, <3>2, <4>2 DEF Rows
      <4>4. \A x \in unit : x[1] \in Refs
        BY <1>1 DEF Piece
      <4>5. UnitsOfTheirRow'
        BY <3>2, <4>3, <4>4 DEF IndexInv, UnitsOfTheirRow, PiecesOf
      <4> QED
        BY <4>3, <4>5
    <3>3. ASSUME NEW v \in Versions, BeginRestore(v) PROVE (UnitsOfTheirRow /\ RowStored)'
      <4>1. UnitsOfTheirRow'
        BY <3>2, <3>3 DEF BeginRestore, Others
      <4>2. RowStored'
        BY <3>3 DEF BeginRestore, RowStored
      <4> QED
        BY <4>1, <4>2
    <3>4. CASE MarkInactive
      <4>0. dropping \in Refs
        BY <1>1, <3>4 DEF MarkInactive, IndexTypeOK
      <4>1. /\ UnitsOfTheirRow'
            /\ \A s \in Refs : row[s] # Nil => row'[s] # Nil /\ row'[s].ver = row[s].ver
        BY <3>2, <3>4, <4>0 DEF MarkInactive, Others
      <4>2. storing' = storing /\ (storing # Nil => RefOf[storing.ver] \in Refs)
        BY <1>1, <3>4, ReplacementType DEF MarkInactive
      <4>3. RowStored'
        BY <4>1, <4>2 DEF IndexInv, RowStored
      <4> QED
        BY <4>1, <4>3
    <3>5. CASE StoreRow
      <4> DEFINE new == [ver |-> storing.ver, life |-> storing.life]
                 r == RefOf[storing.ver]
      <4>1. /\ new \in Row /\ new # Nil /\ r \in Refs
            /\ row' = [row EXCEPT ![r] = new]
            /\ unit' = IF row[r] # Nil /\ row[r] # new THEN Others(unit, r) ELSE unit
        BY <1>1, <3>5, StoredRow
      <4>2. storing' = [storing EXCEPT !.step = "objects"] /\ storing \in Application
        BY <1>1, <3>5, ReplacementType DEF StoreRow, StoreStep
      <4>3. storing'.ver = storing.ver
        BY <4>2 DEF Application
      <4>4. row'[r] = new /\ \A s \in Refs : s # r => row'[s] = row[s]
        BY <1>1, <4>1 DEF Rows
      <4>5. RowStored'
        BY <4>1, <4>3, <4>4 DEF RowStored
      <4>6. ASSUME NEW x \in unit'
            PROVE  (row[x[1]] # Nil /\ row[x[1]].ver = x[3] /\ x \in PiecesOf(x[3]))'
        <5>1. x \in unit /\ x[1] \in Refs
          BY <1>1, <4>1, <4>6 DEF Others, Piece
        <5>2. row[x[1]] # Nil /\ row[x[1]].ver = x[3] /\ x \in PiecesOf(x[3])
          BY <5>1 DEF IndexInv, UnitsOfTheirRow
        <5>3. CASE x[1] # r
          BY <4>4, <5>1, <5>2, <5>3 DEF PiecesOf
        <5>4. CASE x[1] = r
          <6>1. ~ (row[r] # Nil /\ row[r] # new)
            BY <4>1, <4>6, <5>4 DEF Others
          <6>2. row'[r] = row[r]
            BY <4>4, <5>2, <5>4, <6>1
          <6> QED
            BY <5>2, <5>4, <6>2 DEF PiecesOf
        <5> QED
          BY <5>3, <5>4
      <4> QED
        BY <4>5, <4>6 DEF UnitsOfTheirRow
    <3>6. ASSUME NEW from \in Steps \ {"row"}, NEW to, StoreStep(from, to), row' = row
          PROVE  RowStored'
      <4>1. storing # Nil /\ storing \in Application /\ storing.step # "row"
        BY <1>1, <3>6, ReplacementType DEF StoreStep
      <4>2. storing' = Nil \/ storing' = [storing EXCEPT !.step = to]
        BY <3>6 DEF StoreStep
      <4>3. storing' # Nil => storing'.ver = storing.ver
        BY <4>1, <4>2 DEF Application
      <4> QED
        BY <3>6, <4>1, <4>3 DEF IndexInv, RowStored
    <3>7. CASE StoreObjects
      BY <3>6, <3>7 DEF StoreObjects, Steps, IndexInv, UnitsOfTheirRow, PiecesOf
    <3>8. CASE StoreLinks
      BY <3>6, <3>8 DEF StoreLinks, Steps, IndexInv, UnitsOfTheirRow, PiecesOf
    <3>9. CASE StoreVectors
      BY <3>6, <3>9 DEF StoreVectors, Steps, IndexInv, UnitsOfTheirRow, PiecesOf
    <3>10. CASE StoreUnits
      <4>1. RowStored'
        BY <3>6, <3>10 DEF StoreUnits, Steps
      <4>2. storing \in Application /\ storing # Nil /\ storing.step # "row"
        BY <1>1, <3>10, ReplacementType DEF StoreUnits, StoreStep
      <4>3. row[RefOf[storing.ver]] # Nil /\ row[RefOf[storing.ver]].ver = storing.ver
        BY <4>2 DEF IndexInv, RowStored
      <4>4. ASSUME NEW x \in Replacement
            PROVE  row[x[1]] # Nil /\ row[x[1]].ver = x[3] /\ x \in PiecesOf(x[3])
        <5>1. x[1] = RefOf[storing.ver] /\ x[3] = storing.ver
          BY <1>1, <4>2, ReplacementType
        <5>2. x \in PiecesOf(storing.ver)
          BY DEF Replacement
        <5> QED
          BY <4>3, <5>1, <5>2
      <4>5. unit' \subseteq unit \union Replacement /\ row' = row
        BY <3>10 DEF StoreUnits, Others
      <4>6. UnitsOfTheirRow'
        BY <4>4, <4>5 DEF IndexInv, UnitsOfTheirRow, PiecesOf
      <4> QED
        BY <4>1, <4>6
    <3>11. ASSUME NEW r \in Refs, Withdraw(r) PROVE (UnitsOfTheirRow /\ RowStored)'
      BY <3>11 DEF Withdraw, IndexInv, UnitsOfTheirRow, RowStored, PiecesOf
    <3> QED
      BY <1>3, <3>1, <3>3, <3>4, <3>5, <3>7, <3>8, <3>9, <3>10, <3>11 DEF WriterStep
  <2> QED
    BY <1>0, <2>1, <2>2 DEF IndexInv
<1> QED
  BY <1>2, <1>3
-----------------------------------------------------------------------------
(* Lists *)

\* What a function lists from 1 to n is a sequence of that length.
LEMMA ListIsSequence ==
    ASSUME NEW S, NEW n \in Nat, NEW f \in [1..n -> S]
    PROVE  f \in Seq(S) /\ Len(f) = n /\ DOMAIN f = 1..n
<1>1. f \in Seq(S)
  BY SeqDef
<1>2. DOMAIN f = 1..Len(f) /\ Len(f) \in Nat
  BY <1>1, LenProperties
<1>3. 1..Len(f) = 1..n
  BY <1>2
<1>4. Len(f) = n
  BY <1>2, <1>3
<1> QED
  BY <1>1, <1>4

LEMMA PrefixIs ==
    ASSUME NEW S, NEW s \in Seq(S), NEW n \in Nat
    PROVE  /\ Prefix(s, n) \in Seq(S)
           /\ Len(Prefix(s, n)) = IF Len(s) < n THEN Len(s) ELSE n
           /\ \A i \in 1..Len(Prefix(s, n)) : i \in 1..Len(s) /\ Prefix(s, n)[i] = s[i]
           /\ Len(Prefix(s, n)) < n => Prefix(s, n) = s
<1> DEFINE len == IF Len(s) < n THEN Len(s) ELSE n
           p == Prefix(s, n)
<1>1. Len(s) \in Nat /\ s \in [1..Len(s) -> S] /\ DOMAIN s = 1..Len(s)
  BY LenProperties
<1>0. Len(s) \in Nat /\ n \in Nat
  BY <1>1
<1>2. len \in Nat /\ len <= Len(s) /\ len <= n /\ (len < n => len = Len(s))
  BY <1>0
<1> HIDE DEF len
<1>3. \A i \in 1..len : i \in 1..Len(s)
  BY <1>0, <1>2
<1>4. p = [i \in 1..len |-> s[i]]
  BY DEF Prefix, len
<1>5. p \in [1..len -> S] /\ \A i \in 1..len : p[i] = s[i]
  BY <1>1, <1>3, <1>4
<1>6. p \in Seq(S) /\ Len(p) = len
  BY <1>2, <1>5, ListIsSequence
<1>7. ASSUME Len(p) < n PROVE p = s
  <2> HIDE DEF p, len
  <2>1. len = Len(s)
    BY <1>0, <1>2, <1>6, <1>7
  <2>2. p = [i \in 1..Len(s) |-> s[i]]
    BY <1>4, <2>1
  <2> QED
    BY <1>1, <2>2
<1> QED
  BY <1>3, <1>5, <1>6, <1>7 DEF len

-----------------------------------------------------------------------------
(* What the statements of the search return *)

\* Pieces of one content each are in order by score, date, ref and unit.
LEMMA BetterOrders ==
    ASSUME NEW Score \in [Pieces -> Int], NEW S \in SUBSET Pieces, S \subseteq Piece, OneContent(S)
    PROVE  IsFiniteSet(S) /\ Orders({p \in S \X S : Better(Score, p[1], p[2])}, S)
<1> USE SearchRowsAssumption
<1> DEFINE R == {p \in S \X S : Better(Score, p[1], p[2])}
<1>1. IsFiniteSet(S)
  BY FS_Subset
<1>2. \A x \in S : /\ x \in Refs \X Nat \X Versions
                   /\ Score[x] \in Int /\ x[1] \in Refs /\ Order[x[1]] \in Nat /\ x[2] \in Nat
  BY DEF Piece
<1>3. \A x, y \in S : x[1] = y[1] /\ x[2] = y[2] => x = y
  <2> SUFFICES ASSUME NEW x \in S, NEW y \in S, x[1] = y[1], x[2] = y[2] PROVE x = y
    OBVIOUS
  <2>1. x[3] = y[3]
    BY DEF OneContent
  <2>2. x = <<x[1], x[2], x[3]>> /\ y = <<y[1], y[2], y[3]>>
    BY <1>2
  <2> QED
    BY <2>1, <2>2
<1>4. \A x, y \in S : <<x, y>> \in R <=> Better(Score, x, y)
  OBVIOUS
<1> HIDE DEF R
<1>5. \A x \in S : ~ Better(Score, x, x)
  BY <1>2 DEF Better
<1>6. ASSUME NEW x \in S, NEW y \in S, NEW z \in S, Better(Score, x, y), Better(Score, y, z)
      PROVE  Better(Score, x, z)
  BY <1>2, <1>6 DEF Better
<1>7. ASSUME NEW x \in S, NEW y \in S, x # y PROVE Better(Score, x, y) \/ Better(Score, y, x)
  <2>1. x[1] # y[1] => Order[x[1]] # Order[y[1]]
    BY <1>2
  <2>2. x[1] = y[1] => x[2] # y[2]
    BY <1>3, <1>7
  <2> QED
    BY <1>2, <2>1, <2>2 DEF Better
<1>8. R \subseteq S \X S
  BY DEF R
<1>9. Orders(R, S)
  BY <1>4, <1>5, <1>6, <1>7, <1>8 DEF Orders
<1> QED
  BY <1>1, <1>9 DEF R

\* The best of them, up to a limit, are some of them.
LEMMA BestAre ==
    ASSUME NEW Score \in [Pieces -> Int], NEW S \in SUBSET Pieces, S \subseteq Piece,
           OneContent(S), NEW limit \in Nat
    PROVE  Prefix(BestBy(Score, S), limit) \in Seq(S)
<1> DEFINE best == BestBy(Score, S)
           size == Cardinality(S)
           R == {p \in S \X S : Better(Score, p[1], p[2])}
<1>1. best = Ordered(S, R)
  BY DEF BestBy
<1>2. IsFiniteSet(S) /\ Orders(R, S)
  BY BetterOrders
<1> HIDE DEF best, R
<1>3. size \in Nat /\ best \in [1..size -> S]
  BY <1>1, <1>2, Listed
<1> HIDE DEF size
<1>4. best \in Seq(S)
  BY <1>3, ListIsSequence
<1> QED
  BY <1>4, PrefixIs DEF best

Retrievers == {"keyword", "vector"}
FoundRow == [ref: Refs, idx: Nat, ver: Versions]

\* Units that the join lets through are pieces, of active sources.
LEMMA MatchingIs ==
    ASSUME IndexInv, NEW Score
    PROVE  /\ Matching(Score, {}) \subseteq Pieces /\ Matching(Score, {}) \subseteq Piece
           /\ OneContent(Matching(Score, {}))
           /\ \A x \in Matching(Score, {}) : x[1] \in ActiveRefs
<1>1. Matching(Score, {}) \subseteq unit /\ Matching(Score, {}) \subseteq Pieces
  BY DEF Matching, Searchable
<1>2. unit \subseteq Piece
  BY DEF IndexInv, IndexTypeOK, Piece
<1>3. OneContent(unit)
  BY DEF IndexInv, UnitsOfTheirRow, OneContent
<1>4. \A x \in Matching(Score, {}) : Active(x[1]) /\ x[1] \in Refs
  BY <1>1, <1>2 DEF Matching, Searchable, Piece
<1> QED
  BY <1>1, <1>2, <1>3, <1>4 DEF OneContent, ActiveRefs

LEMMA SearchRowsAre ==
    ASSUME NEW S \in SUBSET Piece, NEW s \in Seq(S)
    PROVE  /\ SearchRowsOf(s) \in Seq(FoundRow)
           /\ RefsIn(SearchRowsOf(s)) \subseteq {x[1] : x \in S}
<1>1. Len(s) \in Nat /\ s \in [1..Len(s) -> S] /\ DOMAIN s = 1..Len(s)
  BY LenProperties
<1>2. \A x \in S : SearchRow(x) \in FoundRow /\ SearchRow(x).ref = x[1]
  BY DEF SearchRow, FoundRow, Piece
<1>3. SearchRowsOf(s) = [i \in 1..Len(s) |-> SearchRow(s[i])]
  BY <1>1 DEF SearchRowsOf
<1>4. SearchRowsOf(s) \in [1..Len(s) -> FoundRow]
  BY <1>1, <1>2, <1>3
<1>5. SearchRowsOf(s) \in Seq(FoundRow)
  BY <1>1, <1>4, ListIsSequence
<1>6. \A i \in 1..Len(s) : SearchRowsOf(s)[i].ref \in {x[1] : x \in S}
  BY <1>1, <1>2, <1>3
<1> QED
  BY <1>3, <1>5, <1>6 DEF RefsIn

\* The text search finds active sources.
LEMMA TextRowsAre ==
    ASSUME IndexInv, NEW Score \in [Pieces -> Nat], NEW limit \in Nat,
           NEW S \in SUBSET Matching(Score, {})
    PROVE  LET found == SearchRowsOf(Prefix(BestBy(Score, S), limit))
           IN  found \in Seq(FoundRow) /\ RefsIn(found) \subseteq ActiveRefs
<1>1. /\ S \subseteq Pieces /\ S \subseteq Piece /\ OneContent(S)
      /\ \A x \in S : x[1] \in ActiveRefs
  BY MatchingIs DEF OneContent
<1>2. Score \in [Pieces -> Int]
  OBVIOUS
<1>3. Prefix(BestBy(Score, S), limit) \in Seq(S)
  BY <1>1, <1>2, BestAre
<1>4. {x[1] : x \in S} \subseteq ActiveRefs
  BY <1>1
<1> QED
  BY <1>1, <1>3, <1>4, SearchRowsAre

LEMMA ExactRowsAre ==
    ASSUME IndexInv
    PROVE  ExactRows({}) \in Seq(FoundRow) /\ RefsIn(ExactRows({})) \subseteq ActiveRefs
BY SearchRowsAssumption, TextRowsAre DEF ExactRows

LEMMA FuzzyRowsAre ==
    ASSUME IndexInv, NEW found \in Seq(FoundRow), Len(found) < CandidateLimit
    PROVE  /\ FuzzyRows(found, {}) \in Seq(FoundRow)
           /\ RefsIn(FuzzyRows(found, {})) \subseteq ActiveRefs
<1> DEFINE more == {x \in Matching(Fuzzy, {}) : ~ (x[2] = 0 /\ x[1] \in RefsIn(found))}
           room == CandidateLimit - Len(found)
<1>1. FuzzyRows(found, {}) = SearchRowsOf(Prefix(BestBy(Fuzzy, more), room))
  BY DEF FuzzyRows
<1>2. room \in Nat /\ Fuzzy \in [Pieces -> Nat]
  BY SearchRowsAssumption, LenProperties
<1>3. more \in SUBSET Matching(Fuzzy, {})
  OBVIOUS
<1> HIDE DEF more, room
<1> QED
  BY <1>1, <1>2, <1>3, TextRowsAre

LEMMA RefsOfBoth ==
    ASSUME NEW s \in Seq(FoundRow), NEW t \in Seq(FoundRow)
    PROVE  s \o t \in Seq(FoundRow) /\ RefsIn(s \o t) = RefsIn(s) \union RefsIn(t)
<1>1. /\ Len(s) \in Nat /\ DOMAIN s = 1..Len(s) /\ Len(t) \in Nat /\ DOMAIN t = 1..Len(t)
      /\ s \o t \in Seq(FoundRow) /\ Len(s \o t) = Len(s) + Len(t)
      /\ \A i \in 1..(Len(s) + Len(t)) : (s \o t)[i] = IF i <= Len(s) THEN s[i] ELSE t[i - Len(s)]
  BY LenProperties, ConcatProperties
<1> DEFINE st == s \o t
<1>2. DOMAIN st = 1..(Len(s) + Len(t))
  BY <1>1, LenProperties
<1> HIDE DEF st
<1>3. ASSUME NEW i \in DOMAIN st PROVE st[i].ref \in RefsIn(s) \union RefsIn(t)
  <2>1. CASE i <= Len(s)
    BY <1>1, <1>2, <2>1 DEF RefsIn, st
  <2>2. CASE ~ (i <= Len(s))
    <3>1. i - Len(s) \in 1..Len(t) /\ st[i] = t[i - Len(s)]
      BY <1>1, <1>2, <2>2 DEF st
    <3> QED
      BY <1>1, <3>1 DEF RefsIn
  <2> QED
    BY <2>1, <2>2
<1>4. ASSUME NEW i \in DOMAIN s PROVE s[i].ref \in RefsIn(st)
  <2>1. i \in DOMAIN st /\ st[i] = s[i]
    BY <1>1, <1>2 DEF st
  <2> QED
    BY <2>1 DEF RefsIn
<1>5. ASSUME NEW i \in DOMAIN t PROVE t[i].ref \in RefsIn(st)
  <2>1. Len(s) + i \in DOMAIN st /\ ~ (Len(s) + i <= Len(s)) /\ (Len(s) + i) - Len(s) = i
    BY <1>1, <1>2
  <2>2. st[Len(s) + i] = t[i]
    BY <1>1, <1>2, <2>1 DEF st
  <2> QED
    BY <2>1, <2>2 DEF RefsIn
<1>6. RefsIn(st) = RefsIn(s) \union RefsIn(t)
  BY <1>3, <1>4, <1>5 DEF RefsIn
<1> QED
  BY <1>1, <1>6 DEF st

\* Positions one after another.
LEMMA InTurnIs ==
    ASSUME NEW n \in Nat, NEW S \in SUBSET (1..n)
    PROVE  /\ Cardinality(S) \in Nat
           /\ InTurn(S) \in [1..Cardinality(S) -> S]
           /\ \A i, j \in 1..Cardinality(S) : i # j => InTurn(S)[i] # InTurn(S)[j]
<1> DEFINE R == {p \in S \X S : p[1] < p[2]}
<1>1. IsFiniteSet(S) /\ \A i \in S : i \in Nat
  <2>1. IsFiniteSet(1..n)
    BY FS_Interval
  <2>2. IsFiniteSet(S)
    BY <2>1, FS_Subset
  <2> QED
    BY <2>2
<1>2. \A i, j \in S : <<i, j>> \in R <=> i < j
  OBVIOUS
<1>3. R \subseteq S \X S
  OBVIOUS
<1>4. InTurn(S) = Ordered(S, R)
  BY DEF InTurn
<1> HIDE DEF R
<1>5. Orders(R, S)
  BY <1>1, <1>2, <1>3 DEF Orders
<1> QED
  BY <1>1, <1>4, <1>5, Listed

\* The vector search finds sources that have vectors.
LEMMA VectorRowsAre ==
    ASSUME IndexInv
    PROVE  VectorRows \in Seq(FoundRow) /\ RefsIn(VectorRows) \subseteq {x[1] : x \in vec}
<1> DEFINE nearest == Prefix(BestBy(Similar, vec), CandidateLimit)
           positions == {i \in DOMAIN nearest : Similar[nearest[i]] > 0}
           close == InTurn(positions)
           size == Cardinality(positions)
           found(n) == LET x == nearest[close[n]] IN [ref |-> x[1], idx |-> x[2], ver |-> x[3]]
<1>1. VectorRows = [n \in DOMAIN close |-> found(n)]
  BY DEF VectorRows
<1>2. vec \subseteq Pieces /\ vec \subseteq Piece /\ OneContent(vec)
  BY DEF IndexInv, IndexTypeOK, VectorsOfOneContent, Pieces, Piece
<1>3. Similar \in [Pieces -> Int] /\ CandidateLimit \in Nat
  BY AugmentationAssumption, SearchRowsAssumption
<1>4. nearest \in Seq(vec)
  BY <1>2, <1>3, BestAre
<1>5. Len(nearest) \in Nat /\ nearest \in [1..Len(nearest) -> vec] /\ DOMAIN nearest = 1..Len(nearest)
  BY <1>4, LenProperties
<1>6. positions \in SUBSET (1..Len(nearest))
  BY <1>5
<1> HIDE DEF nearest, positions
<1>7. size \in Nat /\ close \in [1..size -> positions]
  BY <1>5, <1>6, InTurnIs
<1> HIDE DEF close, size
<1>8. \A n \in 1..size : nearest[close[n]] \in vec
  BY <1>5, <1>6, <1>7
<1>9. \A n \in 1..size : found(n) \in FoundRow /\ found(n).ref \in {x[1] : x \in vec}
  <2> SUFFICES ASSUME NEW n \in 1..size
               PROVE  found(n) \in FoundRow /\ found(n).ref \in {x[1] : x \in vec}
    OBVIOUS
  <2> DEFINE x == nearest[close[n]]
  <2>1. x \in vec /\ x[1] \in Refs /\ x[2] \in Nat /\ x[3] \in Versions
    BY <1>2, <1>8 DEF Piece
  <2>2. found(n) = [ref |-> x[1], idx |-> x[2], ver |-> x[3]]
    OBVIOUS
  <2> HIDE DEF x, found
  <2> QED
    BY <2>1, <2>2 DEF FoundRow
<1> HIDE DEF found
<1>10. VectorRows = [n \in 1..size |-> found(n)]
  BY <1>1, <1>7
<1>11. VectorRows \in [1..size -> FoundRow]
  BY <1>9, <1>10
<1>12. VectorRows \in Seq(FoundRow)
  BY <1>7, <1>11, ListIsSequence
<1>13. RefsIn(VectorRows) \subseteq {x[1] : x \in vec}
  BY <1>9, <1>10 DEF RefsIn
<1> QED
  BY <1>12, <1>13

-----------------------------------------------------------------------------
(* Cards *)

Card == [ref: Refs, idx: Nat, ver: Versions, score: Nat, by: SUBSET Retrievers]

LEMMA CardWith ==
    ASSUME NEW c \in Card, NEW score \in Nat, NEW by \in SUBSET Retrievers
    PROVE  LET new == [c EXCEPT !.score = score, !.by = by] IN
           new \in Card /\ new.ref = c.ref /\ new.ver = c.ver /\ new.by = by
BY DEF Card

\* A row adds to the card of its key or makes a new one.
MergeOf(cs, x, retriever, after) ==
    /\ after \in Seq(Card)
    /\ \A i \in DOMAIN after :
         \/ /\ i \in DOMAIN cs /\ after[i].ref = cs[i].ref /\ after[i].ver = cs[i].ver
            /\ \/ after[i].by = cs[i].by
               \/ after[i].ref = x.ref /\ after[i].by = cs[i].by \union {retriever}
         \/ /\ after[i].ref = x.ref /\ after[i].by = {retriever}
            /\ row[x.ref] # Nil => after[i].ver = row[x.ref].ver

LEMMA MergedIs ==
    ASSUME IndexTypeOK, NEW cs \in Seq(Card), NEW x \in FoundRow, NEW rank \in Nat,
           NEW retriever \in Retrievers
    PROVE  MergeOf(cs, x, retriever, Merged(cs, x, rank, retriever))
<1> DEFINE after == Merged(cs, x, rank, retriever)
           same == IndexOf(cs, x)
<1>1. Len(cs) \in Nat /\ cs \in [1..Len(cs) -> Card] /\ DOMAIN cs = 1..Len(cs)
  BY LenProperties
<1>2. Points(rank) \in Nat
  BY DEF Points
<1>3. CASE same # {}
  <2> DEFINE more(c) == [c EXCEPT !.score = @ + Points(rank), !.by = @ \union {retriever}]
  <2>1. ASSUME NEW c \in Card
        PROVE  /\ more(c) \in Card /\ more(c).ref = c.ref /\ more(c).ver = c.ver
               /\ more(c).by = c.by \union {retriever}
    <3>1. c.score + Points(rank) \in Nat /\ c.by \union {retriever} \in SUBSET Retrievers
      BY <1>2 DEF Card
    <3> QED
      BY <3>1, CardWith
  <2>2. after = [i \in 1..Len(cs) |-> IF i \in same THEN more(cs[i]) ELSE cs[i]]
    BY <1>1, <1>3 DEF Merged
  <2>3. \A i \in same : cs[i].ref = x.ref
    BY DEF IndexOf
  <2> HIDE DEF more, after, same
  <2>4. after \in [1..Len(cs) -> Card]
    BY <1>1, <2>1, <2>2
  <2>5. after \in Seq(Card) /\ DOMAIN after = 1..Len(cs)
    BY <1>1, <2>4, ListIsSequence
  <2>6. ASSUME NEW i \in DOMAIN after
        PROVE  /\ i \in DOMAIN cs /\ after[i].ref = cs[i].ref /\ after[i].ver = cs[i].ver
               /\ \/ after[i].by = cs[i].by
                  \/ after[i].ref = x.ref /\ after[i].by = cs[i].by \union {retriever}
    <3>1. i \in 1..Len(cs) /\ cs[i] \in Card
      BY <1>1, <2>5
    <3>2. CASE i \in same
      BY <1>1, <2>1, <2>2, <2>3, <3>1, <3>2
    <3>3. CASE i \notin same
      BY <1>1, <2>2, <3>1, <3>3
    <3> QED
      BY <3>2, <3>3
  <2> QED
    BY <2>5, <2>6 DEF after, MergeOf
<1>4. CASE same = {}
  <2> DEFINE new == [ref |-> x.ref, idx |-> x.idx,
                     ver |-> IF row[x.ref] = Nil THEN x.ver ELSE row[x.ref].ver,
                     score |-> Points(rank), by |-> {retriever}]
  <2>1. after = Append(cs, new)
    BY <1>4 DEF Merged
  <2>2. x.ref \in Refs /\ x.idx \in Nat /\ x.ver \in Versions
    BY DEF FoundRow
  <2>3. row[x.ref] # Nil => row[x.ref].ver \in Versions
    BY <2>2 DEF IndexTypeOK, Row
  <2>4. new \in Card
    BY <1>2, <2>2, <2>3 DEF Card
  <2>5. /\ new.ref = x.ref /\ new.by = {retriever}
        /\ row[x.ref] # Nil => new.ver = row[x.ref].ver
    OBVIOUS
  <2> HIDE DEF new, after, same
  <2>6. /\ after \in Seq(Card) /\ Len(after) = Len(cs) + 1
        /\ \A i \in 1..Len(cs) : after[i] = cs[i]
        /\ after[Len(cs) + 1] = new
    BY <2>1, <2>4, AppendProperties
  <2>7. \A i \in DOMAIN after : i \in 1..Len(cs) \/ i = Len(cs) + 1
    BY <1>1, <2>6, LenProperties
  <2> QED
    BY <1>1, <2>5, <2>6, <2>7 DEF after, MergeOf
<1> QED
  BY <1>3, <1>4

\* What a merge of one row keeps, and the cards there are have, all have after
\* the merge.
LEMMA MergedAllIs ==
    ASSUME rows \in Seq(FoundRow), NEW retriever, NEW Good, cands \in Good,
           \A n \in 1..Len(rows), cs \in Good : Merged(cs, rows[n], n, retriever) \in Good
    PROVE  MergedAll(retriever) \in Good
<1> DEFINE N == Len(rows)
           next == [n \in 1..N |-> [cs \in Good |-> Merged(cs, rows[n], n, retriever)]]
<1>1. N \in Nat
  BY LenProperties
<1>2. next \in [1..N -> [Good -> Good]]
  OBVIOUS
<1>3. PICK f : Follows(f, N, Good, cands, next)
  <2> HIDE DEF N, next
  <2> QED
    BY <1>1, <1>2, RecursiveSequence
<1>4. f \in [0..N -> Good] /\ f[0] = cands /\ \A n \in 1..N : f[n] = next[n][f[n - 1]]
  BY <1>3 DEF Follows
<1>5. \A n \in 1..N : f[n] = Merged(f[n - 1], rows[n], n, retriever)
  <2> SUFFICES ASSUME NEW n \in 1..N PROVE f[n] = Merged(f[n - 1], rows[n], n, retriever)
    OBVIOUS
  <2>1. n - 1 \in 0..N
    BY <1>1
  <2>2. f[n - 1] \in Good
    BY <1>4, <2>1
  <2> QED
    BY <1>4, <2>2
<1>6. f = [n \in 0..N |-> IF n = 0 THEN cands ELSE Merged(f[n - 1], rows[n], n, retriever)]
  <2>1. \A n \in 0..N : n # 0 => n \in 1..N
    BY <1>1
  <2> HIDE DEF N, next
  <2> QED
    BY <1>4, <1>5, <2>1
<1>7. MergedSoFar(retriever) =
         [n \in 0..N |-> IF n = 0 THEN cands
                         ELSE Merged(MergedSoFar(retriever)[n - 1], rows[n], n, retriever)]
  BY <1>6 DEF MergedSoFar
<1> DEFINE after == MergedSoFar(retriever)
           G == {n \in 0..N : after[n] \in Good}
<1> HIDE DEF after, N, next
<1>8. 0 \in G
  BY <1>1, <1>7 DEF after
<1>9. ASSUME NEW n \in 1..N, n - 1 \in G PROVE n \in G
  <2>1. after[n] = Merged(after[n - 1], rows[n], n, retriever) /\ n \in 0..N
    BY <1>1, <1>7 DEF after
  <2>2. after[n - 1] \in Good
    BY <1>9
  <2>3. after[n] \in Good
    BY <2>1, <2>2 DEF N
  <2> QED
    BY <2>1, <2>3
<1>10. N \in G
  <2>1. \A n \in 1..N : n - 1 \in G => n \in G
    BY <1>9
  <2> HIDE DEF G
  <2>2. \A n \in 0..N : n \in G
    BY <1>1, <1>8, <2>1, BoundedInduction
  <2> QED
    BY <1>1, <2>2
<1> QED
  BY <1>10 DEF after, N, MergedAll

\* Reranking keeps scores natural.
LEMMA RerankedIs == ASSUME NEW c \in Card PROVE Reranked(c) \in Nat
<1>1. \A score \in Nat : /\ Boost(score, PriorityWorkItem(c), 9, 10000) \in Nat
                        /\ Boost(score, PersonTitle(c), 10, 20000) \in Nat
                        /\ Boost(score, NamedPerson(c), 7, 4000) \in Nat
  BY DEF Boost
<1>2. c.score \in Nat
  BY DEF Card
<1> QED
  BY <1>1, <1>2 DEF Reranked

\* The order of the cards.
LEMMA RankingIs ==
    ASSUME NEW cs \in Seq(Card)
    PROVE  Ranking(cs) \in [1..Len(cs) -> 1..Len(cs)]
<1> DEFINE D == DOMAIN cs
           R == {p \in D \X D : BetterCard(cs, p[1], p[2])}
<1>1. Len(cs) \in Nat /\ cs \in [1..Len(cs) -> Card] /\ D = 1..Len(cs)
  BY LenProperties
<1>2. \A i \in D : /\ i \in Nat /\ Reranked(cs[i]) \in Nat /\ cs[i].ref \in Refs
                   /\ Order[cs[i].ref] \in Nat
  BY <1>1, RerankedIs, SearchRowsAssumption DEF Card
<1>3. \A i, j \in D : Order[cs[i].ref] = Order[cs[j].ref] <=> cs[i].ref = cs[j].ref
  BY <1>2, SearchRowsAssumption
<1>4. \A i, j \in D : <<i, j>> \in R <=> BetterCard(cs, i, j)
  OBVIOUS
<1>5. R \subseteq D \X D
  OBVIOUS
<1>6. Ranking(cs) = Ordered(D, R)
  BY DEF Ranking
<1>7. IsFiniteSet(D) /\ Cardinality(D) = Len(cs)
  BY <1>1, FS_Interval
<1> HIDE DEF D, R
<1>8. \A i \in D : ~ BetterCard(cs, i, i)
  BY <1>2 DEF BetterCard
<1>9. ASSUME NEW i \in D, NEW j \in D, NEW k \in D, BetterCard(cs, i, j), BetterCard(cs, j, k)
      PROVE  BetterCard(cs, i, k)
  BY <1>2, <1>3, <1>9 DEF BetterCard
<1>10. ASSUME NEW i \in D, NEW j \in D, i # j PROVE BetterCard(cs, i, j) \/ BetterCard(cs, j, i)
  BY <1>2, <1>3, <1>10 DEF BetterCard
<1>11. Orders(R, D)
  BY <1>4, <1>5, <1>8, <1>9, <1>10 DEF Orders
<1> QED
  BY <1>1, <1>6, <1>7, <1>11, Listed

\* What is ranked and diversified are cards there were.
LEMMA RankAndDiversifyIs ==
    ASSUME NEW cs \in Seq(Card)
    PROVE  /\ RankAndDiversify(cs) \in Seq(Card)
           /\ \A n \in DOMAIN RankAndDiversify(cs) :
                \E i \in DOMAIN cs : RankAndDiversify(cs)[n] = cs[i]
<1> DEFINE order == Ranking(cs)
           kept == {n \in DOMAIN order :
                       Cardinality({m \in 1..(n - 1) : cs[order[m]].ref = cs[order[n]].ref})
                           < MaxPerSource}
           best == InTurn(kept)
           size == Cardinality(kept)
           all == RankAndDiversify(cs)
<1>1. Len(cs) \in Nat /\ cs \in [1..Len(cs) -> Card] /\ DOMAIN cs = 1..Len(cs)
  BY LenProperties
<1>2. order \in [1..Len(cs) -> 1..Len(cs)] /\ DOMAIN order = 1..Len(cs)
  BY RankingIs
<1>3. all = [n \in DOMAIN best |-> cs[order[best[n]]]]
  BY DEF RankAndDiversify
<1>4. kept \in SUBSET (1..Len(cs))
  BY <1>2
<1> HIDE DEF order, kept, all
<1>5. size \in Nat /\ best \in [1..size -> kept]
  BY <1>1, <1>4, InTurnIs
<1> HIDE DEF best, size
<1>6. \A n \in 1..size : order[best[n]] \in 1..Len(cs)
  BY <1>2, <1>4, <1>5
<1>7. all = [n \in 1..size |-> cs[order[best[n]]]]
  BY <1>3, <1>5
<1>8. all \in [1..size -> Card]
  BY <1>1, <1>6, <1>7
<1>9. all \in Seq(Card) /\ DOMAIN all = 1..size
  BY <1>5, <1>8, ListIsSequence
<1>10. \A n \in 1..size : \E i \in DOMAIN cs : all[n] = cs[i]
  BY <1>1, <1>6, <1>7
<1> QED
  BY <1>9, <1>10 DEF all

\* The estimated tokens of cards are a number.
LEMMA TokensIs ==
    ASSUME NEW cs \in Seq(Card)
    PROVE  TokensOf(cs) \in Nat
<1> DEFINE N == Len(cs)
           next == [n \in 1..N |-> [sum \in Nat |-> sum + Cost[cs[n].ver]]]
<1>1. N \in Nat /\ cs \in [1..N -> Card]
  BY LenProperties
<1>2. \A n \in 1..N : Cost[cs[n].ver] \in Nat
  BY <1>1, AugmentationAssumption DEF Card
<1>3. next \in [1..N -> [Nat -> Nat]]
  BY <1>2
<1>4. PICK f : Follows(f, N, Nat, 0, next)
  <2> HIDE DEF N, next
  <2> QED
    BY <1>1, <1>3, RecursiveSequence
<1>5. f \in [0..N -> Nat] /\ f[0] = 0 /\ \A n \in 1..N : f[n] = next[n][f[n - 1]]
  BY <1>4 DEF Follows
<1>6. \A n \in 1..N : f[n] = f[n - 1] + Cost[cs[n].ver]
  <2> SUFFICES ASSUME NEW n \in 1..N PROVE f[n] = f[n - 1] + Cost[cs[n].ver]
    OBVIOUS
  <2>1. n - 1 \in 0..N
    BY <1>1
  <2>2. f[n - 1] \in Nat
    BY <1>5, <2>1
  <2> QED
    BY <1>5, <2>2
<1>7. f = [n \in 0..N |-> IF n = 0 THEN 0 ELSE f[n - 1] + Cost[cs[n].ver]]
  <2>1. \A n \in 0..N : n # 0 => n \in 1..N
    BY <1>1
  <2> HIDE DEF N, next
  <2> QED
    BY <1>5, <1>6, <2>1
<1>8. TokensSoFar(cs) =
         [n \in 0..N |-> IF n = 0 THEN 0 ELSE TokensSoFar(cs)[n - 1] + Cost[cs[n].ver]]
  BY <1>7 DEF TokensSoFar
<1> DEFINE sum == TokensSoFar(cs)
           G == {n \in 0..N : sum[n] \in Nat}
<1> HIDE DEF sum, N, next
<1>9. 0 \in G
  BY <1>1, <1>8 DEF sum
<1>10. ASSUME NEW n \in 1..N, n - 1 \in G PROVE n \in G
  <2>1. sum[n] = sum[n - 1] + Cost[cs[n].ver] /\ n \in 0..N
    BY <1>1, <1>8 DEF sum
  <2> QED
    BY <1>2, <1>10, <2>1
<1>11. N \in G
  <2>1. \A n \in 1..N : n - 1 \in G => n \in G
    BY <1>10
  <2> HIDE DEF G
  <2>2. \A n \in 0..N : n \in G
    BY <1>1, <1>9, <2>1, BoundedInduction
  <2> QED
    BY <1>1, <2>2
<1> QED
  BY <1>11 DEF sum, N, TokensOf

LEMMA FirstCards ==
    ASSUME NEW cs \in Seq(Card), NEW n \in 0..Len(cs)
    PROVE  /\ SubSeq(cs, 1, n) \in Seq(Card) /\ Len(SubSeq(cs, 1, n)) = n
           /\ DOMAIN SubSeq(cs, 1, n) = 1..n
           /\ \A i \in 1..n : i \in DOMAIN cs /\ SubSeq(cs, 1, n)[i] = cs[i]
<1>1. Len(cs) \in Nat /\ cs \in [1..Len(cs) -> Card] /\ DOMAIN cs = 1..Len(cs)
  BY LenProperties
<1>2. n \in Nat /\ n <= Len(cs) /\ \A i \in 1..n : cs[i] \in Card /\ i \in DOMAIN cs
  BY <1>1
<1>3. /\ SubSeq(cs, 1, n) \in Seq(Card)
      /\ Len(SubSeq(cs, 1, n)) = IF 1 <= n THEN n - 1 + 1 ELSE 0
      /\ \A i \in 1..(n - 1 + 1) : SubSeq(cs, 1, n)[i] = cs[1 + i - 1]
  BY <1>2, SubSeqProperties
<1>4. Len(SubSeq(cs, 1, n)) = n
  BY <1>2, <1>3
<1>5. \A i \in 1..n : SubSeq(cs, 1, n)[i] = cs[i]
  BY <1>2, <1>3
<1> QED
  BY <1>2, <1>3, <1>4, <1>5, LenProperties

\* The first cards that fit, up to one that does not.
LEMMA SelectionIs ==
    ASSUME NEW cs \in Seq(Card)
    PROVE  \E n \in 0..Len(cs) :
              /\ SelectForTokenBudget(cs) = SubSeq(cs, 1, n)
              /\ \A m \in 1..n : Fits(cs, m)
              /\ n = Len(cs) \/ ~ Fits(cs, n + 1)
<1> DEFINE N == Len(cs)
           Last(n) == /\ \A m \in 1..n : Fits(cs, m)
                      /\ n = N \/ ~ Fits(cs, n + 1)
           G == {n \in 0..N : \A m \in 1..n : Fits(cs, m)}
<1>1. N \in Nat
  BY LenProperties
<1>2. \E n \in 0..N : Last(n)
  <2> SUFFICES ASSUME \A n \in 0..N : ~ Last(n) PROVE FALSE
    OBVIOUS
  <2> HIDE DEF N
  <2>1. 0 \in G
    BY <1>1
  <2>2. ASSUME NEW n \in 1..N, n - 1 \in G PROVE n \in G
    <3>1. n - 1 \in 0..N /\ n - 1 # N /\ (n - 1) + 1 = n
      BY <1>1
    <3>2. \A m \in 1..(n - 1) : Fits(cs, m)
      BY <2>2
    <3>3. Fits(cs, n)
      BY <3>1, <3>2
    <3>4. \A m \in 1..n : m \in 1..(n - 1) \/ m = n
      BY <1>1
    <3>5. \A m \in 1..n : Fits(cs, m)
      BY <3>2, <3>3, <3>4
    <3> QED
      BY <1>1, <3>5
  <2>3. \A n \in 0..N : n \in G
    <3>1. \A n \in 1..N : n - 1 \in G => n \in G
      BY <2>2
    <3> HIDE DEF G
    <3> QED
      BY <1>1, <2>1, <3>1, BoundedInduction
  <2>4. N \in G /\ N \in 0..N
    BY <1>1, <2>3
  <2> QED
    BY <2>4
<1> DEFINE chosen == CHOOSE n \in 0..N : Last(n)
<1>3. chosen \in 0..N /\ Last(chosen)
  BY <1>2
<1>4. SelectForTokenBudget(cs) = SubSeq(cs, 1, chosen)
  BY DEF SelectForTokenBudget
<1> QED
  BY <1>3, <1>4

-----------------------------------------------------------------------------
(* The inductive invariant *)

QueryTypeOK ==
    /\ pc \in {"idle", "keyword", "fuzzy", "merge_keyword", "vector", "merge_vector", "rank",
               "direct", "related", "context", "event", "result_events", "answered", "raised"}
    /\ rows \in Seq(FoundRow)
    /\ cands \in Seq(Card) /\ ranked \in Seq(Card)
    /\ hints \subseteq Refs /\ live \subseteq Refs
    /\ calm \in [writes: BOOLEAN, query: BOOLEAN]

\* What is active now was active at some time since the query began.
LiveInv == pc # "idle" => ActiveRefs \subseteq live

\* Cards of sources that were not active come from the vector search alone.
Traced(cs) == \A i \in DOMAIN cs : cs[i].by # {"vector"} => cs[i].ref \in live

KeywordInv ==
    /\ pc \in {"fuzzy", "merge_keyword"} => RefsIn(rows) \subseteq live
    /\ Traced(cands) /\ Traced(ranked)

\* The answer is a part of what was ranked.
PackedInv == results = SelectForTokenBudget(ranked)

\* While writes come one after another, the vectors are of active sources, but
\* for those of the source that is being stored, whose row was stored first.
CalmInv ==
    calm.writes =>
        /\ ~ Overlapping
        /\ storing # Nil /\ storing.step # "row" =>
              row[RefOf[storing.ver]] = [ver |-> storing.ver, life |-> storing.life]
        /\ \A x \in vec : Active(x[1]) \/ (storing # Nil /\ x[1] = RefOf[storing.ver])
        /\ dropping # Nil => \A x \in vec : x[1] # dropping

\* The cards show active sources with their present text.
Current(cs) == \A i \in DOMAIN cs : Active(cs[i].ref) /\ row[cs[i].ref].ver = cs[i].ver

CurrentInv ==
    /\ calm.query => ~ Writing
    /\ calm.writes /\ calm.query =>
         /\ RefsIn(rows) \subseteq ActiveRefs
         /\ Current(cands) /\ Current(ranked)
         /\ hints \subseteq ActiveRefs

AugInv ==
    /\ IndexInv /\ QueryTypeOK /\ LiveInv /\ KeywordInv /\ PackedInv /\ CalmInv /\ CurrentInv

\* Nothing is found, merged, ranked and packed at the beginning.
LEMMA Nothing ==
    /\ <<>> \in Seq(FoundRow) /\ RefsIn(<<>>) = {}
    /\ <<>> \in Seq(Card) /\ Traced(<<>>) /\ Current(<<>>)
    /\ SelectForTokenBudget(<<>>) = <<>>
<1> DEFINE none == <<>>
<1>1. none \in Seq(FoundRow) /\ none \in Seq(Card) /\ DOMAIN none = {} /\ Len(none) = 0
  BY EmptySeq
<1>2. RefsIn(none) = {} /\ Traced(none) /\ Current(none)
  BY <1>1 DEF RefsIn, Traced, Current
<1>3. PICK n \in 0..Len(none) : SelectForTokenBudget(none) = SubSeq(none, 1, n)
  BY <1>1, SelectionIs
<1>4. /\ SubSeq(none, 1, n) \in Seq(Card) /\ Len(SubSeq(none, 1, n)) = 0
  BY <1>1, <1>3, FirstCards
<1>5. SubSeq(none, 1, n) = <<>>
  BY <1>4, EmptySeq
<1> QED
  BY <1>1, <1>2, <1>3, <1>5

\* While a settled index is read, its vectors are of active sources.
LEMMA SettledVectors ==
    ASSUME IndexInit
    PROVE  \A x \in vec : Active(x[1])
<1>1. PICK gone \in SUBSET Refs :
         /\ row = [r \in Refs |->
                     IF \E v \in Initially : RefOf[v] = r
                     THEN [ver |-> CHOOSE v \in Initially : RefOf[v] = r,
                           life |-> IF r \in gone THEN "inactive" ELSE "active"]
                     ELSE Nil]
         /\ vec = UNION {PiecesOf(v) : v \in {w \in Initially : RefOf[w] \notin gone}}
  BY DEF IndexInit
<1>2. ASSUME NEW x \in vec PROVE Active(x[1])
  <2>1. PICK v \in Initially : x \in PiecesOf(v) /\ RefOf[v] \notin gone
    BY <1>1
  <2>2. v \in Versions /\ x[1] = RefOf[v] /\ RefOf[v] \in Refs
    BY <2>1, PiecesType, ServingIndexAssumption
  <2>3. row[x[1]] = [ver |-> CHOOSE w \in Initially : RefOf[w] = RefOf[v], life |-> "active"]
    BY <1>1, <2>1, <2>2
  <2>4. (CHOOSE w \in Initially : RefOf[w] = RefOf[v]) \in Versions
    BY <2>1, ServingIndexAssumption
  <2>5. row[x[1]] \in Row /\ row[x[1]].life = "active"
    BY <2>3, <2>4 DEF Row
  <2> QED
    BY <2>5, NilIsNoRow DEF Active
<1> QED
  BY <1>2

LEMMA AugInit == Init => AugInv
<1> SUFFICES ASSUME Init PROVE AugInv
  OBVIOUS
<1>1. IndexInv /\ IndexInit
  BY IndexInvInit DEF Init
<1>2. storing = Nil /\ dropping = Nil
  BY <1>1 DEF IndexInit
<1>3. QueryTypeOK
  BY Nothing DEF Init, QueryTypeOK
<1>4. LiveInv
  BY DEF Init, LiveInv
<1>5. KeywordInv
  BY Nothing DEF Init, KeywordInv
<1>6. PackedInv
  BY Nothing DEF Init, PackedInv
<1>7. CalmInv
  BY <1>1, <1>2, SettledVectors DEF CalmInv, Overlapping
<1>8. CurrentInv
  BY <1>2, Nothing DEF Init, CurrentInv, Writing
<1> QED
  BY <1>1, <1>3, <1>4, <1>5, <1>6, <1>7, <1>8 DEF AugInv

-----------------------------------------------------------------------------
(* The statements of the query *)

\* A statement that reads the index keeps the invariant, if what it leaves
\* for the next one is as the invariant says.
LEMMA StatementKeeps ==
    ASSUME AugInv, UNCHANGED <<indexVars, seen>>, pc # "idle",
           pc' \in {"keyword", "fuzzy", "merge_keyword", "vector", "merge_vector", "rank",
                    "direct", "related", "context", "event", "result_events", "answered", "raised"},
           rows' \in Seq(FoundRow), cands' \in Seq(Card), ranked' \in Seq(Card), hints' \subseteq Refs,
           pc' \in {"fuzzy", "merge_keyword"} => RefsIn(rows') \subseteq live,
           Traced(cands'), Traced(ranked'),
           results' = SelectForTokenBudget(ranked'),
           calm.writes /\ calm.query =>
               /\ RefsIn(rows') \subseteq ActiveRefs
               /\ Current(cands') /\ Current(ranked') /\ hints' \subseteq ActiveRefs
    PROVE  AugInv'
<1>1. /\ row' = row /\ unit' = unit /\ vec' = vec /\ storing' = storing /\ dropping' = dropping
      /\ held' = held /\ object' = object /\ links' = links /\ writes' = writes
      /\ live' = live /\ calm' = calm
  BY DEF indexVars, tables, seen
<1>2. ActiveRefs' = ActiveRefs /\ \A r : Active(r)' <=> Active(r)
  BY <1>1 DEF ActiveRefs, Active
<1>3. IndexInv'
  BY <1>1 DEF AugInv, IndexInv, IndexTypeOK, RowsOfTheirRef, UnitsOfTheirRow, RowStored,
              VectorsOfOneContent, OneContent, PiecesOf
<1>4. QueryTypeOK'
  BY <1>1 DEF AugInv, QueryTypeOK
<1>5. LiveInv'
  BY <1>1, <1>2 DEF AugInv, LiveInv
<1>6. KeywordInv'
  BY <1>1 DEF KeywordInv, Traced, RefsIn
<1>7. PackedInv'
  BY DEF PackedInv
<1>8. CalmInv'
  BY <1>1, <1>2 DEF AugInv, CalmInv, Overlapping
<1>9. CurrentInv'
  <2>1. calm'.query => ~ Writing'
    BY <1>1 DEF AugInv, CurrentInv, Writing
  <2>2. ASSUME calm'.writes, calm'.query
        PROVE  (RefsIn(rows) \subseteq ActiveRefs /\ Current(cands) /\ Current(ranked)
                /\ hints \subseteq ActiveRefs)'
    <3>1. /\ RefsIn(rows') \subseteq ActiveRefs
          /\ Current(cands') /\ Current(ranked') /\ hints' \subseteq ActiveRefs
      BY <1>1, <2>2
    <3>2. Current(cands)'
      BY <1>1, <1>2, <3>1 DEF Current
    <3>3. Current(ranked)'
      BY <1>1, <1>2, <3>1 DEF Current
    <3> QED
      BY <1>2, <3>1, <3>2, <3>3
  <2> QED
    BY <2>1, <2>2 DEF CurrentInv
<1> QED
  BY <1>3, <1>4, <1>5, <1>6, <1>7, <1>8, <1>9 DEF AugInv

LEMMA BeginKeeps == ASSUME AugInv, Begin PROVE AugInv'
<1>1. /\ row' = row /\ unit' = unit /\ vec' = vec /\ storing' = storing /\ dropping' = dropping
      /\ held' = held /\ object' = object /\ links' = links /\ writes' = writes
  BY DEF Begin, indexVars, tables
<1>2. /\ ActiveRefs' = ActiveRefs /\ \A r : Active(r)' <=> Active(r)
      /\ ActiveRefs \subseteq Refs
  BY <1>1 DEF ActiveRefs, Active
<1>3. /\ calm' \in [writes: BOOLEAN, query: BOOLEAN]
      /\ calm'.writes = calm.writes /\ calm'.query = ~ Writing
  BY DEF Begin, AugInv, QueryTypeOK, Writing
<1>4. IndexInv'
  BY <1>1 DEF AugInv, IndexInv, IndexTypeOK, RowsOfTheirRef, UnitsOfTheirRow, RowStored,
              VectorsOfOneContent, OneContent, PiecesOf
<1>5. QueryTypeOK'
  BY <1>2, <1>3, Nothing DEF Begin, QueryTypeOK
<1>6. LiveInv'
  BY <1>2 DEF Begin, LiveInv
<1>7. KeywordInv'
  BY Nothing DEF Begin, KeywordInv, Traced, RefsIn
<1>8. PackedInv'
  BY Nothing DEF Begin, PackedInv
<1>9. CalmInv'
  BY <1>1, <1>2, <1>3 DEF AugInv, CalmInv, Overlapping
<1>10. CurrentInv'
  BY <1>1, <1>3, Nothing DEF Begin, CurrentInv, Writing, Current, RefsIn
<1> QED
  BY <1>4, <1>5, <1>6, <1>7, <1>8, <1>9, <1>10 DEF AugInv

\* What the invariant says of a statement's state.
LEMMA AtStatement ==
    ASSUME AugInv, pc # "idle"
    PROVE  /\ rows \in Seq(FoundRow) /\ cands \in Seq(Card) /\ ranked \in Seq(Card)
           /\ hints \subseteq Refs /\ ActiveRefs \subseteq live /\ IndexInv
           /\ Traced(cands) /\ Traced(ranked) /\ results = SelectForTokenBudget(ranked)
           /\ calm.query => ~ Writing
           /\ calm.writes /\ calm.query =>
                /\ RefsIn(rows) \subseteq ActiveRefs
                /\ Current(cands) /\ Current(ranked) /\ hints \subseteq ActiveRefs
BY DEF AugInv, QueryTypeOK, LiveInv, KeywordInv, PackedInv, CurrentInv

LEMMA SearchKeywordKeeps == ASSUME AugInv, SearchKeyword PROVE AugInv'
<1>1. pc # "idle" /\ pc' = "fuzzy"
  BY DEF SearchKeyword, Goto
<1>2. rows' = ExactRows({}) /\ UNCHANGED <<indexVars, seen, cands, ranked, results, hints>>
  BY DEF SearchKeyword
<1>3. rows' \in Seq(FoundRow) /\ RefsIn(rows') \subseteq ActiveRefs
  BY <1>1, <1>2, AtStatement, ExactRowsAre
<1> QED
  BY <1>1, <1>2, <1>3, AtStatement, StatementKeeps

LEMMA SearchFuzzyKeeps == ASSUME AugInv, SearchFuzzy PROVE AugInv'
<1>1. pc = "fuzzy" /\ pc' = "merge_keyword"
  BY DEF SearchFuzzy, Goto
<1>2. /\ rows' = IF Len(rows) >= CandidateLimit THEN rows ELSE rows \o FuzzyRows(rows, {})
      /\ UNCHANGED <<indexVars, seen, cands, ranked, results, hints>>
  BY DEF SearchFuzzy
<1>3. RefsIn(rows) \subseteq live /\ rows \in Seq(FoundRow)
  BY <1>1 DEF AugInv, KeywordInv, QueryTypeOK
<1>4. /\ rows' \in Seq(FoundRow)
      /\ RefsIn(rows') \subseteq RefsIn(rows) \union ActiveRefs
  <2>1. CASE Len(rows) >= CandidateLimit
    BY <1>2, <1>3, <2>1
  <2>2. CASE ~ (Len(rows) >= CandidateLimit)
    <3>1. Len(rows) < CandidateLimit
      BY <1>3, <2>2, LenProperties, SearchRowsAssumption
    <3>2. /\ FuzzyRows(rows, {}) \in Seq(FoundRow)
          /\ RefsIn(FuzzyRows(rows, {})) \subseteq ActiveRefs
      BY <1>1, <1>3, <3>1, AtStatement, FuzzyRowsAre
    <3>3. /\ rows \o FuzzyRows(rows, {}) \in Seq(FoundRow)
          /\ RefsIn(rows \o FuzzyRows(rows, {})) = RefsIn(rows) \union RefsIn(FuzzyRows(rows, {}))
      BY <1>3, <3>2, RefsOfBoth
    <3> QED
      BY <1>2, <2>2, <3>2, <3>3
  <2> QED
    BY <2>1, <2>2
<1> QED
  BY <1>1, <1>2, <1>3, <1>4, AtStatement, StatementKeeps

\* A merge of rows keeps what is said of the cards: the sources of a keyword
\* row are live, and those of any row active, when no write was under way.
LEMMA MergesAre ==
    ASSUME AugInv, pc # "idle", NEW retriever \in Retrievers,
           retriever # "vector" => RefsIn(rows) \subseteq live
    PROVE  /\ MergedAll(retriever) \in Seq(Card) /\ Traced(MergedAll(retriever))
           /\ calm.writes /\ calm.query => Current(MergedAll(retriever))
<1> DEFINE Good == {cs \in Seq(Card) : Traced(cs) /\ (calm.writes /\ calm.query => Current(cs))}
<1>1. cands \in Good /\ rows \in Seq(FoundRow) /\ IndexTypeOK
  BY AtStatement DEF IndexInv
<1>2. Len(rows) \in Nat /\ rows \in [1..Len(rows) -> FoundRow] /\ DOMAIN rows = 1..Len(rows)
  BY <1>1, LenProperties
<1>3. ASSUME NEW n \in 1..Len(rows), NEW cs \in Good
      PROVE  Merged(cs, rows[n], n, retriever) \in Good
  <2> DEFINE after == Merged(cs, rows[n], n, retriever)
             x == rows[n]
  <2>1. x \in FoundRow /\ x.ref \in RefsIn(rows) /\ n \in Nat /\ cs \in Seq(Card)
    BY <1>2 DEF RefsIn
  <2>2. MergeOf(cs, x, retriever, after)
    BY <1>1, <2>1, MergedIs
  <2> HIDE DEF after, x
  <2>3. ASSUME NEW i \in DOMAIN after, after[i].by # {"vector"} PROVE after[i].ref \in live
    <3>1. CASE retriever # "vector" /\ after[i].ref = x.ref
      BY <2>1, <3>1
    <3>2. CASE /\ i \in DOMAIN cs /\ after[i].ref = cs[i].ref
               /\ after[i].by = cs[i].by \/ after[i].by = cs[i].by \union {"vector"}
      <4>1. cs[i].by # {"vector"}
        BY <2>3, <3>2
      <4> QED
        BY <3>2, <4>1 DEF Traced
    <3> QED
      BY <2>2, <2>3, <3>1, <3>2 DEF MergeOf
  <2>4. ASSUME calm.writes, calm.query PROVE Current(after)
    <3>1. Current(cs) /\ x.ref \in ActiveRefs
      BY <2>1, <2>4, AtStatement
    <3>2. Active(x.ref) /\ row[x.ref] # Nil
      BY <3>1 DEF ActiveRefs, Active
    <3> QED
      BY <2>2, <3>1, <3>2 DEF Current, MergeOf
  <2>5. Traced(after)
    BY <2>3 DEF Traced
  <2> QED
    BY <2>2, <2>4, <2>5 DEF after, MergeOf
<1> HIDE DEF Good
<1>4. \A n \in 1..Len(rows), cs \in Good : Merged(cs, rows[n], n, retriever) \in Good
  BY <1>3
<1>5. MergedAll(retriever) \in Good
  BY <1>1, <1>4, MergedAllIs
<1> QED
  BY <1>5 DEF Good

LEMMA MergeKeeps == ASSUME AugInv, MergeKeyword \/ MergeVector PROVE AugInv'
<1>1. /\ pc # "idle" /\ pc' \in {"vector", "rank"} /\ rows' = <<>>
      /\ UNCHANGED <<indexVars, seen, ranked, results, hints>>
  BY DEF MergeKeyword, MergeVector, Goto
<1>2. PICK retriever \in Retrievers :
         /\ cands' = MergedAll(retriever)
         /\ retriever # "vector" => RefsIn(rows) \subseteq live
  <2>1. CASE MergeKeyword
    BY <2>1 DEF MergeKeyword, Goto, AugInv, KeywordInv, Retrievers
  <2>2. CASE MergeVector
    BY <2>2 DEF MergeVector, Retrievers
  <2> QED
    BY <2>1, <2>2
<1>3. /\ cands' \in Seq(Card) /\ Traced(cands')
      /\ calm.writes /\ calm.query => Current(cands')
  BY <1>1, <1>2, MergesAre
<1>4. rows' \in Seq(FoundRow) /\ RefsIn(rows') = {}
  BY <1>1, Nothing
<1> QED
  BY <1>1, <1>3, <1>4, AtStatement, StatementKeeps

LEMMA SearchVectorKeeps == ASSUME AugInv, SearchVector PROVE AugInv'
<1>1. /\ pc # "idle" /\ pc' = "merge_vector" /\ rows' \in {VectorRows, <<>>}
      /\ UNCHANGED <<indexVars, seen, cands, ranked, results, hints>>
  BY DEF SearchVector, Goto
<1>2. rows' \in Seq(FoundRow) /\ RefsIn(rows') \subseteq {x[1] : x \in vec}
  BY <1>1, VectorRowsAre, AtStatement, Nothing
<1>3. ASSUME calm.writes, calm.query PROVE RefsIn(rows') \subseteq ActiveRefs
  <2>1. storing = Nil
    BY <1>1, <1>3, AtStatement DEF Writing
  <2>2. \A x \in vec : Active(x[1]) /\ x[1] \in Refs
    BY <1>3, <2>1 DEF AugInv, CalmInv, IndexInv, IndexTypeOK
  <2> QED
    BY <1>2, <2>2 DEF ActiveRefs
<1> QED
  BY <1>1, <1>2, <1>3, AtStatement, StatementKeeps

LEMMA RankKeeps == ASSUME AugInv, Rank PROVE AugInv'
<1> DEFINE more(i) == [cands[i] EXCEPT !.score = @ + GraphLinkBoost(LinkCount(cands[i].ref))]
           boosted == [i \in DOMAIN cands |-> more(i)]
<1>1. /\ pc # "idle" /\ pc' = "direct" /\ ranked' = RankAndDiversify(boosted)
      /\ results' = SelectForTokenBudget(ranked') /\ cands' = <<>>
      /\ UNCHANGED <<indexVars, seen, rows, hints>>
  BY DEF Rank, Goto
<1>2. cands \in Seq(Card) /\ Traced(cands) /\ (calm.writes /\ calm.query => Current(cands))
  BY <1>1, AtStatement
<1>3. Len(cands) \in Nat /\ cands \in [1..Len(cands) -> Card] /\ DOMAIN cands = 1..Len(cands)
  BY <1>2, LenProperties
<1>4. ASSUME NEW i \in 1..Len(cands)
      PROVE  /\ more(i) \in Card /\ more(i).ref = cands[i].ref /\ more(i).ver = cands[i].ver
             /\ more(i).by = cands[i].by
  <2>1. GraphLinkBoost(LinkCount(cands[i].ref)) \in Nat
    <3>1. \A count : GraphLinkBoost(count) \in Nat
      BY DEF GraphLinkBoost
    <3> QED
      BY <3>1
  <2>2. cands[i] \in Card /\ cands[i].score + GraphLinkBoost(LinkCount(cands[i].ref)) \in Nat
    BY <1>3, <2>1 DEF Card
  <2> QED
    BY <2>2 DEF Card
<1> HIDE DEF more
<1>5. boosted \in [1..Len(cands) -> Card]
  BY <1>3, <1>4
<1>6. boosted \in Seq(Card) /\ DOMAIN boosted = 1..Len(cands)
  BY <1>3, <1>5, ListIsSequence
<1>7. \A i \in 1..Len(cands) : boosted[i] = more(i)
  BY <1>3
<1> HIDE DEF boosted
<1>8. /\ ranked' \in Seq(Card)
      /\ \A n \in DOMAIN ranked' : \E i \in 1..Len(cands) : ranked'[n] = more(i)
  BY <1>1, <1>6, <1>7, RankAndDiversifyIs
<1>9. Traced(ranked')
  BY <1>2, <1>3, <1>4, <1>8 DEF Traced
<1>10. calm.writes /\ calm.query => Current(ranked')
  BY <1>2, <1>3, <1>4, <1>8 DEF Current
<1> QED
  BY <1>1, <1>8, <1>9, <1>10, Nothing, AtStatement, StatementKeeps

\* The hints are of sources that are ranked.
LEMMA HintsAre ==
    ASSUME NEW near, ranked \in Seq(Card)
    PROVE  HintsSoFar(near)[Len(ranked)] \subseteq RefsIn(ranked)
<1> DEFINE N == Len(ranked)
           Sets == SUBSET RefsIn(ranked)
           none == {}
           next == [n \in 1..N |-> [given \in Sets |-> WithHint(given, ranked[n].ref, near)]]
<1>1. N \in Nat /\ DOMAIN ranked = 1..N
  BY LenProperties
<1>2. \A n \in 1..N : \A given \in Sets : WithHint(given, ranked[n].ref, near) \in Sets
  BY <1>1 DEF WithHint, RefsIn
<1>3. next \in [1..N -> [Sets -> Sets]] /\ none \in Sets
  BY <1>2
<1>4. PICK f : Follows(f, N, Sets, none, next)
  <2> HIDE DEF N, next, Sets, none
  <2> QED
    BY <1>1, <1>3, RecursiveSequence
<1>5. f \in [0..N -> Sets] /\ f[0] = {} /\ \A n \in 1..N : f[n] = next[n][f[n - 1]]
  BY <1>4 DEF Follows
<1>6. \A n \in 1..N : f[n] = WithHint(f[n - 1], ranked[n].ref, near)
  <2> SUFFICES ASSUME NEW n \in 1..N PROVE f[n] = WithHint(f[n - 1], ranked[n].ref, near)
    OBVIOUS
  <2>1. n - 1 \in 0..N
    BY <1>1
  <2>2. f[n - 1] \in Sets
    BY <1>5, <2>1
  <2> QED
    BY <1>5, <2>2
<1> HIDE DEF next
<1>7. f = [n \in 0..N |-> IF n = 0 THEN {} ELSE WithHint(f[n - 1], ranked[n].ref, near)]
  <2>1. \A n \in 0..N : n # 0 => n \in 1..N
    BY <1>1
  <2> HIDE DEF N, Sets
  <2> QED
    BY <1>5, <1>6, <2>1
<1>8. HintsSoFar(near) =
         [n \in 0..N |-> IF n = 0 THEN {}
                         ELSE WithHint(HintsSoFar(near)[n - 1], ranked[n].ref, near)]
  BY <1>7 DEF HintsSoFar
<1> DEFINE sofar == HintsSoFar(near)
           G == {n \in 0..N : sofar[n] \in Sets}
<1> HIDE DEF sofar, N, Sets
<1>9. 0 \in G
  BY <1>1, <1>3, <1>8 DEF sofar
<1>10. ASSUME NEW n \in 1..N, n - 1 \in G PROVE n \in G
  <2>1. n \in 0..N /\ n # 0
    BY <1>1
  <2>2. sofar[n] = WithHint(sofar[n - 1], ranked[n].ref, near)
    BY <1>8, <2>1, Zenon DEF sofar
  <2> QED
    BY <1>2, <1>10, <2>1, <2>2
<1>11. N \in G
  <2>1. \A n \in 1..N : n - 1 \in G => n \in G
    BY <1>10
  <2> HIDE DEF G
  <2>2. \A n \in 0..N : n \in G
    BY <1>1, <1>9, <2>1, BoundedInduction
  <2> QED
    BY <1>1, <2>2
<1> QED
  BY <1>11 DEF sofar, N, Sets

LEMMA FindHintsKeeps == ASSUME AugInv, FindHints PROVE AugInv'
<1>1. /\ pc # "idle" /\ pc' = "event"
      /\ UNCHANGED <<indexVars, seen, rows, cands, ranked, results>>
  BY DEF FindHints, Goto
<1>2. ranked \in Seq(Card)
  BY <1>1, AtStatement
<1>3. hints' \subseteq RefsIn(ranked)
  BY <1>2, HintsAre DEF FindHints
<1>4. ranked \in [1..Len(ranked) -> Card] /\ DOMAIN ranked = 1..Len(ranked)
  BY <1>2, LenProperties
<1>5. RefsIn(ranked) \subseteq Refs
  BY <1>4 DEF RefsIn, Card
<1>6. Current(ranked) => RefsIn(ranked) \subseteq ActiveRefs
  BY <1>5 DEF Current, ActiveRefs, RefsIn
<1> QED
  BY <1>1, <1>3, <1>5, <1>6, AtStatement, StatementKeeps

\* The statements that leave the rows, the cards and the hints alone.
LEMMA OthersKeep ==
    ASSUME AugInv, \/ MatchPersons \/ RelatePersons \/ RecordQuery \/ RecordResults
                   \/ \E r \in Refs : Open(r)
    PROVE  AugInv'
<1>1. /\ pc # "idle"
      /\ pc' \in {"related", "context", "result_events", "answered"}
      /\ UNCHANGED <<indexVars, seen, rows, cands, ranked, results, hints>>
  BY DEF MatchPersons, RelatePersons, RecordQuery, RecordResults, Open, Goto
<1> QED
  BY <1>1, AtStatement, StatementKeeps

LEMMA RaiseKeeps == ASSUME AugInv, Raise PROVE AugInv'
<1>1. /\ pc # "idle" /\ pc' = "raised"
      /\ rows' = <<>> /\ cands' = <<>> /\ ranked' = <<>> /\ results' = <<>> /\ hints' = {}
      /\ UNCHANGED <<indexVars, seen>>
  BY DEF Raise
<1>2. /\ rows' \in Seq(FoundRow) /\ RefsIn(rows') = {}
      /\ cands' \in Seq(Card) /\ Traced(cands') /\ Current(cands')
      /\ ranked' \in Seq(Card) /\ Traced(ranked') /\ Current(ranked')
      /\ results' = SelectForTokenBudget(ranked')
  BY <1>1, Nothing
<1> QED
  BY <1>1, <1>2, StatementKeeps

-----------------------------------------------------------------------------
(* The writers *)

\* While writes come one after another, each of them leaves vectors of active
\* sources, but for the one that it is still to replace or has withdrawn.
LEMMA WriterIsCalm ==
    ASSUME IndexInv, CalmInv, WriterStep, calm.writes, ~ Overlapping',
           calm'.writes
    PROVE  CalmInv'
<1> USE ServingIndexAssumption
<1>1. /\ row \in [Refs -> Row \union {Nil}] /\ vec \subseteq Piece /\ IndexTypeOK
      /\ storing \in Application \union {Nil} /\ dropping \in Refs \union {Nil}
  BY DEF IndexInv, IndexTypeOK, Piece
<1>2. /\ ~ (storing # Nil /\ dropping # Nil)
      /\ storing # Nil /\ storing.step # "row" =>
            row[RefOf[storing.ver]] = [ver |-> storing.ver, life |-> storing.life]
      /\ \A x \in vec : Active(x[1]) \/ (storing # Nil /\ x[1] = RefOf[storing.ver])
      /\ dropping # Nil => \A x \in vec : x[1] # dropping
  BY DEF CalmInv, Overlapping
<1>3. ~ (storing' # Nil /\ dropping' # Nil)
  BY DEF Overlapping
<1>4. \A x \in vec : x[1] \in Refs
  BY <1>1 DEF Piece
<1>5. \A v \in Versions : v # Nil /\ RefOf[v] \in Refs
  OBVIOUS
<1>6. SUFFICES
         /\ storing' # Nil /\ storing'.step # "row" =>
               row'[RefOf[storing'.ver]] = [ver |-> storing'.ver, life |-> storing'.life]
         /\ \A x \in vec' : Active(x[1])' \/ (storing' # Nil /\ x[1] = RefOf[storing'.ver])
         /\ dropping' # Nil => \A x \in vec' : x[1] # dropping'
  BY <1>3 DEF CalmInv, Overlapping
<1>7. ASSUME NEW v \in Versions, BeginStore(v) \/ BeginRestore(v)
      PROVE  /\ storing'.step = "row" /\ storing' # Nil /\ dropping' = Nil
             /\ \A x \in vec' : Active(x[1])'
  <2>1. storing = Nil /\ dropping' = dropping /\ vec' = vec
    BY <1>7 DEF BeginStore, BeginRestore, tables
  <2>2. storing' \in Application /\ storing'.step = "row"
    BY <1>7 DEF BeginStore, BeginRestore, Application, Steps
  <2>3. storing' # Nil /\ dropping' = Nil
    BY <1>3, <2>2, NilIsNoRow
  <2>4. \A x \in vec : Active(x[1])
    BY <1>2, <2>1
  <2>5. ASSUME NEW r \in Refs, Active(r) PROVE Active(r)'
    <3>1. CASE row' = row
      BY <2>5, <3>1 DEF Active
    <3>2. CASE BeginRestore(v)
      <4>1. row'[r] = row[r] \/ row'[r] = [row[r] EXCEPT !.life = "active"]
        BY <1>1, <2>5, <3>2 DEF BeginRestore, Active
      <4>2. row[r] \in Row
        BY <1>1, <2>5 DEF Active
      <4>3. row'[r] \in Row /\ row'[r].life = "active"
        BY <2>5, <4>1, <4>2 DEF Row, Active
      <4> QED
        BY <4>3, NilIsNoRow DEF Active
    <3> QED
      BY <1>7, <3>1, <3>2 DEF BeginStore, tables
  <2> QED
    BY <1>4, <2>1, <2>2, <2>3, <2>4, <2>5
<1>8. CASE StoreRow
  <2> DEFINE new == [ver |-> storing.ver, life |-> storing.life]
             r == RefOf[storing.ver]
  <2>1. new \in Row /\ new # Nil /\ r \in Refs /\ row' = [row EXCEPT ![r] = new]
    BY <1>1, <1>8, StoredRow
  <2>2. /\ storing \in Application /\ storing # Nil /\ dropping' = dropping /\ vec' = vec
        /\ storing' = [storing EXCEPT !.step = "objects"]
    BY <1>1, <1>8 DEF StoreRow, StoreStep
  <2>3. storing' \in Application /\ storing'.ver = storing.ver /\ storing'.life = storing.life
    BY <2>2 DEF Application, Steps
  <2>4. row'[r] = new /\ \A s \in Refs : s # r => row'[s] = row[s]
    BY <1>1, <2>1
  <2>5. storing' # Nil
    BY <2>3, NilIsNoRow
  <2>6. \A x \in vec' : Active(x[1])' \/ x[1] = RefOf[storing'.ver]
    BY <1>2, <1>4, <2>2, <2>3, <2>4 DEF Active
  <2> QED
    BY <1>2, <2>2, <2>3, <2>4, <2>5, <2>6
<1>9. ASSUME NEW to \in Steps \ {"row"}, NEW from \in Steps \ {"row"}, StoreStep(from, to),
             row' = row, vec' = vec
      PROVE  /\ storing' # Nil /\ dropping' = Nil
             /\ row'[RefOf[storing'.ver]] = [ver |-> storing'.ver, life |-> storing'.life]
             /\ \A x \in vec' : Active(x[1])' \/ x[1] = RefOf[storing'.ver]
  <2>1. /\ storing \in Application /\ storing # Nil /\ storing.step # "row"
        /\ storing' = [storing EXCEPT !.step = to] /\ dropping' = dropping
    BY <1>1, <1>9 DEF StoreStep, Steps
  <2>2. storing' \in Application /\ storing'.ver = storing.ver /\ storing'.life = storing.life
    BY <2>1 DEF Application
  <2>3. storing' # Nil
    BY <2>2, NilIsNoRow
  <2> QED
    BY <1>2, <1>9, <2>1, <2>2, <2>3 DEF Active
<1>10. CASE StoreObjects
  BY <1>9, <1>10 DEF StoreObjects, Steps
<1>11. CASE StoreLinks
  BY <1>9, <1>11 DEF StoreLinks, Steps
<1>12. CASE StoreUnits
  BY <1>9, <1>12 DEF StoreUnits, Steps
<1>13. CASE StoreVectors
  <2>1. /\ storing \in Application /\ storing # Nil /\ storing.step # "row" /\ dropping = Nil
        /\ storing' = Nil /\ dropping' = dropping /\ row' = row
        /\ vec' = Others(vec, RefOf[storing.ver]) \union Replacement
    BY <1>1, <1>2, <1>13 DEF StoreVectors, StoreStep
  <2>2. \A x \in Others(vec, RefOf[storing.ver]) : Active(x[1])
    BY <1>2 DEF Others
  <2>3. ASSUME NEW x \in Replacement PROVE Active(x[1])
    <3>1. x[1] = RefOf[storing.ver] /\ storing.life = "active"
      BY <1>1, <2>1, ReplacementType
    <3>2. row[x[1]] = [ver |-> storing.ver, life |-> "active"]
      BY <1>2, <2>1, <3>1
    <3>3. row[x[1]] \in Row /\ row[x[1]].life = "active"
      BY <2>1, <3>2 DEF Row, Application
    <3> QED
      BY <3>3, NilIsNoRow DEF Active
  <2>4. \A x \in vec' : Active(x[1])'
    BY <2>1, <2>2, <2>3 DEF Active
  <2> QED
    BY <2>1, <2>4
<1>14. ASSUME NEW r \in Refs, Withdraw(r)
       PROVE  /\ storing' = Nil
              /\ \A x \in vec' : Active(x[1])' /\ x[1] # dropping'
  <2>1. dropping' = r /\ vec' = Others(vec, r) /\ row' = row /\ storing' = storing
    BY <1>14 DEF Withdraw
  <2>2. storing = Nil
    BY <1>3, <2>1
  <2> QED
    BY <1>2, <2>1, <2>2 DEF Others, Active
<1>15. CASE MarkInactive
  <2>1. /\ dropping \in Refs /\ dropping # Nil /\ dropping' = Nil /\ storing' = storing
        /\ storing = Nil /\ vec' = vec
        /\ \A s \in Refs : s # dropping => row'[s] = row[s]
    BY <1>1, <1>2, <1>15 DEF MarkInactive
  <2>2. \A x \in vec : Active(x[1]) /\ x[1] # dropping /\ row'[x[1]] = row[x[1]]
    BY <1>2, <1>4, <2>1
  <2> QED
    BY <2>1, <2>2 DEF Active
<1> QED
  BY <1>7, <1>8, <1>10, <1>11, <1>12, <1>13, <1>14, <1>15 DEF WriterStep

LEMMA WriteKeeps == ASSUME AugInv, Write \/ Stop PROVE AugInv'
<1>1. /\ WriterStep \/ WriterStop
      /\ UNCHANGED <<pc, rows, cands, ranked, results, hints>>
      /\ live' = live \union {r \in Refs : row'[r] # Nil /\ row'[r].life = "active"}
  BY DEF Write, Stop, Observe
<1>2. IndexInv'
  BY <1>1, IndexInvStep DEF AugInv
<1>3. ActiveRefs' \subseteq live' /\ live \subseteq live' /\ live' \subseteq Refs
  BY <1>1 DEF ActiveRefs, Active, AugInv, QueryTypeOK
<1>4. /\ calm' \in [writes: BOOLEAN, query: BOOLEAN] /\ calm'.query = FALSE
      /\ calm'.writes => calm.writes /\ ~ Overlapping' /\ WriterStep
  <2>1. CASE Write
    BY <2>1 DEF Write, AugInv, QueryTypeOK, Overlapping
  <2>2. CASE Stop
    BY <2>2 DEF Stop
  <2> QED
    BY <1>1, <2>1, <2>2
<1>5. QueryTypeOK'
  BY <1>1, <1>3, <1>4 DEF AugInv, QueryTypeOK
<1>6. LiveInv'
  BY <1>3 DEF LiveInv
<1>7. KeywordInv'
  BY <1>1, <1>3 DEF AugInv, KeywordInv, Traced, RefsIn
<1>8. PackedInv'
  BY <1>1 DEF AugInv, PackedInv
<1>9. CalmInv'
  <2>1. CASE ~ calm'.writes
    BY <2>1 DEF CalmInv
  <2>2. CASE calm'.writes
    BY <1>4, <2>2, WriterIsCalm DEF AugInv
  <2> QED
    BY <2>1, <2>2
<1>10. CurrentInv'
  BY <1>4 DEF CurrentInv
<1> QED
  BY <1>2, <1>5, <1>6, <1>7, <1>8, <1>9, <1>10 DEF AugInv

LEMMA AugStep == ASSUME AugInv, [Next]_vars PROVE AugInv'
<1>1. CASE UNCHANGED vars
  BY <1>1 DEF vars, indexVars, tables, queryVars, seen, AugInv, IndexInv, IndexTypeOK,
              RowsOfTheirRef, UnitsOfTheirRow, RowStored, VectorsOfOneContent, OneContent,
              PiecesOf, QueryTypeOK, LiveInv, KeywordInv, PackedInv, CalmInv, CurrentInv,
              Traced, Current, ActiveRefs, Active, Writing, Overlapping, RefsIn
<1>2. CASE Begin
  BY <1>2, BeginKeeps
<1>3. CASE SearchKeyword
  BY <1>3, SearchKeywordKeeps
<1>4. CASE SearchFuzzy
  BY <1>4, SearchFuzzyKeeps
<1>5. CASE MergeKeyword \/ MergeVector
  BY <1>5, MergeKeeps
<1>6. CASE SearchVector
  BY <1>6, SearchVectorKeeps
<1>7. CASE Rank
  BY <1>7, RankKeeps
<1>8. CASE FindHints
  BY <1>8, FindHintsKeeps
<1>9. CASE \/ MatchPersons \/ RelatePersons \/ RecordQuery \/ RecordResults
           \/ \E r \in Refs : Open(r)
  BY <1>9, OthersKeep
<1>10. CASE Raise
  BY <1>10, RaiseKeeps
<1>11. CASE Write \/ Stop
  BY <1>11, WriteKeeps
<1> QED
  BY <1>1, <1>2, <1>3, <1>4, <1>5, <1>6, <1>7, <1>8, <1>9, <1>10, <1>11 DEF Next

LEMMA AugAlways == Spec => []AugInv
<1> QED
  BY AugInit, AugStep, PTL DEF Spec

-----------------------------------------------------------------------------
(* What a retrieval answers *)

\* The results are the first of the ranked cards.
LEMMA ResultsAre ==
    ASSUME AugInv
    PROVE  \E n \in 0..Len(ranked) :
              /\ ranked \in Seq(Card) /\ Len(ranked) \in Nat
              /\ results = SubSeq(ranked, 1, n) /\ Len(results) = n
              /\ DOMAIN results = 1..n
              /\ \A i \in 1..n : i \in DOMAIN ranked /\ results[i] = ranked[i]
              /\ \A m \in 1..n : Fits(ranked, m)
              /\ n = Len(ranked) \/ ~ Fits(ranked, n + 1)
<1>1. ranked \in Seq(Card) /\ results = SelectForTokenBudget(ranked) /\ Len(ranked) \in Nat
  BY LenProperties DEF AugInv, QueryTypeOK, PackedInv
<1>2. PICK n \in 0..Len(ranked) :
         /\ SelectForTokenBudget(ranked) = SubSeq(ranked, 1, n)
         /\ \A m \in 1..n : Fits(ranked, m)
         /\ n = Len(ranked) \/ ~ Fits(ranked, n + 1)
  BY <1>1, SelectionIs
<1> QED
  BY <1>1, <1>2, FirstCards

\* A source that was not active at any time while the query ran is shown only
\* because a chunk of it was left in the vector index: rows of the keyword
\* search are of sources that were active when it read them.
THEOREM UnseenComeFromVectors == Spec => []UnseenOnlyByVector
<1>1. AugInv => UnseenOnlyByVector
  <2> SUFFICES ASSUME AugInv, NEW i \in DOMAIN results, results[i].ref \notin live
               PROVE  results[i].by = {"vector"}
    BY DEF UnseenOnlyByVector
  <2>1. i \in DOMAIN ranked /\ results[i] = ranked[i]
    BY ResultsAre
  <2> QED
    BY <2>1 DEF AugInv, KeywordInv, Traced
<1> QED
  BY <1>1, AugAlways, PTL

\* While writes come one after another and none is cut short, a query that no
\* write runs into shows active sources with the text they have now, and
\* names no other ones but persons.
THEOREM CalmQueriesAreCurrent == Spec => []SerialIndexServesActive
<1>1. AugInv => SerialIndexServesActive
  <2> SUFFICES ASSUME AugInv, calm.writes, calm.query
               PROVE  /\ \A i \in DOMAIN results :
                           Active(results[i].ref) /\ row[results[i].ref].ver = results[i].ver
                      /\ \A r \in BlockRefs \ PeopleNamed : Active(r)
    BY DEF SerialIndexServesActive
  <2>1. Current(ranked) /\ hints \subseteq ActiveRefs
    BY DEF AugInv, CurrentInv
  <2>2. ASSUME NEW i \in DOMAIN results
        PROVE  Active(results[i].ref) /\ row[results[i].ref].ver = results[i].ver
    <3>1. i \in DOMAIN ranked /\ results[i] = ranked[i]
      BY ResultsAre
    <3> QED
      BY <2>1, <3>1 DEF Current
  <2>3. ASSUME NEW r \in BlockRefs \ PeopleNamed PROVE Active(r)
    <3>1. r \in RefsIn(results) \/ r \in hints
      BY DEF BlockRefs
    <3> QED
      BY <2>1, <2>2, <3>1 DEF RefsIn, ActiveRefs
  <2> QED
    BY <2>2, <2>3
<1> QED
  BY <1>1, AugAlways, PTL

\* The cards of an answer cost at most the token budget, or there is one only;
\* and no card is left out that would still have fitted.
THEOREM AnswersArePacked == Spec => []PackedWithinBudget
<1>1. AugInv => PackedWithinBudget
  <2> SUFFICES ASSUME AugInv
               PROVE  /\ Len(results) > 1 => TokensOf(results) <= TokenBudget
                      /\ Len(results) < Len(ranked) =>
                            TokensOf(SubSeq(ranked, 1, Len(results) + 1)) > TokenBudget
    BY DEF PackedWithinBudget
  <2>1. PICK n \in 0..Len(ranked) :
          /\ ranked \in Seq(Card) /\ Len(ranked) \in Nat
          /\ results = SubSeq(ranked, 1, n) /\ Len(results) = n
          /\ \A m \in 1..n : Fits(ranked, m)
          /\ n = Len(ranked) \/ ~ Fits(ranked, n + 1)
    BY ResultsAre
  <2>2. n > 1 => TokensOf(results) <= TokenBudget
    BY <2>1 DEF Fits
  <2>3. ASSUME n < Len(ranked) PROVE TokensOf(SubSeq(ranked, 1, n + 1)) > TokenBudget
    <3>1. n + 1 \in 0..Len(ranked) /\ ~ Fits(ranked, n + 1)
      BY <2>1, <2>3
    <3>2. TokensOf(SubSeq(ranked, 1, n + 1)) \in Nat
      BY <2>1, <3>1, FirstCards, TokensIs
    <3> QED
      BY <3>1, <3>2, AugmentationAssumption DEF Fits
  <2> QED
    BY <2>1, <2>2, <2>3
<1> QED
  BY <1>1, AugAlways, PTL

=============================================================================
