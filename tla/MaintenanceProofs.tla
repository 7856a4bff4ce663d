------------------------- MODULE MaintenanceProofs -------------------------
(***************************************************************************)
(* What holds of the serving tables and the jobs over them for every set   *)
(* of sources and contents, every number of writes and of jobs.            *)
(***************************************************************************)
EXTENDS Maintenance, TLAPS

-----------------------------------------------------------------------------
(* Types *)

Piece == Refs \X Nat \X Versions
Rows == [Refs -> Row \union {Nil}]
Rebuilding == {"delete_units", "insert_units", "replace_vectors", "delete_objects",
               "delete_links", "insert_objects", "insert_links"}

\* A row holds a content of its source.
RowsOfTheirRef(rows) == \A r \in Refs : rows[r] # Nil => RefOf[rows[r].ver] = r

Dump == [held: SUBSET Refs, row: {rows \in Rows : RowsOfTheirRef(rows)},
         unit: SUBSET Piece, vec: SUBSET Piece,
         object: SUBSET Refs, links: SUBSET (Refs \X Refs), whole: BOOLEAN]

JobsTypeOK ==
    /\ raw \subseteq Refs
    /\ putting \in RawStep \union {Nil}
    /\ job \in Rebuilding \union {"idle", "index_vectors", "purge"}
    /\ read \in [row: Rows, unit: SUBSET Piece]
    /\ doomed \subseteq Refs
    /\ jobs \in Nat
    /\ dump \in Dump \union {Nil}
    /\ <<met, overlapped, cut, restored>> \in BOOLEAN \X BOOLEAN \X BOOLEAN \X BOOLEAN

TypeInv == IndexTypeOK /\ RowsOfTheirRef(row) /\ JobsTypeOK

\* The pieces a content is cut into are pieces of its source.
LEMMA PiecesType ==
    ASSUME NEW v \in Versions
    PROVE  PiecesOf(v) \subseteq Piece /\ \A x \in PiecesOf(v) : x[1] = RefOf[v] /\ x[3] = v
BY ServingIndexAssumption DEF PiecesOf, Piece

\* A rebuild prepares the pieces of the active rows' contents, and only those.
LEMMA PreparedPieces ==
    ASSUME NEW rows \in Rows
    PROVE  /\ Prepared(rows) \subseteq Piece
           /\ \A x \in Prepared(rows) :
                 /\ x[1] \in Refs /\ rows[x[1]] # Nil
                 /\ rows[x[1]].life = "active" /\ x[3] = rows[x[1]].ver
           /\ \A r \in Refs : rows[r] # Nil /\ rows[r].life = "active" =>
                 \A i \in BodyUnits[rows[r].ver] : <<r, i, rows[r].ver>> \in Prepared(rows)
<1>1. \A r \in Refs : rows[r] # Nil =>
         rows[r].ver \in Versions /\ BodyUnits[rows[r].ver] \subseteq Nat
  BY MaintenanceAssumption DEF Rows, Row
<1>2. ASSUME NEW x \in Prepared(rows)
      PROVE  \E r \in Refs : /\ rows[r] # Nil /\ rows[r].life = "active"
                             /\ \E i \in BodyUnits[rows[r].ver] : x = <<r, i, rows[r].ver>>
  BY DEF Prepared
<1>3. ASSUME NEW x \in Prepared(rows)
      PROVE  /\ x \in Piece /\ x[1] \in Refs /\ rows[x[1]] # Nil
             /\ rows[x[1]].life = "active" /\ x[3] = rows[x[1]].ver
  BY <1>1, <1>2 DEF Piece
<1>4. ASSUME NEW r \in Refs, rows[r] # Nil, rows[r].life = "active",
             NEW i \in BodyUnits[rows[r].ver]
      PROVE  <<r, i, rows[r].ver>> \in Prepared(rows)
  BY <1>4 DEF Prepared
<1> QED
  BY <1>3, <1>4

\* What is upserted is in the table afterwards, and nothing that was in neither.
LEMMA UpsertedPieces ==
    ASSUME NEW table, NEW new
    PROVE  /\ new \subseteq Upserted(table, new)
           /\ Upserted(table, new) \subseteq table \union new
           /\ table = {} => Upserted(table, new) = new
BY DEF Upserted

LEMMA TypeInit == Init => TypeInv
<1> SUFFICES ASSUME Init PROVE TypeInv
  OBVIOUS
<1> USE ServingIndexAssumption
<1>1. PICK gone \in SUBSET Refs, relinked \in SUBSET Initially :
         LET kept == {v \in Initially : RefOf[v] \notin gone} IN
         /\ relinked \subseteq Initially \ kept
         /\ held = gone
         /\ row = [r \in Refs |->
                     IF \E v \in Initially : RefOf[v] = r
                     THEN [ver |-> CHOOSE v \in Initially : RefOf[v] = r,
                           life |-> IF r \in gone THEN "inactive" ELSE "active"]
                     ELSE Nil]
         /\ unit = UNION {PiecesOf(v) : v \in kept}
         /\ vec = UNION {PiecesOf(v) : v \in kept}
         /\ object = {RefOf[v] : v \in Initially}
         /\ links = {l \in UNION {LinksOf[v] : v \in kept} : l[2] \notin gone}
                      \union UNION {LinksOf[v] : v \in relinked}
         /\ storing = Nil /\ dropping = Nil /\ writes = 0
  BY DEF Init, IndexInit
<1>2. ASSUME NEW r \in Refs
      PROVE  row[r] \in Row \union {Nil} /\ (row[r] # Nil => RefOf[row[r].ver] = r)
  <2>1. CASE \E v \in Initially : RefOf[v] = r
    BY <1>1, <2>1 DEF Row
  <2>2. CASE ~ \E v \in Initially : RefOf[v] = r
    BY <1>1, <2>2
  <2> QED
    BY <2>1, <2>2
<1>3. row \in Rows /\ RowsOfTheirRef(row)
  BY <1>1, <1>2 DEF Rows, RowsOfTheirRef
<1>4. unit \subseteq Piece /\ vec \subseteq Piece
  BY <1>1, PiecesType
<1>5. IndexTypeOK
  BY <1>1, <1>3, <1>4 DEF IndexTypeOK, Rows, Piece
<1>6. NoRead \in [row: Rows, unit: SUBSET Piece]
  BY DEF NoRead, Rows
<1>7. JobsTypeOK
  BY <1>6 DEF Init, JobsTypeOK, Rebuilding
<1> QED
  BY <1>3, <1>5, <1>7 DEF TypeInv

\* A row whose state is overwritten keeps its type and its content.
LEMMA OverwrittenRow ==
    ASSUME NEW rows \in Rows, RowsOfTheirRef(rows), NEW r \in Refs, NEW life \in {"active", "inactive"}
    PROVE  LET new == [rows EXCEPT ![r] = IF @ = Nil THEN Nil ELSE [@ EXCEPT !.life = life]]
           IN  new \in Rows /\ RowsOfTheirRef(new)
<1> DEFINE new == [rows EXCEPT ![r] = IF @ = Nil THEN Nil ELSE [@ EXCEPT !.life = life]]
<1>1. rows[r] # Nil => /\ [rows[r] EXCEPT !.life = life] \in Row
                       /\ [rows[r] EXCEPT !.life = life].ver = rows[r].ver
  BY DEF Rows, Row
<1>2. new \in Rows
  BY <1>1 DEF Rows
<1>3. RowsOfTheirRef(new)
  BY <1>1 DEF Rows, RowsOfTheirRef
<1> QED
  BY <1>2, <1>3

\* What replaces the pieces of a stored source is cut from its content.
LEMMA ReplacementType ==
    ASSUME IndexTypeOK, storing # Nil
    PROVE  /\ storing \in Application /\ RefOf[storing.ver] \in Refs
           /\ Replacement \subseteq Piece
           /\ \A x \in Replacement : /\ x[1] = RefOf[storing.ver] /\ x[3] = storing.ver
                                     /\ storing.life = "active"
<1>1. storing \in Application /\ storing.ver \in Versions /\ RefOf[storing.ver] \in Refs
  BY ServingIndexAssumption DEF IndexTypeOK, Application
<1> QED
  BY <1>1, PiecesType DEF Replacement

\* An application leaves the row of its content in the place of that source.
LEMMA StoredRow ==
    ASSUME TypeInv, StoreRow
    PROVE  LET new == [ver |-> storing.ver, life |-> storing.life]
               r == RefOf[storing.ver]
           IN  /\ new \in Row /\ new # Nil /\ r \in Refs
               /\ row' = [row EXCEPT ![r] = new]
               /\ unit' = IF row[r] # Nil /\ row[r] # new THEN Others(unit, r) ELSE unit
<1>1. storing \in Application /\ RefOf[storing.ver] \in Refs
  BY ReplacementType DEF TypeInv, StoreRow, StoreStep
<1>2. [ver |-> storing.ver, life |-> storing.life] \in Row
  BY <1>1 DEF Application, Row
<1>3. row \in [Refs -> Row \union {Nil}]
  BY DEF TypeInv, IndexTypeOK
<1> QED
  BY <1>1, <1>2, <1>3, NilIsNoRow DEF StoreRow, RowChanged

\* The application and the withdrawal keep the types of the tables.
LEMMA WriterTypes ==
    ASSUME TypeInv, WriterStep
    PROVE  IndexTypeOK' /\ RowsOfTheirRef(row)'
<1> USE ServingIndexAssumption
<1>1. row \in Rows /\ RowsOfTheirRef(row) /\ IndexTypeOK
  BY DEF TypeInv, IndexTypeOK, Rows
<1>2. ASSUME NEW v \in Versions, BeginStore(v)
      PROVE  IndexTypeOK' /\ RowsOfTheirRef(row)'
  <2>1. storing' \in Application
    BY <1>2 DEF BeginStore, Application, Steps
  <2> QED
    BY <1>1, <1>2, <2>1 DEF BeginStore, tables, IndexTypeOK, RowsOfTheirRef
<1>3. ASSUME NEW v \in Versions, BeginRestore(v)
      PROVE  IndexTypeOK' /\ RowsOfTheirRef(row)'
  <2>1. storing' \in Application
    BY <1>3 DEF BeginRestore, Application, Steps
  <2>2. row' \in Rows /\ RowsOfTheirRef(row')
    BY <1>1, <1>3, OverwrittenRow DEF BeginRestore
  <2> QED
    BY <1>1, <1>3, <2>1, <2>2 DEF BeginRestore, IndexTypeOK, Rows, Others, RowsOfTheirRef
<1>4. CASE StoreRow
  <2>1. storing \in Application /\ storing # Nil
    BY <1>1, <1>4, ReplacementType DEF StoreRow, StoreStep
  <2>2. storing' \in Application
    BY <1>4, <2>1 DEF StoreRow, StoreStep, Application, Steps
  <2>3. row' \in Rows /\ RowsOfTheirRef(row') /\ unit' \subseteq unit
    BY <1>1, <1>4, StoredRow DEF Rows, RowsOfTheirRef, Others
  <2> QED
    BY <1>1, <1>4, <2>2, <2>3 DEF StoreRow, StoreStep, IndexTypeOK, Rows, RowsOfTheirRef
<1>5. CASE StoreObjects
  <2>1. storing \in Application /\ RefOf[storing.ver] \in Refs
    BY <1>1, <1>5, ReplacementType DEF StoreObjects, StoreStep
  <2>2. storing' \in Application
    BY <1>5, <2>1 DEF StoreObjects, StoreStep, Application, Steps
  <2> QED
    BY <1>1, <1>5, <2>1, <2>2 DEF StoreObjects, StoreStep, IndexTypeOK, RowsOfTheirRef
<1>6. CASE StoreLinks
  <2>1. storing \in Application /\ LinksOf[storing.ver] \subseteq Refs \X Refs
    BY <1>1, <1>6, ReplacementType DEF StoreLinks, StoreStep, Application
  <2>2. storing' \in Application
    BY <1>6, <2>1 DEF StoreLinks, StoreStep, Application, Steps
  <2> QED
    BY <1>1, <1>6, <2>1, <2>2 DEF StoreLinks, StoreStep, IndexTypeOK, RowsOfTheirRef
<1>7. CASE StoreUnits
  <2>1. storing \in Application /\ Replacement \subseteq Piece
    BY <1>1, <1>7, ReplacementType DEF StoreUnits, StoreStep
  <2>2. storing' \in Application
    BY <1>7, <2>1 DEF StoreUnits, StoreStep, Application, Steps
  <2> QED
    BY <1>1, <1>7, <2>1, <2>2
       DEF StoreUnits, StoreStep, IndexTypeOK, RowsOfTheirRef, Others, Piece
<1>8. CASE StoreVectors
  <2>1. storing \in Application /\ Replacement \subseteq Piece
    BY <1>1, <1>8, ReplacementType DEF StoreVectors, StoreStep
  <2> QED
    BY <1>1, <1>8, <2>1
       DEF StoreVectors, StoreStep, IndexTypeOK, RowsOfTheirRef, Others, Piece
<1>9. ASSUME NEW r \in Refs, Withdraw(r)
      PROVE  IndexTypeOK' /\ RowsOfTheirRef(row)'
  BY <1>1, <1>9 DEF Withdraw, IndexTypeOK, RowsOfTheirRef, Others
<1>10. CASE MarkInactive
  <2>1. dropping \in Refs
    BY <1>1, <1>10 DEF MarkInactive, IndexTypeOK
  <2>2. row' \in Rows /\ RowsOfTheirRef(row')
    BY <1>1, <1>10, <2>1, OverwrittenRow DEF MarkInactive
  <2> QED
    BY <1>1, <1>10, <2>2 DEF MarkInactive, IndexTypeOK, Rows, Others, RowsOfTheirRef
<1> QED
  BY <1>2, <1>3, <1>4, <1>5, <1>6, <1>7, <1>8, <1>9, <1>10 DEF WriterStep

\* Every step keeps the types.
LEMMA TypeStep ==
    ASSUME TypeInv, [Next]_vars
    PROVE  TypeInv'
<1> USE ServingIndexAssumption
<1> USE DEF TypeInv, JobsTypeOK, Rebuilding
<1>1. row \in Rows /\ RowsOfTheirRef(row)
  BY DEF IndexTypeOK, Rows
<1>2. CASE Write
  <2>1. IndexTypeOK' /\ RowsOfTheirRef(row)'
    BY <1>2, WriterTypes DEF Write
  <2>2. storing # Nil => RefOf[storing.ver] \in Refs
    BY ReplacementType
  <2>3. putting' \in RawStep \union {Nil}
    BY <1>2, <2>2 DEF Write, RawStep
  <2> QED
    BY <1>2, <2>1, <2>3 DEF Write, Meet, Idle, jobVars
<1>3. CASE ReadHolds
  <2>1. putting' \in RawStep \union {Nil}
    BY <1>3 DEF ReadHolds, RawStep
  <2> QED
    BY <1>3, <2>1 DEF ReadHolds, Meet, Idle, jobVars, indexVars, tables, IndexTypeOK, RowsOfTheirRef
<1>4. CASE PutRaw
  <2>1. putting.ref \in Refs
    BY <1>4 DEF PutRaw, RawStep
  <2> QED
    BY <1>4, <2>1 DEF PutRaw, Meet, Idle, jobVars, indexVars, tables, IndexTypeOK, RowsOfTheirRef
<1>5. CASE StopWriting
  BY <1>5 DEF StopWriting, WriterStop, StopStore, StopWithdrawal, jobVars, indexVars, tables,
              IndexTypeOK, RowsOfTheirRef
<1>6. Begin => <<met', overlapped', cut'>> \in BOOLEAN \X BOOLEAN \X BOOLEAN
  BY DEF Begin
<1>7. ASSUME NEW first \in {"delete_units", "delete_objects"}, Start(first)
      PROVE  TypeInv'
  <2>1. read' \in [row: Rows, unit: SUBSET Piece]
    BY <1>1, <1>7 DEF Start, NoRead
  <2> QED
    BY <1>7, <1>6, <2>1 DEF Start, Begin, indexVars, tables, IndexTypeOK, RowsOfTheirRef
<1>8. ASSUME NEW from, NEW to \in Rebuilding \union {"idle"}, Step(from, to),
             unit' \subseteq Piece, vec' \subseteq Piece, object' \subseteq Refs,
             links' \subseteq Refs \X Refs
      PROVE  TypeInv'
  <2>1. read' \in [row: Rows, unit: SUBSET Piece]
    BY <1>8 DEF Step, NoRead, Rows
  <2> QED
    BY <1>8, <2>1 DEF Step, history, IndexTypeOK, RowsOfTheirRef, Piece
<1>9. CASE DeleteAllUnits
  BY <1>8, <1>9 DEF DeleteAllUnits, IndexTypeOK, Piece
<1>10. Prepared(read.row) \subseteq Piece
  BY PreparedPieces
<1>11. CASE InsertUnits
  <2>1. unit' \subseteq Piece
    BY <1>10, <1>11, UpsertedPieces DEF InsertUnits, IndexTypeOK, Piece
  <2> QED
    BY <1>8, <1>11, <2>1 DEF InsertUnits, IndexTypeOK, Piece
<1>12. CASE ReplaceVectors
  <2>1. vec' \subseteq Piece
    BY <1>10, <1>12, UpsertedPieces DEF ReplaceVectors, IndexTypeOK, Piece
  <2> QED
    BY <1>8, <1>12, <2>1 DEF ReplaceVectors, IndexTypeOK, Piece
<1>13. CASE DeleteAllObjects
  BY <1>8, <1>13 DEF DeleteAllObjects, IndexTypeOK, Piece
<1>14. CASE DeleteAllLinks
  BY <1>8, <1>14 DEF DeleteAllLinks, IndexTypeOK, Piece
<1>15. CASE InsertObjects
  BY <1>8, <1>15 DEF InsertObjects, IndexTypeOK, Piece
<1>16. CASE InsertLinks
  <2>1. Derived(read.row) \subseteq Refs \X Refs
    BY DEF Derived, Rows, Row
  <2> QED
    BY <1>8, <1>16, <2>1 DEF InsertLinks, IndexTypeOK, Piece
<1>17. CASE MakeIndex
  <2>1. read' \in [row: Rows, unit: SUBSET Piece]
    BY <1>17 DEF MakeIndex, NoRead, Rows, IndexTypeOK, Piece
  <2> QED
    BY <1>17, <1>6, <2>1 DEF MakeIndex, Begin, IndexTypeOK, RowsOfTheirRef
<1>18. CASE IndexVectors
  <2>1. vec' \subseteq Piece
    BY <1>18, UpsertedPieces DEF IndexVectors
  <2> QED
    BY <1>8, <1>18, <2>1 DEF IndexVectors, IndexTypeOK, Piece
<1>19. CASE ReadExpired
  BY <1>19, <1>6 DEF ReadExpired, Purgeable, Begin, indexVars, tables, IndexTypeOK, RowsOfTheirRef
<1>20. CASE PurgeRaw
  BY <1>20 DEF PurgeRaw, history, indexVars, tables, IndexTypeOK, RowsOfTheirRef
<1>21. CASE EndPurge
  BY <1>21 DEF EndPurge, history, indexVars, tables, IndexTypeOK, RowsOfTheirRef
<1>22. CASE StopJob
  <2>1. read' \in [row: Rows, unit: SUBSET Piece]
    BY <1>22 DEF StopJob, NoRead, Rows
  <2> QED
    BY <1>22, <2>1 DEF StopJob, indexVars, tables, IndexTypeOK, RowsOfTheirRef
<1>23. Dumped \in Dump
  BY <1>1 DEF Dumped, Dump, IndexTypeOK, Piece
<1>24. CASE Backup
  BY <1>23, <1>24 DEF Backup, history, jobVars, indexVars, tables, IndexTypeOK, RowsOfTheirRef
<1>25. CASE Drill
  BY <1>23, <1>25 DEF Drill, history, jobVars, indexVars, tables, IndexTypeOK, RowsOfTheirRef
<1>26. CASE Restore
  <2>1. dump \in Dump
    BY <1>26 DEF Restore, Restorable
  <2>2. /\ held' \subseteq Refs /\ row' \in Rows /\ RowsOfTheirRef(row')
        /\ unit' \subseteq Piece /\ vec' \subseteq Piece
        /\ object' \subseteq Refs /\ links' \subseteq Refs \X Refs
    BY <1>26, <2>1 DEF Restore, Dump
  <2>3. IndexTypeOK'
    BY <1>26, <2>2 DEF Restore, IndexTypeOK, Rows, Piece
  <2>4. <<met', overlapped', cut', restored'>> \in BOOLEAN \X BOOLEAN \X BOOLEAN \X BOOLEAN
    BY <1>26, <2>1 DEF Restore, Dump
  <2>5. JobsTypeOK'
    BY <1>26, <2>4 DEF Restore
  <2> QED
    BY <2>2, <2>3, <2>5
<1>27. CASE PurgeDump
  BY <1>27 DEF PurgeDump, history, jobVars, indexVars, tables, IndexTypeOK, RowsOfTheirRef
<1>28. CASE UNCHANGED vars
  BY <1>28 DEF vars, history, jobVars, indexVars, tables, IndexTypeOK, RowsOfTheirRef
<1> QED
  BY <1>2, <1>3, <1>4, <1>5, <1>7, <1>9, <1>11, <1>12, <1>13, <1>14, <1>15, <1>16, <1>17,
     <1>18, <1>19, <1>20, <1>21, <1>22, <1>24, <1>25, <1>26, <1>27, <1>28 DEF Next

\* The index, the dump and the local variables of the jobs always have their types,
\* and every row is of its own ref.
THEOREM TypeCorrect == Spec => []TypeInv
BY TypeInit, TypeStep, PTL DEF Spec

-----------------------------------------------------------------------------
(* What search finds *)

\* Units and vectors belong to rows, and a unit of an active row is cut from
\* the content of that row.
ServedFrom(rows, units, vectors) ==
    /\ \A x \in units : /\ rows[x[1]] # Nil
                        /\ rows[x[1]].life = "active" => x[3] = rows[x[1]].ver
    /\ \A x \in vectors : rows[x[1]] # Nil

\* Once an application has replaced the row, the row is what it stores.
StoredAsRead ==
    storing # Nil /\ storing.step # "row" =>
        row[RefOf[storing.ver]] = [ver |-> storing.ver, life |-> storing.life]

\* A withdrawal is the only write under way, and a job runs while there is none.
OneAtATime ==
    /\ dropping # Nil => storing = Nil /\ putting = Nil
    /\ storing # Nil => putting = Nil
    /\ ~ Idle => Calm

\* What a job has read is still there.
ReadIsThere ==
    /\ job \in Rebuilding => read.row = row
    /\ job = "index_vectors" => read.unit \subseteq unit

\* The inductive invariant behind SearchableIsCurrent.  It speaks of the vectors
\* because they become units' equals in a rebuild, and of the backup because a
\* restore brings it back.
SearchInv ==
    ~ overlapped =>
        /\ ServedFrom(row, unit, vec)
        /\ StoredAsRead
        /\ OneAtATime
        /\ ReadIsThere
        /\ dump # Nil => ServedFrom(dump.row, dump.unit, dump.vec)

\* In the initial index every unit and vector is a piece of a stored content.
LEMMA InitialPieces ==
    ASSUME Init
    PROVE  /\ vec = unit
           /\ \A x \in unit : /\ x[1] \in Refs /\ x[1] \notin held
                              /\ Active(x[1]) /\ x[3] = row[x[1]].ver
           /\ \A r \in held : row[r] = Nil \/ row[r].life = "inactive"
           /\ \A r \in Refs : Active(r) => r \in raw
           /\ storing = Nil /\ dropping = Nil
<1> USE ServingIndexAssumption
<1>1. PICK gone \in SUBSET Refs, relinked \in SUBSET Initially :
         LET kept == {v \in Initially : RefOf[v] \notin gone} IN
         /\ held = gone
         /\ row = [r \in Refs |->
                     IF \E v \in Initially : RefOf[v] = r
                     THEN [ver |-> CHOOSE v \in Initially : RefOf[v] = r,
                           life |-> IF r \in gone THEN "inactive" ELSE "active"]
                     ELSE Nil]
         /\ unit = UNION {PiecesOf(v) : v \in kept}
         /\ vec = UNION {PiecesOf(v) : v \in kept}
         /\ storing = Nil /\ dropping = Nil
  BY DEF Init, IndexInit
<1>2. ASSUME NEW v \in Initially
      PROVE  /\ RefOf[v] \in Refs /\ row[RefOf[v]] # Nil /\ row[RefOf[v]].ver = v
             /\ row[RefOf[v]].life = IF RefOf[v] \in held THEN "inactive" ELSE "active"
  <2> DEFINE first == CHOOSE u \in Initially : RefOf[u] = RefOf[v]
  <2>1. first \in Initially /\ RefOf[first] = RefOf[v]
    OBVIOUS
  <2>2. first = v
    BY <2>1
  <2>3. row[RefOf[v]] = [ver |-> v, life |-> IF RefOf[v] \in held THEN "inactive" ELSE "active"]
    BY <1>1, <2>2
  <2>4. row[RefOf[v]] \in Row
    BY <2>3 DEF Row
  <2> QED
    BY <2>3, <2>4, NilIsNoRow
<1>3. ASSUME NEW r \in Refs, row[r] # Nil
      PROVE  \E v \in Initially : RefOf[v] = r
  BY <1>1, <1>3
<1>4. ASSUME NEW x \in unit
      PROVE  /\ x[1] \in Refs /\ x[1] \notin held
             /\ Active(x[1]) /\ x[3] = row[x[1]].ver
  <2>1. PICK v \in Initially : RefOf[v] \notin held /\ x \in PiecesOf(v)
    BY <1>1, <1>4
  <2>2. x[1] = RefOf[v] /\ x[3] = v
    BY <2>1, PiecesType
  <2> QED
    BY <1>2, <2>1, <2>2 DEF Active
<1>5. \A r \in held : row[r] = Nil \/ row[r].life = "inactive"
  BY <1>1, <1>2, <1>3
<1>6. ASSUME NEW r \in Refs, Active(r)
      PROVE  r \in raw
  BY <1>5, <1>6 DEF Init, Active
<1> QED
  BY <1>1, <1>4, <1>5, <1>6

LEMMA SearchInit == Init => SearchInv
<1> SUFFICES ASSUME Init PROVE SearchInv
  OBVIOUS
<1>1. ServedFrom(row, unit, vec)
  BY InitialPieces DEF ServedFrom, Active
<1> QED
  BY <1>1, InitialPieces
     DEF Init, SearchInv, StoredAsRead, OneAtATime, ReadIsThere, Rebuilding, Idle

\* An application or a withdrawal, when it meets no other, leaves the units of
\* active rows cut from those rows.
LEMMA WriterServes ==
    ASSUME TypeInv, ServedFrom(row, unit, vec), StoredAsRead, WriterStep,
           storing = Nil \/ dropping = Nil, storing' = Nil \/ dropping' = Nil
    PROVE  ServedFrom(row', unit', vec') /\ StoredAsRead'
<1>1. row \in [Refs -> Row \union {Nil}] /\ unit \subseteq Piece /\ vec \subseteq Piece
  BY DEF TypeInv, IndexTypeOK, Piece
<1>2. \A x \in Piece : x[1] \in Refs
  BY DEF Piece
<1>3. ASSUME NEW v \in Versions, BeginStore(v)
      PROVE  ServedFrom(row', unit', vec') /\ StoredAsRead'
  BY <1>3 DEF BeginStore, tables, StoredAsRead
<1>4. ASSUME NEW v \in Versions, BeginRestore(v)
      PROVE  ServedFrom(row', unit', vec') /\ StoredAsRead'
  <2>1. \A s \in Refs : /\ row[s] # Nil => row'[s] # Nil
                        /\ s # RefOf[v] => row'[s] = row[s]
    <3>1. row[RefOf[v]] # Nil => [row[RefOf[v]] EXCEPT !.life = "active"] \in Row
      BY <1>1, ServingIndexAssumption DEF Row
    <3> QED
      BY <1>1, <1>4, <3>1, NilIsNoRow, ServingIndexAssumption DEF BeginRestore
  <2> QED
    BY <1>1, <1>2, <1>4, <2>1 DEF BeginRestore, ServedFrom, StoredAsRead, Others
<1>5. CASE StoreRow
  <2>1. /\ storing # Nil /\ storing \in Application
        /\ storing' = [storing EXCEPT !.step = "objects"] /\ vec' = vec
    BY <1>5, ReplacementType DEF StoreRow, StoreStep, TypeInv
  <2>2. storing'.ver = storing.ver /\ storing'.life = storing.life
    BY <2>1 DEF Application
  <2>3. \A s \in Refs : row[s] # Nil => row'[s] # Nil
    BY <1>1, <1>5, StoredRow
  <2>4. ServedFrom(row', unit', vec')
    BY <1>1, <1>2, <1>5, <2>1, <2>3, StoredRow DEF ServedFrom, Others
  <2>5. StoredAsRead'
    BY <1>1, <1>5, <2>2, StoredRow DEF StoredAsRead
  <2> QED
    BY <2>4, <2>5
<1>6. ASSUME NEW from \in Steps \ {"row"}, NEW to \in Steps \union {"done"}, StoreStep(from, to), row' = row
      PROVE  StoredAsRead' /\ row[RefOf[storing.ver]] = [ver |-> storing.ver, life |-> storing.life]
  <2>1. storing # Nil /\ storing \in Application /\ storing.step # "row"
    BY <1>6 DEF StoreStep, TypeInv, IndexTypeOK
  <2>2. storing' = Nil \/ (storing'.ver = storing.ver /\ storing'.life = storing.life)
    BY <1>6, <2>1 DEF StoreStep, Application
  <2> QED
    BY <1>6, <2>1, <2>2 DEF StoredAsRead
<1>7. CASE StoreObjects
  BY <1>6, <1>7 DEF StoreObjects, Steps
<1>8. CASE StoreLinks
  BY <1>6, <1>8 DEF StoreLinks, Steps
<1>9. CASE StoreUnits
  <2>1. StoredAsRead' /\ row[RefOf[storing.ver]] = [ver |-> storing.ver, life |-> storing.life]
    BY <1>6, <1>9 DEF StoreUnits, Steps
  <2>2. \A x \in Replacement : x[1] = RefOf[storing.ver] /\ x[3] = storing.ver
    BY <1>9, ReplacementType DEF StoreUnits, StoreStep, TypeInv
  <2>3. row[RefOf[storing.ver]] # Nil
    BY <1>9, <2>1, ReplacementType, NilIsNoRow DEF StoreUnits, StoreStep, TypeInv, Application, Row
  <2> QED
    BY <1>9, <2>1, <2>2, <2>3 DEF StoreUnits, ServedFrom, Others
<1>10. CASE StoreVectors
  <2>1. StoredAsRead' /\ row[RefOf[storing.ver]] = [ver |-> storing.ver, life |-> storing.life]
    BY <1>6, <1>10 DEF StoreVectors, Steps
  <2>2. \A x \in Replacement : x[1] = RefOf[storing.ver]
    BY <1>10, ReplacementType DEF StoreVectors, StoreStep, TypeInv
  <2>3. row[RefOf[storing.ver]] # Nil
    BY <1>10, <2>1, ReplacementType, NilIsNoRow DEF StoreVectors, StoreStep, TypeInv, Application, Row
  <2> QED
    BY <1>10, <2>1, <2>2, <2>3 DEF StoreVectors, ServedFrom, Others
<1>11. ASSUME NEW r \in Refs, Withdraw(r)
      PROVE  ServedFrom(row', unit', vec') /\ StoredAsRead'
  BY <1>11 DEF Withdraw, ServedFrom, StoredAsRead, Others
<1>12. CASE MarkInactive
  <2>1. dropping \in Refs /\ storing' = Nil
    BY <1>12 DEF MarkInactive, TypeInv, IndexTypeOK
  <2>2. \A s \in Refs : /\ row[s] # Nil => row'[s] # Nil
                        /\ s # dropping => row'[s] = row[s]
    <3>1. row[dropping] # Nil => [row[dropping] EXCEPT !.life = "inactive"] \in Row
      BY <1>1, <2>1 DEF Row
    <3> QED
      BY <1>1, <1>12, <2>1, <3>1, NilIsNoRow DEF MarkInactive
  <2> QED
    BY <1>1, <1>2, <1>12, <2>1, <2>2 DEF MarkInactive, ServedFrom, StoredAsRead, Others
<1> QED
  BY <1>3, <1>4, <1>5, <1>7, <1>8, <1>9, <1>10, <1>11, <1>12 DEF WriterStep

\* What has happened has happened.
LEMMA StepsGrow ==
    ASSUME JobsTypeOK, [Next]_vars
    PROVE  (overlapped => overlapped') /\ (cut => cut') /\ (restored => restored')
<1> USE DEF Next, Write, ReadHolds, PutRaw, StopWriting, Meet, Start, Begin,
            DeleteAllUnits, InsertUnits, ReplaceVectors, DeleteAllObjects, DeleteAllLinks,
            InsertObjects, InsertLinks, Step, MakeIndex, IndexVectors, ReadExpired, PurgeRaw,
            EndPurge, StopJob, Backup, Drill, Restore, PurgeDump, vars, history
<1>1. overlapped => overlapped'
  OBVIOUS
<1>2. cut => cut'
  OBVIOUS
<1>3. restored => restored'
  OBVIOUS
<1> QED
  BY <1>1, <1>2, <1>3

LEMMA SearchStep ==
    ASSUME TypeInv, SearchInv, [Next]_vars
    PROVE  SearchInv'
<1> SUFFICES ASSUME ~ overlapped'
             PROVE  /\ ServedFrom(row', unit', vec')
                    /\ StoredAsRead'
                    /\ OneAtATime'
                    /\ ReadIsThere'
                    /\ dump' # Nil => ServedFrom(dump'.row, dump'.unit, dump'.vec)
  BY DEF SearchInv, ServedFrom
<1>1. ~ overlapped
  BY StepsGrow DEF TypeInv
<1>2. /\ ServedFrom(row, unit, vec) /\ StoredAsRead /\ OneAtATime /\ ReadIsThere
      /\ dump # Nil => ServedFrom(dump.row, dump.unit, dump.vec)
  BY <1>1 DEF SearchInv
<1>3. ASSUME UNCHANGED <<row, unit, vec, storing, dropping, putting, job, read, dump>>
      PROVE  SearchInv'
  BY <1>2, <1>3 DEF SearchInv, ServedFrom, StoredAsRead, OneAtATime, ReadIsThere, Idle, Calm, Writing
<1>4. CASE Write
  <2>1. Idle /\ Idle' /\ (dropping' # Nil => storing' = Nil /\ putting' = Nil)
    BY <1>4 DEF Write, Meet, jobVars, Idle
  <2>2. putting' # Nil => storing' = Nil
    BY <1>2, <1>4 DEF Write, OneAtATime
  <2>3. ServedFrom(row', unit', vec') /\ StoredAsRead'
    BY <1>2, <1>4, <2>1, WriterServes DEF Write, OneAtATime
  <2> QED
    BY <1>2, <1>4, <2>1, <2>2, <2>3
       DEF Write, jobVars, OneAtATime, ReadIsThere, Idle, Rebuilding
<1>5. CASE ReadHolds
  BY <1>2, <1>5 DEF ReadHolds, Meet, indexVars, tables, jobVars, ServedFrom, StoredAsRead,
                    OneAtATime, ReadIsThere, Idle
<1>6. CASE PutRaw
  BY <1>2, <1>6 DEF PutRaw, Meet, indexVars, tables, jobVars, ServedFrom, StoredAsRead,
                    OneAtATime, ReadIsThere, Idle
<1>7. CASE StopWriting
  BY <1>2, <1>7 DEF StopWriting, WriterStop, StopStore, StopWithdrawal, indexVars, tables, jobVars,
                    ServedFrom, StoredAsRead, OneAtATime, ReadIsThere, Idle, Calm, Writing
<1>8. ASSUME NEW first \in {"delete_units", "delete_objects"}, Start(first)
      PROVE  SearchInv'
  <2>1. Calm /\ read'.row = row /\ job' \in Rebuilding
    BY <1>8 DEF Start, Begin, NoRead, Rebuilding
  <2> QED
    BY <1>2, <1>8, <2>1 DEF Start, indexVars, tables, SearchInv, ServedFrom, StoredAsRead,
                            OneAtATime, ReadIsThere, Calm, Writing, Rebuilding
<1>9. ASSUME NEW from \in Rebuilding, NEW to \in Rebuilding \union {"idle"}, Step(from, to),
             ServedFrom(row, unit', vec')
      PROVE  SearchInv'
  <2>1. StoredAsRead' /\ OneAtATime'
    BY <1>2, <1>9 DEF Step, StoredAsRead, OneAtATime, Idle, Calm, Writing, Rebuilding
  <2>2. ReadIsThere'
    BY <1>2, <1>9 DEF Step, ReadIsThere, Rebuilding
  <2> QED
    BY <1>2, <1>9, <2>1, <2>2 DEF Step, SearchInv, ServedFrom
<1>10. ASSUME job \in Rebuilding
       PROVE  /\ read.row = row
              /\ \A x \in Prepared(read.row) :
                    /\ row[x[1]] # Nil
                    /\ row[x[1]].life = "active" => x[3] = row[x[1]].ver
  <2>1. read.row = row /\ row \in Rows
    BY <1>2, <1>10 DEF ReadIsThere, TypeInv, IndexTypeOK, Rows
  <2> QED
    BY <2>1, PreparedPieces
<1>11. CASE DeleteAllUnits
  BY <1>2, <1>9, <1>11 DEF DeleteAllUnits, ServedFrom, Rebuilding, SearchInv
<1>12. CASE InsertUnits
  <2>1. ServedFrom(row, unit', vec')
    BY <1>2, <1>10, <1>12, UpsertedPieces DEF InsertUnits, Step, ServedFrom, Rebuilding
  <2> QED
    BY <1>9, <1>12, <2>1 DEF InsertUnits, Rebuilding, SearchInv
<1>13. CASE ReplaceVectors
  <2>1. ServedFrom(row, unit', vec')
    BY <1>2, <1>10, <1>13, UpsertedPieces DEF ReplaceVectors, Step, ServedFrom, Rebuilding
  <2> QED
    BY <1>9, <1>13, <2>1 DEF ReplaceVectors, Rebuilding, SearchInv
<1>14. CASE DeleteAllObjects
  BY <1>2, <1>9, <1>14 DEF DeleteAllObjects, Rebuilding, SearchInv
<1>15. CASE DeleteAllLinks
  BY <1>2, <1>9, <1>15 DEF DeleteAllLinks, Rebuilding, SearchInv
<1>16. CASE InsertObjects
  BY <1>2, <1>9, <1>16 DEF InsertObjects, Rebuilding, SearchInv
<1>17. CASE InsertLinks
  BY <1>2, <1>9, <1>17 DEF InsertLinks, Rebuilding, SearchInv
<1>18. CASE MakeIndex
  <2>1. Calm /\ read'.unit = unit /\ job' = "index_vectors"
    BY <1>18 DEF MakeIndex, Begin, NoRead
  <2> QED
    BY <1>2, <1>18, <2>1 DEF MakeIndex, ServedFrom, StoredAsRead, OneAtATime, ReadIsThere,
                             Calm, Writing, Rebuilding
<1>19. CASE IndexVectors
  <2>1. vec' = read.unit /\ read.unit \subseteq unit
    BY <1>2, <1>19, UpsertedPieces DEF IndexVectors, Step, ReadIsThere
  <2>2. job' = "idle" /\ UNCHANGED <<row, unit, storing, dropping, putting, dump>>
    BY <1>19 DEF IndexVectors, Step
  <2> QED
    BY <1>2, <2>1, <2>2 DEF ServedFrom, StoredAsRead, OneAtATime, ReadIsThere, Idle, Rebuilding
<1>20. CASE ReadExpired
  BY <1>2, <1>20 DEF ReadExpired, Begin, indexVars, tables, ServedFrom, StoredAsRead,
                     OneAtATime, ReadIsThere, Idle, Calm, Writing, Rebuilding
<1>21. CASE PurgeRaw
  BY <1>3, <1>21 DEF PurgeRaw, indexVars, tables, SearchInv
<1>22. CASE EndPurge
  BY <1>2, <1>22 DEF EndPurge, indexVars, tables, ServedFrom, StoredAsRead,
                     OneAtATime, ReadIsThere, Idle, Rebuilding
<1>23. CASE StopJob
  BY <1>2, <1>23 DEF StopJob, indexVars, tables, ServedFrom, StoredAsRead,
                     OneAtATime, ReadIsThere, Idle, Rebuilding
<1>24. ASSUME dump' = Dumped, UNCHANGED <<indexVars, putting, jobVars>>
       PROVE  SearchInv'
  <2>1. dump'.row = row /\ dump'.unit = unit /\ dump'.vec = vec
    BY <1>24 DEF Dumped
  <2> QED
    BY <1>2, <1>24, <2>1 DEF indexVars, tables, jobVars, SearchInv, ServedFrom, StoredAsRead,
                             OneAtATime, ReadIsThere, Idle, Calm, Writing
<1>25. CASE Backup \/ Drill
  BY <1>24, <1>25 DEF Backup, Drill, SearchInv
<1>26. CASE Restore
  <2>1. dump # Nil /\ Idle /\ Idle' /\ Calm
    BY <1>26 DEF Restore, Restorable, Idle
  <2>2. ServedFrom(row', unit', vec') /\ dump' = dump
    BY <1>2, <1>26, <2>1 DEF Restore
  <2>3. StoredAsRead' /\ OneAtATime'
    BY <1>26, <2>1 DEF Restore, Calm, Writing, StoredAsRead, OneAtATime, Idle
  <2>4. ReadIsThere'
    BY <2>1 DEF ReadIsThere, Idle, Rebuilding
  <2> QED
    BY <1>2, <2>2, <2>3, <2>4
<1>27. CASE PurgeDump
  BY <1>2, <1>27 DEF PurgeDump, indexVars, tables, jobVars, ServedFrom, StoredAsRead,
                     OneAtATime, ReadIsThere, Idle, Calm, Writing
<1>28. CASE UNCHANGED vars
  BY <1>3, <1>28 DEF vars, indexVars, tables, jobVars, SearchInv
<1> QED
  BY <1>4, <1>5, <1>6, <1>7, <1>8, <1>11, <1>12, <1>13, <1>14, <1>15, <1>16, <1>17, <1>18,
     <1>19, <1>20, <1>21, <1>22, <1>23, <1>25, <1>26, <1>27, <1>28 DEF Next, SearchInv

LEMMA SearchInvariant == Spec => [](TypeInv /\ SearchInv)
<1>1. Init => TypeInv /\ SearchInv
  BY TypeInit, SearchInit
<1>2. TypeInv /\ SearchInv /\ [Next]_vars => TypeInv' /\ SearchInv'
  BY TypeStep, SearchStep
<1> QED
  BY <1>1, <1>2, PTL DEF Spec

\* Whatever number of applications and jobs is cut short, search finds a source
\* with a text that is not its row's only after a write and a job have met
\* (runtime/rebuild.py reads its records and writes its units in steps, with
\* nothing that keeps the applier out between them).
THEOREM SearchFindsCurrent == Spec => []SearchableIsCurrent
<1>1. TypeInv /\ SearchInv => SearchableIsCurrent
  BY DEF SearchInv, ServedFrom, SearchableIsCurrent, Active
<1> QED
  BY <1>1, SearchInvariant, PTL

-----------------------------------------------------------------------------
(* What is withdrawn *)

\* Nothing of a held source is indexed, and its row is not active ...
Clear(rows, units, vectors, holds) ==
    /\ \A x \in units \union vectors : x[1] \notin holds
    /\ \A r \in holds : rows[r] = Nil \/ rows[r].life = "inactive"

\* ... but for the one whose withdrawal has only run its first transaction.
ClearButDropping ==
    /\ \A x \in unit : x[1] \in held => dropping = x[1]
    /\ \A x \in vec : x[1] \notin held
    /\ \A r \in held : Active(r) => dropping = r

\* What is stored of a held source is inactive.
HeldIsStoredInactive ==
    storing # Nil /\ RefOf[storing.ver] \in held => storing.life = "inactive"

\* The inductive invariant behind WithdrawnStaysUnindexed.  The backup is in it
\* because a restore brings it back; the purge only goes for what is held.
HeldInv ==
    ~ overlapped /\ ~ cut =>
        /\ ClearButDropping
        /\ HeldIsStoredInactive
        /\ dump # Nil /\ dump.whole => Clear(dump.row, dump.unit, dump.vec, dump.held)
        /\ job = "purge" => doomed \subseteq held

LEMMA HeldInit == Init => HeldInv
<1> SUFFICES ASSUME Init PROVE HeldInv
  OBVIOUS
<1>1. ClearButDropping
  BY InitialPieces DEF ClearButDropping, Active
<1> QED
  BY <1>1, InitialPieces DEF Init, HeldInv, HeldIsStoredInactive

\* An application or a withdrawal, when it meets no other, keeps what is held
\* out of the index.
LEMMA WriterHolds ==
    ASSUME TypeInv, ClearButDropping, HeldIsStoredInactive, WriterStep,
           storing = Nil \/ dropping = Nil, storing' = Nil \/ dropping' = Nil
    PROVE  ClearButDropping' /\ HeldIsStoredInactive'
<1>1. /\ row \in [Refs -> Row \union {Nil}] /\ unit \subseteq Piece /\ vec \subseteq Piece
      /\ held \subseteq Refs /\ Nil \notin Refs
  BY ServingIndexAssumption DEF TypeInv, IndexTypeOK, Piece
<1>2. \A x \in Piece : x[1] \in Refs
  BY DEF Piece
<1>3. ASSUME NEW v \in Versions, BeginStore(v)
      PROVE  ClearButDropping' /\ HeldIsStoredInactive'
  BY <1>3 DEF BeginStore, tables, ClearButDropping, HeldIsStoredInactive, Active
<1>4. ASSUME NEW v \in Versions, BeginRestore(v)
      PROVE  ClearButDropping' /\ HeldIsStoredInactive'
  <2>1. \A s \in held' : s \in held /\ row'[s] = row[s]
    BY <1>1, <1>4 DEF BeginRestore
  <2>2. HeldIsStoredInactive'
    BY <1>4 DEF BeginRestore, HeldIsStoredInactive
  <2> QED
    BY <1>4, <2>1, <2>2 DEF BeginRestore, ClearButDropping, Active, Others
<1>5. CASE StoreRow
  <2>1. /\ storing # Nil /\ storing \in Application /\ dropping = Nil
        /\ storing' = [storing EXCEPT !.step = "objects"]
        /\ UNCHANGED <<vec, held, dropping>>
    BY <1>5, ReplacementType DEF StoreRow, StoreStep, TypeInv
  <2>2. storing'.ver = storing.ver /\ storing'.life = storing.life
    BY <2>1 DEF Application
  <2>3. unit' \subseteq unit
    BY <1>5, StoredRow DEF Others
  <2>4. ASSUME NEW r \in held, row'[r] # Nil, row'[r].life = "active"
        PROVE  FALSE
    <3>1. r # RefOf[storing.ver]
      BY <1>1, <1>5, <2>1, <2>4, StoredRow DEF HeldIsStoredInactive
    <3>2. row'[r] = row[r]
      BY <1>1, <1>5, <3>1, StoredRow
    <3> QED
      BY <1>1, <2>1, <2>4, <3>2 DEF ClearButDropping, Active
  <2> QED
    BY <2>1, <2>2, <2>3, <2>4 DEF ClearButDropping, HeldIsStoredInactive, Active
<1>6. ASSUME NEW from, NEW to, StoreStep(from, to), UNCHANGED <<held, row>>
      PROVE  /\ HeldIsStoredInactive' /\ dropping = Nil /\ dropping' = Nil
             /\ \A x \in Replacement : x[1] \notin held
  <2>1. storing # Nil /\ storing \in Application /\ dropping = Nil
    BY <1>6 DEF StoreStep, TypeInv, IndexTypeOK
  <2>2. storing' = Nil \/ (storing'.ver = storing.ver /\ storing'.life = storing.life)
    BY <1>6, <2>1 DEF StoreStep, Application
  <2>3. ASSUME NEW x \in Replacement
        PROVE  x[1] \notin held
    BY <2>1, ReplacementType DEF HeldIsStoredInactive, TypeInv
  <2> QED
    BY <1>6, <2>1, <2>2, <2>3 DEF HeldIsStoredInactive, StoreStep
<1>7. CASE StoreObjects
  BY <1>6, <1>7 DEF StoreObjects, ClearButDropping, Active
<1>8. CASE StoreLinks
  BY <1>6, <1>8 DEF StoreLinks, ClearButDropping, Active
<1>9. CASE StoreUnits
  <2>1. /\ HeldIsStoredInactive' /\ dropping = Nil /\ dropping' = Nil
        /\ \A x \in Replacement : x[1] \notin held
    BY <1>6, <1>9 DEF StoreUnits
  <2> QED
    BY <1>9, <2>1 DEF StoreUnits, ClearButDropping, Active, Others
<1>10. CASE StoreVectors
  <2>1. /\ HeldIsStoredInactive' /\ dropping = Nil /\ dropping' = Nil
        /\ \A x \in Replacement : x[1] \notin held
    BY <1>6, <1>10 DEF StoreVectors
  <2> QED
    BY <1>10, <2>1 DEF StoreVectors, ClearButDropping, Active, Others
<1>11. ASSUME NEW r \in Refs, Withdraw(r)
       PROVE  ClearButDropping' /\ HeldIsStoredInactive'
  BY <1>1, <1>11 DEF Withdraw, ClearButDropping, HeldIsStoredInactive, Active, Others
<1>12. CASE MarkInactive
  <2>1. dropping \in Refs /\ storing' = Nil
    BY <1>12 DEF MarkInactive, TypeInv, IndexTypeOK
  <2>2. \A s \in Refs : s # dropping => row'[s] = row[s]
    BY <1>1, <1>12 DEF MarkInactive
  <2>3. row'[dropping] = Nil \/ row'[dropping].life = "inactive"
    <3>1. row[dropping] # Nil => [row[dropping] EXCEPT !.life = "inactive"].life = "inactive"
      BY <1>1, <2>1 DEF Row
    <3> QED
      BY <1>1, <1>12, <2>1, <3>1 DEF MarkInactive
  <2>4. \A r \in held : ~ Active(r)'
    BY <1>1, <1>12, <2>2, <2>3 DEF ClearButDropping, Active, MarkInactive
  <2>5. \A x \in unit' : x[1] \notin held
    BY <1>12, <2>1 DEF MarkInactive, ClearButDropping, Others
  <2> QED
    BY <1>12, <2>1, <2>4, <2>5 DEF MarkInactive, ClearButDropping, HeldIsStoredInactive
<1> QED
  BY <1>3, <1>4, <1>5, <1>7, <1>8, <1>9, <1>10, <1>11, <1>12 DEF WriterStep

\* While nothing is being withdrawn, what is held is out of the index.
LEMMA ClearAtRest ==
    ASSUME ClearButDropping, TypeInv, dropping = Nil
    PROVE  Clear(row, unit, vec, held)
<1>1. Nil \notin Refs /\ held \subseteq Refs /\ row \in [Refs -> Row \union {Nil}]
  BY ServingIndexAssumption DEF TypeInv, IndexTypeOK
<1>2. \A r \in held : row[r] = Nil \/ row[r].life \in {"active", "inactive"}
  BY <1>1 DEF Row
<1> QED
  BY <1>1, <1>2 DEF ClearButDropping, Clear, Active

LEMMA HeldStep ==
    ASSUME TypeInv, SearchInv, HeldInv, [Next]_vars
    PROVE  HeldInv'
<1> SUFFICES ASSUME ~ overlapped', ~ cut' PROVE HeldInv'
  BY DEF HeldInv
<1>1. ~ overlapped /\ ~ cut
  BY StepsGrow DEF TypeInv
<1>2. /\ ClearButDropping /\ HeldIsStoredInactive /\ OneAtATime /\ ReadIsThere
      /\ dump # Nil /\ dump.whole => Clear(dump.row, dump.unit, dump.vec, dump.held)
      /\ job = "purge" => doomed \subseteq held
  BY <1>1 DEF HeldInv, SearchInv
<1>3. ASSUME UNCHANGED <<held, row, unit, vec, storing, dropping, dump>>,
             job' = "purge" => doomed' \subseteq held
      PROVE  HeldInv'
  BY <1>2, <1>3 DEF HeldInv, ClearButDropping, HeldIsStoredInactive, Active
<1>4. CASE Write
  <2>1. Idle /\ Idle' /\ (dropping' # Nil => storing' = Nil)
    BY <1>4 DEF Write, Meet, jobVars, Idle
  <2>2. ClearButDropping' /\ HeldIsStoredInactive'
    BY <1>2, <1>4, <2>1, WriterHolds DEF Write, OneAtATime
  <2> QED
    BY <1>2, <1>4, <2>1, <2>2 DEF Write, HeldInv, Idle, Clear
<1>5. CASE ReadHolds
  BY <1>2, <1>3, <1>5 DEF ReadHolds, indexVars, tables, jobVars
<1>6. CASE PutRaw
  BY <1>2, <1>3, <1>6 DEF PutRaw, indexVars, tables, jobVars
<1>7. CASE StopWriting
  BY <1>7 DEF StopWriting
<1>8. ASSUME NEW first \in {"delete_units", "delete_objects"}, Start(first)
      PROVE  HeldInv'
  BY <1>3, <1>8 DEF Start, indexVars, tables
<1>9. ASSUME NEW from, NEW to \in Rebuilding \union {"idle"}, Step(from, to),
             from \in Rebuilding \union {"index_vectors"},
             \A x \in unit' : x \in unit \/ x[1] \notin held,
             \A x \in vec' : x[1] \notin held
      PROVE  HeldInv'
  <2>1. dropping = Nil /\ job' # "purge"
    BY <1>2, <1>9 DEF Step, OneAtATime, Rebuilding, Idle, Calm, Writing
  <2> QED
    BY <1>2, <1>9, <2>1 DEF Step, HeldInv, ClearButDropping, HeldIsStoredInactive, Active, Clear
<1>10. ASSUME job \in Rebuilding
       PROVE  \A x \in Prepared(read.row) : x[1] \notin held
  <2>1. read.row = row /\ row \in Rows /\ dropping = Nil /\ Nil \notin Refs /\ held \subseteq Refs
    BY <1>2, <1>10, ServingIndexAssumption
       DEF ReadIsThere, OneAtATime, Idle, Calm, Writing, Rebuilding, TypeInv, IndexTypeOK, Rows
  <2> QED
    BY <1>2, <2>1, PreparedPieces DEF ClearButDropping, Active
<1>11. CASE DeleteAllUnits
  BY <1>2, <1>9, <1>11 DEF DeleteAllUnits, ClearButDropping, Rebuilding
<1>12. CASE InsertUnits
  <2>1. (\A x \in unit' : x \in unit \/ x[1] \notin held) /\ \A x \in vec' : x[1] \notin held
    BY <1>2, <1>10, <1>12, UpsertedPieces DEF InsertUnits, Step, ClearButDropping, Rebuilding
  <2> QED
    BY <1>9, <1>12, <2>1 DEF InsertUnits, Rebuilding
<1>13. CASE ReplaceVectors
  <2>1. (\A x \in unit' : x \in unit) /\ \A x \in vec' : x[1] \notin held
    BY <1>2, <1>10, <1>13, UpsertedPieces DEF ReplaceVectors, Step, ClearButDropping, Rebuilding
  <2> QED
    BY <1>9, <1>13, <2>1 DEF ReplaceVectors, Rebuilding
<1>14. CASE DeleteAllObjects
  BY <1>2, <1>9, <1>14 DEF DeleteAllObjects, ClearButDropping, Rebuilding
<1>15. CASE DeleteAllLinks
  BY <1>2, <1>9, <1>15 DEF DeleteAllLinks, ClearButDropping, Rebuilding
<1>16. CASE InsertObjects
  BY <1>2, <1>9, <1>16 DEF InsertObjects, ClearButDropping, Rebuilding
<1>17. CASE InsertLinks
  BY <1>2, <1>9, <1>17 DEF InsertLinks, ClearButDropping, Rebuilding
<1>18. CASE MakeIndex
  <2>1. ClearButDropping' /\ HeldIsStoredInactive'
    BY <1>2, <1>18 DEF MakeIndex, ClearButDropping, HeldIsStoredInactive, Active
  <2> QED
    BY <1>2, <1>18, <2>1 DEF MakeIndex, HeldInv, Clear
<1>19. CASE IndexVectors
  <2>1. vec' = read.unit /\ read.unit \subseteq unit
    BY <1>2, <1>19, UpsertedPieces DEF IndexVectors, Step, ReadIsThere
  <2>2. Clear(row, unit, vec, held)
    BY <1>2, <1>19, ClearAtRest DEF IndexVectors, Step, OneAtATime, Idle, Calm, Writing
  <2> QED
    BY <1>9, <1>19, <2>1, <2>2 DEF IndexVectors, Clear
<1>20. CASE ReadExpired
  BY <1>3, <1>20 DEF ReadExpired, Purgeable, indexVars, tables
<1>21. CASE PurgeRaw
  BY <1>2, <1>3, <1>21 DEF PurgeRaw, indexVars, tables
<1>22. CASE EndPurge
  BY <1>3, <1>22 DEF EndPurge, indexVars, tables
<1>23. CASE StopJob
  BY <1>23 DEF StopJob
<1>24. ASSUME dump' = Dumped, UNCHANGED <<indexVars, putting, jobVars>>
       PROVE  HeldInv'
  <2>1. /\ dump'.row = row /\ dump'.unit = unit /\ dump'.vec = vec /\ dump'.held = held
        /\ dump'.whole => Calm
    BY <1>24 DEF Dumped
  <2>2. dump'.whole => Clear(row, unit, vec, held)
    BY <1>2, <2>1, ClearAtRest DEF Calm, Writing
  <2> QED
    BY <1>2, <1>24, <2>1, <2>2
       DEF indexVars, tables, jobVars, HeldInv, ClearButDropping, HeldIsStoredInactive, Active
<1>25. CASE Backup \/ Drill
  BY <1>24, <1>25 DEF Backup, Drill
<1>26. CASE Restore
  <2>1. dump # Nil /\ dump.whole /\ Idle /\ Idle' /\ Calm /\ dump' = dump
    BY <1>26 DEF Restore, Restorable, Idle
  <2>2. Clear(row', unit', vec', held')
    BY <1>2, <1>26, <2>1 DEF Restore
  <2>3. ClearButDropping' /\ HeldIsStoredInactive'
    BY <1>26, <2>1, <2>2 DEF Clear, ClearButDropping, HeldIsStoredInactive, Active, Restore, Calm, Writing
  <2> QED
    BY <1>2, <2>1, <2>3 DEF HeldInv, Idle
<1>27. CASE PurgeDump
  BY <1>2, <1>27 DEF PurgeDump, indexVars, tables, jobVars, HeldInv, ClearButDropping,
                     HeldIsStoredInactive, Active
<1>28. CASE UNCHANGED vars
  BY <1>2, <1>3, <1>28 DEF vars, indexVars, tables, jobVars
<1> QED
  BY <1>4, <1>5, <1>6, <1>7, <1>8, <1>11, <1>12, <1>13, <1>14, <1>15, <1>16, <1>17, <1>18,
     <1>19, <1>20, <1>21, <1>22, <1>23, <1>25, <1>26, <1>27, <1>28 DEF Next

LEMMA HeldInvariant == Spec => [](TypeInv /\ SearchInv /\ HeldInv)
<1>1. Init => TypeInv /\ SearchInv /\ HeldInv
  BY TypeInit, SearchInit, HeldInit
<1>2. TypeInv /\ SearchInv /\ HeldInv /\ [Next]_vars => TypeInv' /\ SearchInv' /\ HeldInv'
  BY TypeStep, SearchStep, HeldStep
<1> QED
  BY <1>1, <1>2, PTL DEF Spec

\* Rebuilds, index builds, purges and restored backups bring nothing of a
\* withdrawn source back into units and vectors, if none of them met a write and
\* nothing was cut short.
THEOREM WithdrawalsLast == Spec => []WithdrawnStaysUnindexed
<1>1. TypeInv /\ SearchInv /\ HeldInv => WithdrawnStaysUnindexed
  <2> SUFFICES ASSUME TypeInv, HeldInv, Calm, ~ overlapped, ~ cut
               PROVE  \A x \in unit \union vec : x[1] \notin held
    BY DEF WithdrawnStaysUnindexed
  <2> QED
    BY ClearAtRest DEF HeldInv, Clear, Calm, Writing
<1> QED
  BY <1>1, HeldInvariant, PTL

-----------------------------------------------------------------------------
(* The raw objects behind active sources *)

\* The inductive invariant behind RawBehindActive: an active source has its raw
\* object, or the application that stores it has still to put it.
RawInv ==
    ~ overlapped /\ ~ cut /\ ~ restored =>
        \A r \in Refs : Active(r) =>
            \/ r \in raw
            \/ storing # Nil /\ RefOf[storing.ver] = r
            \/ putting # Nil /\ putting.ref = r

LEMMA RawInit == Init => RawInv
BY InitialPieces DEF RawInv

LEMMA RawStaysBehind ==
    ASSUME TypeInv, SearchInv, HeldInv, RawInv, [Next]_vars
    PROVE  RawInv'
<1> SUFFICES ASSUME ~ overlapped', ~ cut', ~ restored'
             PROVE  \A r \in Refs : Active(r)' =>
                       \/ r \in raw'
                       \/ storing' # Nil /\ RefOf[storing'.ver] = r
                       \/ putting' # Nil /\ putting'.ref = r
  BY DEF RawInv
<1>1. ~ overlapped /\ ~ cut /\ ~ restored
  BY StepsGrow DEF TypeInv
<1>2. /\ ClearButDropping /\ OneAtATime
      /\ job = "purge" => doomed \subseteq held
      /\ \A r \in Refs : Active(r) =>
            \/ r \in raw
            \/ storing # Nil /\ RefOf[storing.ver] = r
            \/ putting # Nil /\ putting.ref = r
  BY <1>1 DEF HeldInv, SearchInv, RawInv
<1>3. ASSUME UNCHANGED <<row, raw, storing, putting>>
      PROVE  RawInv'
  BY <1>2, <1>3 DEF RawInv, Active
<1>4. row \in [Refs -> Row \union {Nil}] /\ held \subseteq Refs /\ Nil \notin Refs
  BY ServingIndexAssumption DEF TypeInv, IndexTypeOK
<1>5. ASSUME Write, NEW r \in Refs, Active(r)'
      PROVE  \/ r \in raw'
             \/ storing' # Nil /\ RefOf[storing'.ver] = r
             \/ putting' # Nil /\ putting'.ref = r
  <2> USE ServingIndexAssumption
  <2>1. raw' = raw /\ (putting = Nil \/ storing # Nil) /\ (storing # Nil => putting = Nil)
    BY <1>2, <1>5 DEF Write, OneAtATime
  <2>2. CASE storing # Nil /\ RefOf[storing.ver] = r
    <3>1. storing \in Application
      BY <2>2 DEF TypeInv, IndexTypeOK
    <3>2. CASE storing' = Nil
      <4>1. putting' = [ref |-> r, step |-> "read"]
        BY <1>5, <2>2, <3>2 DEF Write
      <4>2. putting' \in RawStep
        BY <4>1 DEF RawStep
      <4> QED
        BY <4>1, <4>2, NilIsNoRawStep
    <3>3. CASE storing' # Nil
      <4>1. storing'.ver = storing.ver
        BY <1>5, <2>2, <3>1, <3>3
           DEF Write, WriterStep, BeginStore, BeginRestore, StoreRow, StoreObjects, StoreLinks,
               StoreUnits, StoreVectors, StoreStep, Withdraw, MarkInactive, Application
      <4> QED
        BY <2>2, <3>3, <4>1
    <3> QED
      BY <3>2, <3>3
  <2>3. CASE ~ (storing # Nil /\ RefOf[storing.ver] = r)
    <3>1. ASSUME Active(r)
          PROVE  r \in raw'
      BY <1>2, <2>1, <2>3, <3>1
    <3>2. ASSUME NEW v \in Versions, BeginStore(v)
          PROVE  r \in raw'
      BY <1>5, <3>1, <3>2 DEF BeginStore, tables, Active
    <3>3. ASSUME NEW v \in Versions, BeginRestore(v)
          PROVE  r \in raw' \/ (storing' # Nil /\ RefOf[storing'.ver] = r)
      <4>1. storing' \in Application /\ storing'.ver = v
        BY <3>3 DEF BeginRestore, Application, Steps
      <4>2. CASE r = RefOf[v]
        BY <4>1, <4>2, NilIsNoRow
      <4>3. CASE r # RefOf[v]
        BY <1>4, <1>5, <3>1, <3>3, <4>3 DEF BeginRestore, Active
      <4> QED
        BY <4>2, <4>3
    <3>4. CASE StoreRow
      <4>1. row'[r] = row[r]
        BY <1>4, <2>3, <3>4, StoredRow DEF StoreRow, StoreStep
      <4> QED
        BY <1>5, <3>1, <4>1 DEF Active
    <3>5. CASE row' = row
      BY <1>5, <3>1, <3>5 DEF Active
    <3>6. CASE MarkInactive
      <4>1. row'[r] # Nil /\ row'[r].life = "active" => row'[r] = row[r]
        <5>1. row[r] # Nil => [row[r] EXCEPT !.life = "inactive"].life = "inactive"
          BY <1>4 DEF Row
        <5> QED
          BY <1>4, <3>6, <5>1 DEF MarkInactive
      <4> QED
        BY <1>5, <3>1, <4>1 DEF Active
    <3> QED
      BY <1>5, <3>2, <3>3, <3>4, <3>5, <3>6
         DEF Write, WriterStep, StoreObjects, StoreLinks, StoreUnits, StoreVectors, Withdraw
  <2> QED
    BY <2>2, <2>3
<1>6. CASE ReadHolds
  \* A source that is held is not active: no withdrawal is under way.
  <2>1. putting # Nil /\ dropping = Nil
    BY <1>2, <1>6 DEF ReadHolds, OneAtATime
  <2>2. \A r \in held : ~ Active(r)
    BY <1>2, <1>4, <2>1 DEF ClearButDropping
  <2>3. putting \in RawStep
    BY <2>1 DEF TypeInv, JobsTypeOK
  <2>4. putting.ref \notin held => putting' \in RawStep /\ putting'.ref = putting.ref
    BY <1>6, <2>3 DEF ReadHolds, RawStep
  <2> QED
    BY <1>2, <1>6, <2>2, <2>4, NilIsNoRawStep DEF ReadHolds, indexVars, tables, Active
<1>7. CASE PutRaw
  BY <1>2, <1>7 DEF PutRaw, indexVars, tables, Active
<1>8. CASE StopWriting
  BY <1>8 DEF StopWriting
<1>9. ASSUME NEW first, Start(first)
      PROVE  RawInv'
  BY <1>3, <1>9 DEF Start, indexVars, tables
<1>10. ASSUME NEW from, NEW to, Step(from, to)
       PROVE  RawInv'
  BY <1>3, <1>10 DEF Step
<1>11. CASE MakeIndex
  BY <1>3, <1>11 DEF MakeIndex, RawInv
<1>12. CASE ReadExpired
  BY <1>3, <1>12 DEF ReadExpired, indexVars, tables, RawInv
<1>13. CASE PurgeRaw
  <2>1. dropping = Nil /\ doomed \subseteq held
    BY <1>2, <1>13 DEF PurgeRaw, OneAtATime, Idle, Calm, Writing
  <2>2. \A r \in held : ~ Active(r)
    BY <1>2, <1>4, <2>1 DEF ClearButDropping
  <2> QED
    BY <1>2, <1>13, <2>1, <2>2 DEF PurgeRaw, indexVars, tables, Active
<1>14. CASE EndPurge
  BY <1>3, <1>14 DEF EndPurge, indexVars, tables, RawInv
<1>15. CASE StopJob
  BY <1>15 DEF StopJob
<1>16. CASE Backup \/ Drill \/ PurgeDump
  BY <1>3, <1>16 DEF Backup, Drill, PurgeDump, indexVars, tables, RawInv
<1>17. CASE Restore
  BY <1>17 DEF Restore
<1>18. CASE UNCHANGED vars
  BY <1>3, <1>18 DEF vars, indexVars, tables, RawInv
<1> QED
  BY <1>5, <1>6, <1>7, <1>8, <1>9, <1>10, <1>11, <1>12, <1>13, <1>14, <1>15, <1>16, <1>17, <1>18
     DEF Next, RawInv, DeleteAllUnits, InsertUnits, ReplaceVectors, DeleteAllObjects,
         DeleteAllLinks, InsertObjects, InsertLinks, IndexVectors

\* The purge never takes the raw object of a source that is active again: what it
\* has chosen is still held when it deletes it, unless a write met the purge.
THEOREM ActiveKeepRaw == Spec => []RawBehindActive
<1> DEFINE Inv == TypeInv /\ SearchInv /\ HeldInv
<1>1. Inv /\ RawInv /\ [Next]_vars => RawInv'
  BY RawStaysBehind
<1>2. RawInv => RawBehindActive
  BY DEF RawInv, RawBehindActive, Calm, Writing, ActiveRefs
<1> QED
  BY <1>1, <1>2, RawInit, HeldInvariant, PTL DEF Spec

-----------------------------------------------------------------------------
(* Rebuilds *)

\* The inductive invariant behind RebuildRepairs: as long as no write has met the
\* job, what it has read is what is stored, and the tables are as its last
\* statement has left them.
RebuildInv ==
    ~ met =>
        /\ job \in Rebuilding => read.row = row
        /\ job = "insert_units" => unit = {}
        /\ job = "replace_vectors" => unit = Prepared(row)
        /\ job = "delete_links" => object = {}
        /\ job = "insert_objects" => object = {} /\ links = {}
        /\ job = "insert_links" => object = {r \in Refs : row[r] # Nil} /\ links = {}

LEMMA RebuildInit == Init => RebuildInv
BY DEF Init, RebuildInv, Rebuilding

LEMMA RebuildStep ==
    ASSUME TypeInv, RebuildInv, [Next]_vars
    PROVE  RebuildInv'
<1> USE DEF RebuildInv, Rebuilding
<1>1. ASSUME job' = "idle" \/ job' = "index_vectors" \/ job' = "purge" \/ met'
      PROVE  RebuildInv'
  BY <1>1
<1>2. ASSUME UNCHANGED <<row, unit, object, links, job, read, met>>
      PROVE  RebuildInv'
  BY <1>2 DEF Prepared
<1>3. CASE Write \/ ReadHolds \/ PutRaw
  BY <1>1, <1>3 DEF Write, ReadHolds, PutRaw, Meet, jobVars, Idle
<1>4. CASE StopWriting
  BY <1>2, <1>4 DEF StopWriting, WriterStop, StopStore, StopWithdrawal, indexVars, tables, jobVars
<1>5. ASSUME NEW first \in {"delete_units", "delete_objects"}, Start(first)
      PROVE  RebuildInv'
  BY <1>5 DEF Start, NoRead, indexVars, tables
<1>6. CASE DeleteAllUnits
  BY <1>6 DEF DeleteAllUnits, Step, history
<1>7. CASE InsertUnits
  <2>1. Upserted({}, Prepared(read.row)) = Prepared(read.row)
    BY UpsertedPieces
  <2>2. ~ met => unit' = Prepared(row)
    BY <1>7, <2>1 DEF InsertUnits, Step
  <2> QED
    BY <1>7, <2>2 DEF InsertUnits, Step, history, Prepared
<1>8. CASE DeleteAllObjects
  BY <1>8 DEF DeleteAllObjects, Step, history
<1>9. CASE DeleteAllLinks
  BY <1>9 DEF DeleteAllLinks, Step, history
<1>10. CASE InsertObjects
  <2>1. ~ met => object' = {r \in Refs : row[r] # Nil}
    BY <1>10 DEF InsertObjects, Step
  <2> QED
    BY <1>10, <2>1 DEF InsertObjects, Step, history
<1>11. CASE ReplaceVectors \/ InsertLinks \/ IndexVectors \/ MakeIndex \/ ReadExpired \/ EndPurge \/ StopJob
  BY <1>1, <1>11 DEF ReplaceVectors, InsertLinks, IndexVectors, Step, MakeIndex, ReadExpired, EndPurge, StopJob
<1>12. CASE PurgeRaw
  BY <1>1, <1>12 DEF PurgeRaw
<1>13. CASE Backup \/ Drill \/ PurgeDump
  BY <1>2, <1>13 DEF Backup, Drill, PurgeDump, indexVars, tables, jobVars, history
<1>14. CASE Restore
  BY <1>1, <1>14 DEF Restore, Idle
<1>15. CASE UNCHANGED vars
  BY <1>2, <1>15 DEF vars, indexVars, tables, jobVars, history
<1> QED
  BY <1>3, <1>4, <1>5, <1>6, <1>7, <1>8, <1>9, <1>10, <1>11, <1>12, <1>13, <1>14, <1>15 DEF Next

LEMMA UnitsRepaired ==
    ASSUME TypeInv, SearchInv, RebuildInv, ~ met, ReplaceVectors
    PROVE  /\ unit = {x \in vec' : row[x[1]] # Nil} /\ (overlapped \/ vec' = unit)
           /\ \A r \in Refs : row[r] # Nil /\ BodyUnits[row[r].ver] # {} =>
                                 ((\E x \in unit : x[1] = r) <=> Active(r))
<1>1. row \in Rows /\ read.row = row /\ unit = Prepared(row) /\ vec \subseteq Piece
  BY DEF ReplaceVectors, Step, RebuildInv, Rebuilding, TypeInv, IndexTypeOK, Rows, Piece
<1> DEFINE rest == {x \in vec : x[1] \notin {r \in Refs : row[r] # Nil}}
<1>2. vec' = Upserted(rest, unit)
  BY <1>1 DEF ReplaceVectors, IndexedRefs
<1>3. \A x \in rest : row[x[1]] = Nil
  BY <1>1 DEF Piece
<1>4. \A x \in unit : x[1] \in Refs /\ row[x[1]] # Nil /\ Active(x[1])
  BY <1>1, PreparedPieces DEF Active
<1>5. unit = {x \in vec' : row[x[1]] # Nil}
  BY <1>2, <1>3, <1>4, UpsertedPieces
<1>6. ~ overlapped => vec' = unit
  <2>1. ~ overlapped => rest = {}
    BY <1>3 DEF SearchInv, ServedFrom
  <2> QED
    BY <1>2, <2>1, UpsertedPieces
<1>7. ASSUME NEW r \in Refs, row[r] # Nil, BodyUnits[row[r].ver] # {}, Active(r)
      PROVE  \E x \in unit : x[1] = r
  <2>1. PICK i \in BodyUnits[row[r].ver] : TRUE
    BY <1>7
  <2>2. <<r, i, row[r].ver>> \in unit
    BY <1>1, <1>7, <2>1, PreparedPieces DEF Active
  <2> QED
    BY <2>2
<1> QED
  BY <1>4, <1>5, <1>6, <1>7

LEMMA LinksRepaired ==
    ASSUME TypeInv, RebuildInv, ~ met, InsertLinks
    PROVE  /\ object = {r \in Refs : row[r] # Nil}
           /\ \A l \in links' : {l[1], l[2]} \subseteq object
<1>1. /\ row \in Rows /\ RowsOfTheirRef(row) /\ read.row = row
      /\ object = {r \in Refs : row[r] # Nil} /\ links' = Derived(row)
  BY DEF InsertLinks, Step, RebuildInv, Rebuilding, TypeInv, IndexTypeOK, Rows
<1>2. ASSUME NEW l \in Derived(row)
      PROVE  l[1] \in object /\ l[2] \in object
  <2>1. PICK r \in Refs : row[r] # Nil /\ l \in LinksOf[row[r].ver] /\ row[l[2]] # Nil
    BY <1>2 DEF Derived
  <2>2. row[r].ver \in Versions /\ RefOf[row[r].ver] = r
    BY <1>1, <2>1 DEF Rows, Row, RowsOfTheirRef
  <2>3. l[1] = r /\ l[2] \in Refs
    BY <2>1, <2>2, ServingIndexAssumption
  <2> QED
    BY <1>1, <2>1, <2>3
<1> QED
  BY <1>1, <1>2

\* A rebuild that no write ran into leaves units and vectors of active rows,
\* objects of rows and links between objects, whatever was there before.
THEOREM RebuildsRepair == Spec => RebuildRepairs
<1> DEFINE Inv == TypeInv /\ SearchInv
           Repair == /\ ~ met /\ ReplaceVectors =>
                        /\ unit = {x \in vec' : row[x[1]] # Nil} /\ (overlapped \/ vec' = unit)
                        /\ \A r \in Refs : row[r] # Nil /\ BodyUnits[row[r].ver] # {} =>
                                              ((\E x \in unit : x[1] = r) <=> Active(r))
                     /\ ~ met /\ InsertLinks =>
                        /\ object = {r \in Refs : row[r] # Nil}
                        /\ \A l \in links' : {l[1], l[2]} \subseteq object
<1>1. Inv /\ RebuildInv /\ [Next]_vars => RebuildInv'
  BY RebuildStep
<1>2. Inv /\ RebuildInv => Repair
  BY UnitsRepaired, LinksRepaired
<1>3. Spec => [](Inv /\ RebuildInv)
  <2> HIDE DEF Inv
  <2> QED
    BY <1>1, RebuildInit, SearchInvariant, PTL DEF Spec, Inv
<1>4. Spec => [][Repair]_vars
  BY <1>2, <1>3, PTL DEF Spec
<1> QED
  BY <1>4, PTL DEF RebuildRepairs
=====
