------------------------ MODULE SourceChangesProofs ------------------------
(***************************************************************************)
(* What holds of the source-change applier for every set of refs,          *)
(* contents, batches and appliers.                                         *)
(***************************************************************************)
EXTENDS SourceChanges, TLAPS

-----------------------------------------------------------------------------
(* Operators *)

\* Effective states, reasons and checksums of records are what the tables
\* hold (the properties of SourceRecord and source_record_checksum).
LEMMA RecordTypes ==
    ASSUME NEW rec \in SourceRecord
    PROVE  /\ EffectiveLife(rec) \in LifeStates
           /\ LifecycleReason(rec) \in Reasons
           /\ ChecksumOf(rec) \in Checksum
           /\ rec.ref \in Refs /\ rec.sid \in Ids /\ rec.ver \in Versions
BY DEF SourceRecord, EffectiveLife, LifecycleReason, ChecksumOf, Checksum,
       LifeStates, PermStates, Reasons, Restricting

\* The explicit inactive operations have a state to put.
LEMMA InactiveStateType ==
    ASSUME NEW op \in Ops \ {"upsert", "restore"}
    PROVE  InactiveStateFor(op) \in InactiveStates
BY DEF Ops, InactiveStateFor, InactiveStates, LifeStates

\* RecordFor finds the record of every ref there is one for.
LEMMA RecordForRef ==
    ASSUME NEW recs, NEW r \in RefsOf(recs)
    PROVE  RecordFor(r, recs) \in recs /\ RecordFor(r, recs).ref = r
BY DEF RefsOf, RecordFor

\* The refs of source records are refs.
LEMMA RefsOfRecords ==
    ASSUME NEW recs \in SUBSET SourceRecord
    PROVE  RefsOf(recs) \subseteq Refs
BY DEF RefsOf, SourceRecord

\* The records units are prepared for are among the records stored.
LEMMA ActiveAreRecords ==
    ASSUME NEW recs
    PROVE  ActiveOf(recs) \subseteq recs /\ RefsOf(ActiveOf(recs)) \subseteq RefsOf(recs)
BY DEF ActiveOf, RefsOf

\* A change at the head of a list of changes is a change; what remains is a
\* list of changes.
LEMMA HeadIsChange ==
    ASSUME NEW s \in Seq(SourceChange), s # <<>>
    PROVE  Head(s) \in SourceChange /\ Tail(s) \in Seq(SourceChange)
OBVIOUS

\* The fields of a change and of the record it carries.
LEMMA ChangeFields ==
    ASSUME NEW change \in SourceChange
    PROVE  /\ change.op \in Ops /\ change.ref \in Refs /\ change.reason \in Reasons
           /\ change.rec # Nil => change.rec \in SourceRecord
BY DEF SourceChange

\* A row or a unit keeps its type when its state is overwritten.
LEMMA OverwrittenTypes ==
    /\ \A x \in Row, state \in LifeStates : [x EXCEPT !.life = state] \in Row
    /\ \A x \in Unit, status \in {"current", "stale", "inactive"} :
          [x EXCEPT !.status = status] \in Unit
BY DEF Row, Unit

-----------------------------------------------------------------------------
(* Types *)

\* While a withdrawal is under way the change it is about is still at the head
\* of the list and names an inactive state to put.
Withdrawing ==
    \A p \in Appliers : pc[p] \in {"unraw", "audit", "mark"} =>
        /\ todo[p] # <<>>
        /\ Change(p).op = "upsert" => Change(p).rec # Nil
        /\ WithdrawnRef(p) \in Refs
        /\ WithdrawnState(p) \in InactiveStates

\* Only records being stored are written to the raw store.
Putting ==
    \A p \in Appliers : pc[p] = "putraw" => work[p] \subseteq RefsOf(records[p])

TypeInv == TypeOK /\ Withdrawing /\ Putting

\* The tables start empty and every applier idle.
LEMMA TypeInit == Init => TypeInv
BY ConstantsAssumption
   DEF Init, TypeInv, TypeOK, Withdrawing, Putting

\* The transaction that lifts a hold keeps the tables' types.
LEMMA ClearHoldType ==
    ASSUME TypeOK, NEW r \in Refs, ClearHold(r)
    PROVE  /\ hold' \in [Refs -> Hold \union {Nil}]
           /\ row' \in [Refs -> Row \union {Nil}]
           /\ object' \in [Refs -> LifeStates \union {Nil}]
           /\ unit' \in [Refs -> Unit \union {Nil}]
           /\ UNCHANGED <<identified, links, vector, raw, emails, audit>>
<1>0. /\ hold \in [Refs -> Hold \union {Nil}] /\ row \in [Refs -> Row \union {Nil}]
      /\ object \in [Refs -> LifeStates \union {Nil}] /\ unit \in [Refs -> Unit \union {Nil}]
  BY DEF TypeOK
<1>1. hold' \in [Refs -> Hold \union {Nil}]
  BY <1>0 DEF ClearHold
<1>2. row' \in [Refs -> Row \union {Nil}]
  <2>1. row[r] # Nil => [row[r] EXCEPT !.life = "active"] \in Row
    BY <1>0 DEF Row, LifeStates
  <2> QED
    BY <1>0, <2>1 DEF ClearHold
<1>3. object' \in [Refs -> LifeStates \union {Nil}]
  BY <1>0 DEF ClearHold, LifeStates
<1>4. unit' \in [Refs -> Unit \union {Nil}]
  <2>1. unit[r] # Nil => [unit[r] EXCEPT !.status = "stale"] \in Unit
    BY <1>0 DEF Unit
  <2> QED
    BY <1>0, <2>1 DEF ClearHold
<1> QED
  BY <1>1, <1>2, <1>3, <1>4 DEF ClearHold

\* So does the first transaction of a withdrawal.
LEMMA WithdrawType ==
    ASSUME TypeOK, NEW p \in Appliers, NEW r \in Refs, NEW state \in InactiveStates,
           NEW reason \in Reasons, Withdraw(p, r, state, reason)
    PROVE  TypeOK'
<1> USE DEF tables, locals
<1>1. [state |-> state, reason |-> reason] \in Hold
  BY DEF Hold
<1>2. hold' \in [Refs -> Hold \union {Nil}] /\ vector' \in [Refs -> Versions \union {Nil}]
  BY <1>1 DEF Withdraw, TypeOK
<1>3. pc' \in [Appliers -> {"idle", "changes", "unraw", "audit", "mark", "rows", "objects",
                            "links", "units", "vectors", "dropraw", "putraw", "emails", "done"}]
  BY DEF Withdraw, TypeOK, Goto
<1> QED
  BY <1>2, <1>3 DEF Withdraw, TypeOK

\* Every step of the loop over the changes keeps the types.
LEMMA ApplyType ==
    ASSUME TypeInv, NEW p \in Appliers, Apply(p)
    PROVE  TypeOK'
<1> USE ConstantsAssumption, NilAssumption DEF TypeInv, tables, locals
<1> TypeOK
  OBVIOUS
<1>0. ASSUME todo[p] # <<>>
      PROVE  Change(p) \in SourceChange /\ Tail(todo[p]) \in Seq(SourceChange)
  BY <1>0, HeadIsChange DEF Change, TypeOK
<1>1. CASE UpsertRestoring(p)
  <2>1. Change(p) \in SourceChange /\ Tail(todo[p]) \in Seq(SourceChange)
    BY <1>0, <1>1 DEF UpsertRestoring
  <2>2. Change(p).rec \in SourceRecord /\ Change(p).rec.ref \in Refs
    BY <1>1, <2>1, ChangeFields, RecordTypes DEF UpsertRestoring
  <2>3. ClearHold(Change(p).rec.ref)
    BY <1>1 DEF UpsertRestoring
  <2>4. /\ known' \in [Appliers -> [Refs -> Hold \union {Nil}]]
        /\ pending' \in [Appliers -> Seq(SourceRecord)]
        /\ todo' \in [Appliers -> Seq(SourceChange)]
    BY <1>1, <2>1, <2>2 DEF UpsertRestoring, NextChange, TypeOK
  <2> QED
    BY <1>1, <2>2, <2>3, <2>4, ClearHoldType DEF UpsertRestoring, Goto, TypeOK
<1>2. CASE UpsertKeeping(p)
  <2>1. Change(p) \in SourceChange /\ Tail(todo[p]) \in Seq(SourceChange)
    BY <1>0, <1>2 DEF UpsertKeeping
  <2>2. Change(p).rec \in SourceRecord /\ Change(p).rec.ref \in Refs
    BY <1>2, <2>1, ChangeFields, RecordTypes DEF UpsertKeeping
  <2>3. known[p][Change(p).rec.ref] \in Hold \union {Nil}
    BY <2>2 DEF TypeOK
  <2>4. WithExistingLifecycle(Change(p).rec, known[p][Change(p).rec.ref]) \in SourceRecord
    BY <2>2, <2>3 DEF WithExistingLifecycle, SourceRecord, Hold, InactiveStates, LifeStates
  <2> QED
    BY <1>2, <2>1, <2>4 DEF UpsertKeeping, NextChange, Goto, TypeOK
<1>3. CASE Restore(p)
  <2>1. Change(p) \in SourceChange /\ Tail(todo[p]) \in Seq(SourceChange)
    BY <1>0, <1>3 DEF Restore
  <2>2. Change(p).rec \in SourceRecord /\ Change(p).ref \in Refs
    BY <1>3, <2>1, ChangeFields DEF Restore
  <2>3. [Change(p).rec EXCEPT !.life = "active"] \in SourceRecord
    BY <2>2 DEF SourceRecord, LifeStates
  <2>4. /\ known' \in [Appliers -> [Refs -> Hold \union {Nil}]]
        /\ pending' \in [Appliers -> Seq(SourceRecord)]
        /\ todo' \in [Appliers -> Seq(SourceChange)]
    BY <1>3, <2>1, <2>2, <2>3 DEF Restore, NextChange, TypeOK
  <2>5. ClearHold(Change(p).ref)
    BY <1>3 DEF Restore
  <2> QED
    BY <1>3, <2>2, <2>4, <2>5, ClearHoldType DEF Restore, Goto, TypeOK
<1>4. CASE WithdrawUpsert(p)
  <2>1. Change(p).rec \in SourceRecord
    BY <1>0, <1>4, ChangeFields DEF WithdrawUpsert
  <2>2. /\ Change(p).rec.ref \in Refs
        /\ EffectiveLife(Change(p).rec) \in InactiveStates
        /\ LifecycleReason(Change(p).rec) \in Reasons
    BY <1>4, <2>1, RecordTypes DEF WithdrawUpsert, InactiveStates
  <2> QED
    BY <1>4, <2>2, WithdrawType DEF WithdrawUpsert
<1>5. CASE WithdrawSource(p)
  <2>1. Change(p) \in SourceChange
    BY <1>0, <1>5 DEF WithdrawSource
  <2>2. /\ Change(p).ref \in Refs
        /\ InactiveStateFor(Change(p).op) \in InactiveStates
        /\ Change(p).reason \in Reasons
    BY <1>5, <2>1, ChangeFields, InactiveStateType DEF WithdrawSource
  <2> QED
    BY <1>5, <2>2, WithdrawType DEF WithdrawSource
<1>6. CASE DeleteRaw(p)
  BY <1>6 DEF DeleteRaw, Goto, TypeOK
<1>7. CASE RecordAudit(p)
  <2>1. <<WithdrawnRef(p), WithdrawnState(p)>> \in Refs \X InactiveStates
    BY <1>7 DEF RecordAudit, Goto, Withdrawing
  <2> QED
    BY <1>7, <2>1 DEF RecordAudit, Goto, TypeOK
<1>8. CASE MarkInactive(p)
  <2>1. /\ todo[p] # <<>>
        /\ Change(p).op = "upsert" => Change(p).rec # Nil
        /\ WithdrawnRef(p) \in Refs /\ WithdrawnState(p) \in InactiveStates
    BY <1>8 DEF MarkInactive, Goto, Withdrawing
  <2>2. Change(p) \in SourceChange /\ Tail(todo[p]) \in Seq(SourceChange)
    BY <1>0, <2>1
  <2>3. /\ row' \in [Refs -> Row \union {Nil}]
        /\ object' \in [Refs -> LifeStates \union {Nil}]
        /\ unit' \in [Refs -> Unit \union {Nil}]
    <3> DEFINE r == WithdrawnRef(p)
    <3> DEFINE state == WithdrawnState(p)
    <3>1. r \in Refs /\ state \in LifeStates
      BY <2>1 DEF InactiveStates
    <3>2. /\ row[r] # Nil => [row[r] EXCEPT !.life = state] \in Row
          /\ unit[r] # Nil => [unit[r] EXCEPT !.status = "inactive"] \in Unit
      <4>1. row[r] \in Row \union {Nil} /\ unit[r] \in Unit \union {Nil}
        BY <3>1 DEF TypeOK
      <4> HIDE DEF r, state
      <4> QED
        BY <3>1, <4>1, OverwrittenTypes
    <3>3. /\ row' = [row EXCEPT ![r] = IF row[r] = Nil THEN Nil
                                         ELSE [row[r] EXCEPT !.life = state]]
          /\ object' = [object EXCEPT ![r] = IF object[r] = Nil THEN Nil ELSE state]
          /\ unit' = [unit EXCEPT ![r] = IF unit[r] = Nil THEN Nil
                                           ELSE [unit[r] EXCEPT !.status = "inactive"]]
      BY <1>8 DEF MarkInactive
    <3> HIDE DEF r, state
    <3> QED
      BY <3>1, <3>2, <3>3 DEF TypeOK
  <2>4. [state |-> WithdrawnState(p), reason |-> Change(p).reason] \in Hold
    BY <2>1, <2>2, ChangeFields DEF Hold
  <2>5. known' \in [Appliers -> [Refs -> Hold \union {Nil}]]
    <3>1. CASE Change(p).op = "upsert"
      BY <1>8, <3>1 DEF MarkInactive, TypeOK
    <3>2. CASE Change(p).op # "upsert"
      <4>1. known' = [known EXCEPT ![p][WithdrawnRef(p)] =
                        [state |-> WithdrawnState(p), reason |-> Change(p).reason]]
        BY <1>8, <3>2 DEF MarkInactive
      <4> QED
        BY <4>1, <2>1, <2>4 DEF TypeOK
    <3> QED
      BY <3>1, <3>2
  <2>6. pending' \in [Appliers -> Seq(SourceRecord)]
    <3>1. CASE Change(p).op = "upsert"
      <4>1. Change(p).rec \in SourceRecord
        BY <2>1, <2>2, <3>1, ChangeFields
      <4>2. pending' = [pending EXCEPT ![p] = Append(pending[p], Change(p).rec)]
        BY <1>8, <3>1 DEF MarkInactive
      <4> QED
        BY <4>1, <4>2 DEF TypeOK
    <3>2. CASE Change(p).op # "upsert"
      BY <1>8, <3>2 DEF MarkInactive, TypeOK
    <3> QED
      BY <3>1, <3>2
  <2>7. todo' \in [Appliers -> Seq(SourceChange)]
    BY <1>8, <2>2 DEF MarkInactive, NextChange, TypeOK
  <2>8. identified' \subseteq Refs /\ links' \subseteq Refs \X Refs
    BY <1>8 DEF MarkInactive, TypeOK
  <2> QED
    BY <1>8, <2>3, <2>5, <2>6, <2>7, <2>8 DEF MarkInactive, Goto, TypeOK
<1>9. CASE NothingToStore(p)
  BY <1>9 DEF NothingToStore, Forget, Goto, TypeOK
<1> QED
  BY <1>1, <1>2, <1>3, <1>4, <1>5, <1>6, <1>7, <1>8, <1>9 DEF Apply

\* Every step of storing the records keeps the types.
LEMMA StoreType ==
    ASSUME TypeInv, NEW p \in Appliers, Store(p)
    PROVE  TypeOK'
<1> USE ConstantsAssumption, NilAssumption DEF TypeInv, tables, locals
<1> TypeOK
  OBVIOUS
<1> DEFINE recs == records[p]
<1>0. recs \subseteq SourceRecord /\ RefsOf(recs) \subseteq Refs
  BY RecordTypes DEF TypeOK, RefsOf
<1>1. CASE FindReplaced(p)
  <2>1. PICK kept \in SUBSET DOMAIN pending[p] :
          /\ records' = [records EXCEPT ![p] = {pending[p][i] : i \in kept}]
          /\ replaced' = [replaced EXCEPT ![p] = ReplacedBy({pending[p][i] : i \in kept})]
    BY <1>1 DEF FindReplaced
  <2>2. {pending[p][i] : i \in kept} \subseteq SourceRecord
    BY DEF TypeOK
  <2>3. records' \in [Appliers -> SUBSET SourceRecord]
    BY <2>1, <2>2 DEF TypeOK
  <2>4. replaced' \in [Appliers -> SUBSET Refs]
    BY <2>1 DEF TypeOK, ReplacedBy, PreviousRefs
  <2>5. known' \in [Appliers -> [Refs -> Hold \union {Nil}]]
    BY <1>1 DEF FindReplaced, TypeOK
  <2>6. pending' \in [Appliers -> Seq(SourceRecord)]
    BY <1>1 DEF FindReplaced, TypeOK
  <2> QED
    BY <1>1, <2>3, <2>4, <2>5, <2>6 DEF FindReplaced, Goto, TypeOK
<1>2. CASE StoreRows(p)
  <2>1. ASSUME NEW r \in RefsOf(recs)
        PROVE  [sid |-> RecordFor(r, recs).sid, sum |-> ChecksumOf(RecordFor(r, recs)),
                life |-> EffectiveLife(RecordFor(r, recs))] \in Row
    BY <1>0, RecordForRef, RecordTypes DEF Row
  <2>2. row' \in [Refs -> Row \union {Nil}]
    BY <1>2, <2>1 DEF StoreRows, TypeOK
  <2>3. unit' \in [Refs -> Unit \union {Nil}]
    <3>1. \A r \in Refs : unit[r] # Nil => [unit[r] EXCEPT !.status = "stale"] \in Unit
      BY OverwrittenTypes DEF TypeOK
    <3> QED
      BY <1>2, <3>1 DEF StoreRows, TypeOK
  <2>4. identified' \subseteq Refs
    BY <1>0, <1>2 DEF StoreRows, TypeOK
  <2> QED
    BY <1>2, <2>2, <2>3, <2>4 DEF StoreRows, Goto, TypeOK
<1>3. CASE StoreObjects(p)
  <2>1. \A r \in RefsOf(recs) : EffectiveLife(RecordFor(r, recs)) \in LifeStates
    BY <1>0, RecordForRef, RecordTypes
  <2>2. object' \in [Refs -> LifeStates \union {Nil}]
    BY <1>3, <2>1 DEF StoreObjects, TypeOK
  <2> QED
    BY <1>3, <2>2 DEF StoreObjects, Goto, TypeOK
<1>4. CASE StoreLinks(p)
  <2>1. LinksOf(recs) \subseteq Refs \X Refs
    BY <1>0, RecordTypes DEF LinksOf
  <2> QED
    BY <1>4, <2>1 DEF StoreLinks, Goto, TypeOK
<1>5. CASE ReplaceUnits(p)
  <2>1. ASSUME NEW r \in RefsOf(ActiveOf(recs))
        PROVE  [status |-> "current", sum |-> ChecksumOf(RecordFor(r, ActiveOf(recs)))] \in Unit
    BY <1>0, ActiveAreRecords, RecordForRef, RecordTypes DEF Unit
  <2>2. unit' \in [Refs -> Unit \union {Nil}]
    BY <1>5, <2>1 DEF ReplaceUnits, TypeOK
  <2> QED
    BY <1>5, <2>2 DEF ReplaceUnits, Goto, TypeOK
<1>6. CASE ReplaceVectors(p)
  <2>1. \A r \in RefsOf(ActiveOf(recs)) : RecordFor(r, ActiveOf(recs)).ver \in Versions
    BY <1>0, ActiveAreRecords, RecordForRef, RecordTypes
  <2>2. vector' \in [Refs -> Versions \union {Nil}]
    BY <1>6, <2>1 DEF ReplaceVectors, TypeOK
  <2>3. pc' \in [Appliers -> {"idle", "changes", "unraw", "audit", "mark", "rows", "objects",
                              "links", "units", "vectors", "dropraw", "putraw", "emails", "done"}]
    BY <1>6 DEF ReplaceVectors, Goto, TypeOK
  <2>4. work' \in [Appliers -> SUBSET Refs]
    BY <1>6 DEF ReplaceVectors, TypeOK
  <2> QED
    BY <1>6, <2>2, <2>3, <2>4 DEF ReplaceVectors, TypeOK
<1>7. CASE DropRaw(p)
  BY <1>7 DEF DropRaw, Goto, TypeOK
<1>8. CASE ReadHolds(p)
  <2>1. {r \in RefsOf(ActiveOf(recs)) : hold[r] = Nil} \subseteq Refs
    BY <1>0, ActiveAreRecords
  <2> QED
    BY <1>8, <2>1 DEF ReadHolds, Goto, TypeOK
<1>9. CASE PutRaw(p)
  <2>1. PICK r \in work[p] : /\ raw' = [raw EXCEPT ![r] = RecordFor(r, records[p]).ver]
                             /\ work' = [work EXCEPT ![p] = @ \ {r}]
    BY <1>9 DEF PutRaw
  <2>2. RecordFor(r, recs).ver \in Versions
    BY <1>0, <1>9, RecordForRef, RecordTypes DEF PutRaw, Goto, Putting
  <2> QED
    BY <1>9, <2>1, <2>2 DEF PutRaw, Goto, TypeOK
<1>10. CASE RawStored(p)
  BY <1>10 DEF RawStored, Goto, TypeOK
<1>11. CASE DeleteEmails(p)
  BY <1>11 DEF DeleteEmails, Goto, TypeOK
<1>12. CASE Return(p)
  BY <1>12 DEF Return, Forget, Goto, TypeOK
<1> QED
  BY <1>1, <1>2, <1>3, <1>4, <1>5, <1>6, <1>7, <1>8, <1>9, <1>10, <1>11, <1>12 DEF Store

\* A step of one applier leaves the local variables of the others alone.
LEMMA OthersWait ==
    ASSUME TypeOK, NEW p \in Appliers, NEW q \in Appliers, q # p,
           Begin(p) \/ Apply(p) \/ Store(p) \/ Abort(p)
    PROVE  /\ pc'[q] = pc[q] /\ todo'[q] = todo[q]
           /\ work'[q] = work[q] /\ records'[q] = records[q]
<1>1. DOMAIN pc = Appliers /\ DOMAIN todo = Appliers
      /\ DOMAIN work = Appliers /\ DOMAIN records = Appliers
  BY DEF TypeOK
<1>2. CASE Begin(p)
  BY <1>1, <1>2 DEF Begin, Goto, tables
<1>3. CASE Abort(p)
  BY <1>1, <1>3 DEF Abort, Forget, Goto, tables
<1>4. CASE UpsertRestoring(p) \/ UpsertKeeping(p) \/ Restore(p) \/ NothingToStore(p)
  BY <1>1, <1>4 DEF UpsertRestoring, UpsertKeeping, Restore, NothingToStore, NextChange, Forget, Goto,
     tables, locals
<1>5. CASE WithdrawUpsert(p) \/ WithdrawSource(p)
  BY <1>1, <1>5 DEF WithdrawUpsert, WithdrawSource, Withdraw, Goto, locals
<1>6. CASE DeleteRaw(p) \/ RecordAudit(p) \/ MarkInactive(p)
  BY <1>1, <1>6 DEF DeleteRaw, RecordAudit, MarkInactive, NextChange, Goto, locals
<1>7. CASE FindReplaced(p) \/ StoreRows(p) \/ StoreObjects(p) \/ StoreLinks(p)
  BY <1>1, <1>7 DEF FindReplaced, StoreRows, StoreObjects, StoreLinks, Goto, tables, locals
<1>8. CASE ReplaceUnits(p) \/ ReplaceVectors(p) \/ DropRaw(p) \/ ReadHolds(p)
  BY <1>1, <1>8 DEF ReplaceUnits, ReplaceVectors, DropRaw, ReadHolds, Goto, tables, locals
<1>9. CASE PutRaw(p) \/ RawStored(p) \/ DeleteEmails(p) \/ Return(p)
  BY <1>1, <1>9 DEF PutRaw, RawStored, DeleteEmails, Return, Forget, Goto, tables, locals
<1> QED
  BY <1>2, <1>3, <1>4, <1>5, <1>6, <1>7, <1>8, <1>9 DEF Apply, Store

\* Links come from the step that stores them.
LEMMA LinksOnlyStored ==
    ASSUME NEW p \in Appliers, Begin(p) \/ Apply(p) \/ Store(p) \/ Abort(p), ~ StoreLinks(p)
    PROVE  links' \subseteq links
<1>1. CASE Begin(p) \/ Abort(p)
  BY <1>1 DEF Begin, Abort, tables
<1>2. CASE UpsertRestoring(p) \/ UpsertKeeping(p) \/ Restore(p) \/ NothingToStore(p)
  BY <1>2 DEF UpsertRestoring, UpsertKeeping, Restore, NothingToStore, ClearHold, tables
<1>3. CASE WithdrawUpsert(p) \/ WithdrawSource(p)
  BY <1>3 DEF WithdrawUpsert, WithdrawSource, Withdraw
<1>4. CASE DeleteRaw(p) \/ RecordAudit(p) \/ MarkInactive(p)
  BY <1>4 DEF DeleteRaw, RecordAudit, MarkInactive
<1>5. CASE FindReplaced(p) \/ StoreRows(p) \/ StoreObjects(p)
  BY <1>5 DEF FindReplaced, StoreRows, StoreObjects, tables
<1>6. CASE ReplaceUnits(p) \/ ReplaceVectors(p) \/ DropRaw(p) \/ ReadHolds(p)
  BY <1>6 DEF ReplaceUnits, ReplaceVectors, DropRaw, ReadHolds, tables
<1>7. CASE PutRaw(p) \/ RawStored(p) \/ DeleteEmails(p) \/ Return(p)
  BY <1>7 DEF PutRaw, RawStored, DeleteEmails, Return, tables
<1> QED
  BY <1>1, <1>2, <1>3, <1>4, <1>5, <1>6, <1>7 DEF Apply, Store

\* An applier comes to the links from storing its objects.
LEMMA LinksAfterObjects ==
    ASSUME TypeOK, NEW p \in Appliers, Begin(p) \/ Apply(p) \/ Store(p) \/ Abort(p),
           ~ StoreObjects(p)
    PROVE  pc'[p] # "links"
<1>1. DOMAIN pc = Appliers
  BY DEF TypeOK
<1>2. CASE Begin(p) \/ Abort(p)
  BY <1>1, <1>2 DEF Begin, Abort, Goto
<1>3. CASE UpsertRestoring(p) \/ UpsertKeeping(p) \/ Restore(p) \/ NothingToStore(p)
  BY <1>1, <1>3 DEF UpsertRestoring, UpsertKeeping, Restore, NothingToStore, Goto
<1>4. CASE WithdrawUpsert(p) \/ WithdrawSource(p)
  BY <1>1, <1>4 DEF WithdrawUpsert, WithdrawSource, Withdraw, Goto
<1>5. CASE DeleteRaw(p) \/ RecordAudit(p) \/ MarkInactive(p)
  BY <1>1, <1>5 DEF DeleteRaw, RecordAudit, MarkInactive, Goto
<1>6. CASE FindReplaced(p) \/ StoreRows(p) \/ StoreLinks(p)
  BY <1>1, <1>6 DEF FindReplaced, StoreRows, StoreLinks, Goto
<1>7. CASE ReplaceUnits(p) \/ ReplaceVectors(p) \/ DropRaw(p) \/ ReadHolds(p)
  BY <1>1, <1>7 DEF ReplaceUnits, ReplaceVectors, DropRaw, ReadHolds, Goto
<1>8. CASE PutRaw(p) \/ RawStored(p) \/ DeleteEmails(p) \/ Return(p)
  BY <1>1, <1>8 DEF PutRaw, RawStored, DeleteEmails, Return, Goto
<1> QED
  BY <1>2, <1>3, <1>4, <1>5, <1>6, <1>7, <1>8 DEF Apply, Store

\* A withdrawal stays on the change it began with, and the raw-store loop on
\* the records being stored, until the applier moves on.
LEMMA ControlStep == TypeInv /\ [Next]_vars => Withdrawing' /\ Putting'
<1> SUFFICES ASSUME TypeInv, [Next]_vars
             PROVE  Withdrawing' /\ Putting'
  OBVIOUS
<1> USE DEF TypeInv
<1> DEFINE Safe(q) ==
      /\ pc'[q] \in {"unraw", "audit", "mark"} =>
            /\ todo'[q] # <<>>
            /\ Change(q)'.op = "upsert" => Change(q)'.rec # Nil
            /\ WithdrawnRef(q)' \in Refs
            /\ WithdrawnState(q)' \in InactiveStates
      /\ pc'[q] = "putraw" => work'[q] \subseteq RefsOf(records'[q])
<1>1. SUFFICES \A q \in Appliers : Safe(q)
  BY <1>1 DEF Withdrawing, Putting, WithdrawnRef, WithdrawnState, Change, RefsOf
<1>2. ASSUME NEW q \in Appliers, pc'[q] = pc[q], todo'[q] = todo[q],
             work'[q] = work[q], records'[q] = records[q]
      PROVE  Safe(q)
  BY <1>2 DEF Withdrawing, Putting, WithdrawnRef, WithdrawnState, Change
<1>3. ASSUME UNCHANGED vars, NEW q \in Appliers PROVE Safe(q)
  BY <1>2, <1>3 DEF vars, locals
<1>4. ASSUME NEW p \in Appliers, Begin(p) \/ Apply(p) \/ Store(p) \/ Abort(p),
             NEW q \in Appliers
      PROVE  Safe(q)
  <2>1. CASE q # p
    <3>1. /\ pc'[q] = pc[q] /\ todo'[q] = todo[q]
          /\ work'[q] = work[q] /\ records'[q] = records[q]
      BY <1>4, <2>1, OthersWait
    <3> QED
      BY <1>2, <3>1
  <2>2. CASE q = p
    <3>1. CASE pc'[p] \notin {"unraw", "audit", "mark", "putraw"}
      BY <2>2, <3>1
    <3>2. CASE WithdrawUpsert(p)
      <4>1. /\ todo' = todo /\ pc'[p] \in {"unraw", "audit"}
            /\ todo[p] # <<>> /\ Change(p).op = "upsert" /\ Change(p).rec # Nil
            /\ EffectiveLife(Change(p).rec) # "active"
        BY <3>2 DEF WithdrawUpsert, Withdraw, Goto, locals, TypeOK
      <4>2. Change(p).rec \in SourceRecord
        BY <4>1, HeadIsChange, ChangeFields DEF Change, TypeOK
      <4>3. Change(p)' = Change(p)
        BY <4>1 DEF Change
      <4>4. Change(p).rec.ref \in Refs /\ EffectiveLife(Change(p).rec) \in InactiveStates
        BY <4>1, <4>2, RecordTypes DEF InactiveStates
      <4> QED
        BY <2>2, <4>1, <4>3, <4>4 DEF WithdrawnRef, WithdrawnState
    <3>3. CASE WithdrawSource(p)
      <4>1. /\ todo' = todo /\ pc'[p] \in {"unraw", "audit"}
            /\ todo[p] # <<>> /\ Change(p).op \notin {"upsert", "restore"}
        BY <3>3 DEF WithdrawSource, Withdraw, Goto, locals, TypeOK
      <4>2. Change(p).ref \in Refs /\ Change(p).op \in Ops \ {"upsert", "restore"}
        BY <4>1, HeadIsChange, ChangeFields DEF Change, TypeOK
      <4>3. Change(p)' = Change(p)
        BY <4>1 DEF Change
      <4> QED
        BY <2>2, <4>1, <4>2, <4>3, InactiveStateType DEF WithdrawnRef, WithdrawnState
    <3>4. CASE DeleteRaw(p) \/ RecordAudit(p)
      <4>1. /\ todo' = todo /\ pc[p] \in {"unraw", "audit"} /\ pc'[p] \in {"audit", "mark"}
        BY <3>4 DEF DeleteRaw, RecordAudit, Goto, locals, TypeOK
      <4> QED
        BY <2>2, <4>1 DEF Withdrawing, WithdrawnRef, WithdrawnState, Change
    <3>5. CASE ReadHolds(p)
      <4>1. /\ pc'[p] = "putraw" /\ records' = records
            /\ work'[p] \subseteq RefsOf(ActiveOf(records[p]))
        BY <3>5 DEF ReadHolds, Goto, TypeOK
      <4> QED
        BY <2>2, <4>1, ActiveAreRecords
    <3>6. CASE PutRaw(p)
      <4>1. /\ pc[p] = "putraw" /\ pc'[p] = "putraw" /\ records' = records
            /\ work'[p] \subseteq work[p]
        BY <3>6 DEF PutRaw, Goto, TypeOK
      <4> QED
        BY <2>2, <4>1 DEF Putting
    <3>7. ASSUME ~ (WithdrawUpsert(p) \/ WithdrawSource(p) \/ DeleteRaw(p) \/ RecordAudit(p)
                    \/ ReadHolds(p) \/ PutRaw(p))
          PROVE  pc'[p] \notin {"unraw", "audit", "mark", "putraw"}
      BY <1>4, <3>7
         DEF Begin, Apply, Store, Abort, UpsertRestoring, UpsertKeeping, Restore, MarkInactive,
             NothingToStore, FindReplaced, StoreRows, StoreObjects, StoreLinks, ReplaceUnits,
             ReplaceVectors, DropRaw, RawStored, DeleteEmails, Return, Goto, TypeOK
    <3> QED
      BY <3>1, <3>2, <3>3, <3>4, <3>5, <3>6, <3>7
  <2> QED
    BY <2>1, <2>2
<1> QED
  BY <1>3, <1>4 DEF Next

\* Every commit of an application, and every failure of one, keeps TypeInv.
LEMMA TypeStep == TypeInv /\ [Next]_vars => TypeInv'
<1> SUFFICES ASSUME TypeInv, [Next]_vars PROVE TypeOK'
  BY ControlStep DEF TypeInv
<1> USE DEF TypeInv
<1>1. CASE UNCHANGED vars
  BY <1>1 DEF vars, tables, locals, TypeOK
<1>2. ASSUME NEW p \in Appliers, Begin(p) PROVE TypeOK'
  BY <1>2, ConstantsAssumption DEF Begin, Goto, tables, TypeOK
<1>3. ASSUME NEW p \in Appliers, Abort(p) PROVE TypeOK'
  BY <1>3, NilAssumption, ConstantsAssumption DEF Abort, Forget, tables, TypeOK
<1> QED
  BY <1>1, <1>2, <1>3, ApplyType, StoreType DEF Next

\* The tables and the local variables of the applications always have their
\* declared types, whatever the refs, contents, batches and appliers.
THEOREM TypeCorrect == Spec => []TypeOK
<1>1. Init => TypeInv
  BY TypeInit
<1>2. TypeInv /\ [Next]_vars => TypeInv'
  BY TypeStep
<1>3. TypeInv => TypeOK
  BY DEF TypeInv
<1> QED
  BY <1>1, <1>2, <1>3, PTL DEF Spec

-----------------------------------------------------------------------------
(* Units and rows *)

\* Connectors derive a source's ref from its identity: source maps each ref to
\* the one identity it is delivered with.
RecordsOf(source) == {rec \in SourceRecord : rec.sid = source[rec.ref]}
ChangesOf(source) ==
    {change \in SourceChange : change.rec # Nil => change.rec \in RecordsOf(source)}

OneApplier == \A p, q \in Appliers : p = q

OneRecordPerRef(recs) == \A x, y \in recs : x.ref = y.ref => x = y

\* Lists, records and rows keep the identity of each ref.
IdentitiesKept(source) ==
    /\ todo \in [Appliers -> Seq(ChangesOf(source))]
    /\ pending \in [Appliers -> Seq(RecordsOf(source))]
    /\ records \in [Appliers -> SUBSET RecordsOf(source)]
    /\ \A r \in Refs : row[r] # Nil => row[r].sid = source[r]

\* Between the transaction that stores the rows and the one that inserts the
\* units, the rows say what the records say.
RowsStored ==
    \A p \in Appliers : pc[p] \in {"objects", "links", "units"} =>
        \A rec \in records[p] : row[rec.ref] # Nil /\ row[rec.ref].sum = ChecksumOf(rec)

UnitsInv(source) ==
    /\ TypeInv
    /\ IdentitiesKept(source)
    /\ \A p \in Appliers : OneRecordPerRef(records[p])
    /\ RowsStored
    /\ UnitsMatchRows

\* latest_source_records keeps at most one record of a ref.
LEMMA LatestIsUnique ==
    ASSUME NEW s \in Seq(SourceRecord), NEW kept \in SUBSET DOMAIN s, IsLatest(s, kept)
    PROVE  OneRecordPerRef({s[i] : i \in kept})
<1> SUFFICES ASSUME NEW i \in kept, NEW j \in kept, s[i].ref = s[j].ref
             PROVE  s[i] = s[j]
  BY DEF OneRecordPerRef
<1>1. i \in Nat /\ j \in Nat /\ i \in DOMAIN s /\ j \in DOMAIN s
  OBVIOUS
<1>2. ~ (j > i) /\ ~ (i > j)
  BY <1>1 DEF IsLatest, SameSource
<1> QED
  BY <1>1, <1>2

\* The mutations of the loop over the changes keep identities.
LEMMA IdentitiesStep ==
    ASSUME NEW source \in [Refs -> Ids], Batches \subseteq Seq(ChangesOf(source)),
           TypeInv, IdentitiesKept(source), [Next]_vars
    PROVE  IdentitiesKept(source)'
<1> USE DEF IdentitiesKept
<1>0. \A p \in Appliers : todo[p] # <<>> =>
         /\ Change(p) \in ChangesOf(source) /\ Tail(todo[p]) \in Seq(ChangesOf(source))
         /\ Change(p).rec # Nil => Change(p).rec \in RecordsOf(source)
  <2>1. \A s \in Seq(ChangesOf(source)) : s # <<>> =>
            Head(s) \in ChangesOf(source) /\ Tail(s) \in Seq(ChangesOf(source))
    OBVIOUS
  <2> QED
    BY <2>1 DEF Change, ChangesOf
<1>1. CASE UNCHANGED vars
  BY <1>1 DEF vars, tables, locals
<1>2. ASSUME NEW p \in Appliers, Begin(p) PROVE IdentitiesKept(source)'
  BY <1>2 DEF Begin, tables
<1>3. ASSUME NEW p \in Appliers, Abort(p) PROVE IdentitiesKept(source)'
  BY <1>3 DEF Abort, Forget, tables
<1>4. ASSUME NEW r \in Refs, ClearHold(r)
      PROVE  \A s \in Refs : row'[s] # Nil => row'[s].sid = source[s]
  BY <1>4 DEF ClearHold, TypeInv, TypeOK, Row
<1>5. ASSUME NEW p \in Appliers, Apply(p) PROVE IdentitiesKept(source)'
  <2>1. CASE UpsertRestoring(p)
    <3>1. /\ Change(p).rec \in RecordsOf(source) /\ Tail(todo[p]) \in Seq(ChangesOf(source))
          /\ Change(p).rec.ref \in Refs
      BY <1>0, <2>1 DEF UpsertRestoring, RecordsOf, SourceRecord
    <3>2. /\ todo' = [todo EXCEPT ![p] = Tail(@)] /\ records' = records
          /\ pending' = [pending EXCEPT ![p] = Append(@, Change(p).rec)]
          /\ ClearHold(Change(p).rec.ref)
      BY <2>1 DEF UpsertRestoring, NextChange
    <3> QED
      BY <1>4, <3>1, <3>2
  <2>2. CASE UpsertKeeping(p)
    <3> DEFINE rec == WithExistingLifecycle(Change(p).rec, known[p][Change(p).rec.ref])
    <3>1. Change(p).rec \in RecordsOf(source) /\ Tail(todo[p]) \in Seq(ChangesOf(source))
      BY <1>0, <2>2 DEF UpsertKeeping
    <3>2. rec \in RecordsOf(source)
      <4>1. Change(p).rec \in SourceRecord /\ Change(p).rec.ref \in Refs
        BY <3>1 DEF RecordsOf, SourceRecord
      <4>2. known[p][Change(p).rec.ref] \in Hold \union {Nil}
        BY <4>1 DEF TypeInv, TypeOK
      <4> QED
        BY <3>1, <4>1, <4>2
           DEF RecordsOf, WithExistingLifecycle, SourceRecord, Hold, InactiveStates, LifeStates
    <3>3. /\ todo' = [todo EXCEPT ![p] = Tail(@)] /\ records' = records /\ row' = row
          /\ pending' = [pending EXCEPT ![p] = Append(@, rec)]
      BY <2>2 DEF UpsertKeeping, NextChange, tables
    <3> HIDE DEF rec
    <3> QED
      BY <3>1, <3>2, <3>3
  <2>3. CASE Restore(p)
    <3> DEFINE rec == [Change(p).rec EXCEPT !.life = "active"]
    <3>1. /\ Change(p).rec \in RecordsOf(source) /\ Tail(todo[p]) \in Seq(ChangesOf(source))
          /\ Change(p).ref \in Refs
      BY <1>0, <2>3 DEF Restore, ChangesOf, SourceChange
    <3>2. rec \in RecordsOf(source)
      BY <3>1 DEF RecordsOf, SourceRecord, LifeStates
    <3>3. /\ todo' = [todo EXCEPT ![p] = Tail(@)] /\ records' = records
          /\ pending' = [pending EXCEPT ![p] = Append(@, rec)]
          /\ ClearHold(Change(p).ref)
      BY <2>3 DEF Restore, NextChange
    <3> HIDE DEF rec
    <3> QED
      BY <1>4, <3>1, <3>2, <3>3
  <2>4. CASE WithdrawUpsert(p) \/ WithdrawSource(p) \/ DeleteRaw(p) \/ RecordAudit(p)
    BY <2>4 DEF WithdrawUpsert, WithdrawSource, Withdraw, DeleteRaw, RecordAudit, locals
  <2>5. CASE MarkInactive(p)
    <3>1. /\ todo[p] # <<>> /\ WithdrawnRef(p) \in Refs
          /\ Change(p).op = "upsert" => Change(p).rec # Nil
      BY <2>5 DEF MarkInactive, Goto, TypeInv, Withdrawing
    <3>2. Tail(todo[p]) \in Seq(ChangesOf(source))
      BY <1>0, <3>1
    <3>3. todo' = [todo EXCEPT ![p] = Tail(@)] /\ records' = records
      BY <2>5 DEF MarkInactive, NextChange
    <3>4. pending' \in [Appliers -> Seq(RecordsOf(source))]
      <4>1. CASE Change(p).op = "upsert"
        <5>1. Change(p).rec \in RecordsOf(source)
          BY <1>0, <3>1, <4>1
        <5>2. pending' = [pending EXCEPT ![p] = Append(@, Change(p).rec)]
          BY <2>5, <4>1 DEF MarkInactive
        <5> QED
          BY <5>1, <5>2
      <4>2. CASE Change(p).op # "upsert"
        BY <2>5, <4>2 DEF MarkInactive
      <4> QED
        BY <4>1, <4>2
    <3>5. \A s \in Refs : row'[s] # Nil => row'[s].sid = source[s]
      <4>1. row' = [row EXCEPT ![WithdrawnRef(p)] =
                      IF @ = Nil THEN Nil ELSE [@ EXCEPT !.life = WithdrawnState(p)]]
        BY <2>5 DEF MarkInactive
      <4> QED
        BY <3>1, <4>1 DEF TypeInv, TypeOK, Row
    <3> QED
      BY <3>2, <3>3, <3>4, <3>5
  <2>6. CASE NothingToStore(p)
    BY <2>6 DEF NothingToStore, Forget, tables
  <2> QED
    BY <1>5, <2>1, <2>2, <2>3, <2>4, <2>5, <2>6 DEF Apply
<1>6. ASSUME NEW p \in Appliers, Store(p) PROVE IdentitiesKept(source)'
  <2>1. CASE FindReplaced(p)
    <3>1. PICK kept \in SUBSET DOMAIN pending[p] :
            records' = [records EXCEPT ![p] = {pending[p][i] : i \in kept}]
      BY <2>1 DEF FindReplaced
    <3>2. {pending[p][i] : i \in kept} \subseteq RecordsOf(source)
      OBVIOUS
    <3> QED
      BY <2>1, <3>1, <3>2 DEF FindReplaced, tables
  <2>2. CASE StoreRows(p)
    <3>1. ASSUME NEW s \in Refs, row'[s] # Nil PROVE row'[s].sid = source[s]
      <4>1. CASE s \in RefsOf(records[p])
        <5>1. row'[s].sid = RecordFor(s, records[p]).sid
          BY <2>2, <4>1 DEF StoreRows
        <5> QED
          BY <4>1, <5>1, RecordForRef DEF RecordsOf
      <4>2. CASE s \notin RefsOf(records[p])
        BY <2>2, <3>1, <4>2 DEF StoreRows
      <4> QED
        BY <4>1, <4>2
    <3> QED
      BY <2>2, <3>1 DEF StoreRows, locals
  <2>3. CASE Return(p)
    BY <2>3 DEF Return, Forget, tables
  <2>4. ASSUME ~ (FindReplaced(p) \/ StoreRows(p) \/ Return(p))
        PROVE  UNCHANGED <<todo, pending, records, row>>
    BY <1>6, <2>4
       DEF Store, StoreObjects, StoreLinks, ReplaceUnits, ReplaceVectors, DropRaw, ReadHolds,
           PutRaw, RawStored, DeleteEmails, tables, locals
  <2> QED
    BY <2>1, <2>2, <2>3, <2>4
<1> QED
  BY <1>1, <1>2, <1>3, <1>5, <1>6 DEF Next

\* At any time the records being stored are one per ref: they were selected
\* by latest_source_records.
LEMMA UniqueStep ==
    ASSUME TypeInv, \A p \in Appliers : OneRecordPerRef(records[p]), [Next]_vars
    PROVE  \A p \in Appliers : OneRecordPerRef(records'[p])
<1>1. CASE UNCHANGED vars
  BY <1>1 DEF vars, locals
<1>2. ASSUME NEW p \in Appliers, FindReplaced(p)
      PROVE  \A q \in Appliers : OneRecordPerRef(records'[q])
  <2>1. PICK kept \in SUBSET DOMAIN pending[p] :
          /\ IsLatest(pending[p], kept)
          /\ records' = [records EXCEPT ![p] = {pending[p][i] : i \in kept}]
    BY <1>2 DEF FindReplaced
  <2>2. OneRecordPerRef({pending[p][i] : i \in kept})
    BY <2>1, LatestIsUnique DEF TypeInv, TypeOK
  <2> QED
    BY <2>1, <2>2 DEF TypeInv, TypeOK
<1>3. ASSUME NEW p \in Appliers, Begin(p) \/ Apply(p) \/ Store(p) \/ Abort(p), ~ FindReplaced(p)
      PROVE  \A q \in Appliers : records'[q] = records[q] \/ records'[q] = {}
  BY <1>3
     DEF Begin, Apply, Store, Abort, UpsertRestoring, UpsertKeeping, Restore, WithdrawUpsert,
         WithdrawSource, Withdraw, DeleteRaw, RecordAudit, MarkInactive, NothingToStore,
         StoreRows, StoreObjects, StoreLinks, ReplaceUnits, ReplaceVectors, DropRaw, ReadHolds,
         PutRaw, RawStored, DeleteEmails, Return, Forget, NextChange, TypeInv, TypeOK, locals
<1>4. OneRecordPerRef({})
  BY DEF OneRecordPerRef
<1> QED
  BY <1>1, <1>2, <1>3, <1>4 DEF Next

\* With one applier, what RowsStored and UnitsMatchRows say survives every
\* commit and every failure.
LEMMA UnitsStep ==
    ASSUME NEW source \in [Refs -> Ids], OneApplier, UnitsInv(source), [Next]_vars
    PROVE  RowsStored' /\ UnitsMatchRows'
<1> USE DEF UnitsInv
<1>1. CASE UNCHANGED vars
  BY <1>1 DEF vars, tables, locals, RowsStored, UnitsMatchRows
<1>2. ASSUME NEW p \in Appliers, Begin(p) \/ Abort(p)
      PROVE  RowsStored' /\ UnitsMatchRows'
  <2>1. pc'[p] \notin {"objects", "links", "units"} /\ row' = row /\ unit' = unit
    BY <1>2 DEF Begin, Abort, Goto, tables, TypeInv, TypeOK
  <2> QED
    BY <2>1 DEF OneApplier, RowsStored, UnitsMatchRows
<1>3. ASSUME NEW p \in Appliers, Apply(p)
      PROVE  RowsStored' /\ UnitsMatchRows'
  <2>1. pc'[p] \notin {"objects", "links", "units"}
    BY <1>3
       DEF Apply, UpsertRestoring, UpsertKeeping, Restore, WithdrawUpsert, WithdrawSource,
           Withdraw, DeleteRaw, RecordAudit, MarkInactive, NothingToStore, Goto, TypeInv, TypeOK
  <2>2. RowsStored'
    BY <2>1 DEF OneApplier, RowsStored
  <2>3. ASSUME NEW r \in Refs, ClearHold(r) PROVE UnitsMatchRows'
    BY <2>3 DEF ClearHold, UnitsMatchRows, TypeInv, TypeOK, Unit, Row
  <2>4. CASE UpsertRestoring(p)
    <3>1. Change(p).rec.ref \in Refs
      BY <2>4, HeadIsChange, ChangeFields, RecordTypes
         DEF UpsertRestoring, Change, TypeInv, TypeOK
    <3> QED
      BY <2>2, <2>3, <2>4, <3>1 DEF UpsertRestoring
  <2>5. CASE Restore(p)
    <3>1. Change(p).ref \in Refs
      BY <2>5, HeadIsChange, ChangeFields DEF Restore, Change, TypeInv, TypeOK
    <3> QED
      BY <2>2, <2>3, <2>5, <3>1 DEF Restore
  <2>6. CASE MarkInactive(p)
    <3> DEFINE r == WithdrawnRef(p)
    <3>1. /\ row' = [row EXCEPT ![r] = IF @ = Nil THEN Nil
                                         ELSE [@ EXCEPT !.life = WithdrawnState(p)]]
          /\ unit' = [unit EXCEPT ![r] = IF @ = Nil THEN Nil
                                           ELSE [@ EXCEPT !.status = "inactive"]]
      BY <2>6 DEF MarkInactive
    <3> HIDE DEF r
    <3>2. UnitsMatchRows'
      BY <3>1 DEF UnitsMatchRows, TypeInv, TypeOK, Unit, Row
    <3> QED
      BY <2>2, <3>2
  <2>7. ASSUME ~ (UpsertRestoring(p) \/ Restore(p) \/ MarkInactive(p))
        PROVE  row' = row /\ unit' = unit
    BY <1>3, <2>7
       DEF Apply, UpsertKeeping, WithdrawUpsert, WithdrawSource, Withdraw, DeleteRaw,
           RecordAudit, NothingToStore, tables
  <2> QED
    BY <2>2, <2>4, <2>5, <2>6, <2>7 DEF UnitsMatchRows
<1>4. ASSUME NEW p \in Appliers, Store(p)
      PROVE  RowsStored' /\ UnitsMatchRows'
  <2> DEFINE recs == records[p]
  <2>0. /\ recs \subseteq SourceRecord /\ OneRecordPerRef(recs)
        /\ \A rec \in recs : rec.sid = source[rec.ref] /\ rec.ref \in Refs
        /\ \A r \in RefsOf(recs) : RecordFor(r, recs) \in recs /\ RecordFor(r, recs).ref = r
    BY RecordForRef DEF IdentitiesKept, RecordsOf, SourceRecord, TypeInv, TypeOK
  <2>1. CASE StoreRows(p)
    <3>1. ASSUME NEW rec \in recs
          PROVE  row'[rec.ref] # Nil /\ row'[rec.ref].sum = ChecksumOf(rec)
      <4>1. rec.ref \in RefsOf(recs) /\ RecordFor(rec.ref, recs) = rec
        BY <2>0 DEF RefsOf, OneRecordPerRef
      <4>2. row'[rec.ref] = [sid |-> rec.sid, sum |-> ChecksumOf(rec), life |-> EffectiveLife(rec)]
        BY <2>0, <2>1, <4>1 DEF StoreRows
      <4>3. row'[rec.ref] \in Row
        BY <2>0, <4>2, RecordTypes DEF Row
      <4> QED
        BY <4>2, <4>3, NilAssumption
    <3>2. records' = records
      BY <2>1 DEF StoreRows, locals
    <3>3. RowsStored'
      <4> HIDE DEF recs
      <4>1. \A rec \in records'[p] : row'[rec.ref] # Nil /\ row'[rec.ref].sum = ChecksumOf(rec)
        BY <3>1, <3>2 DEF recs
      <4> QED
        BY <4>1 DEF OneApplier, RowsStored
    <3>4. ASSUME NEW r \in Refs, unit'[r] # Nil, unit'[r].status = "current"
          PROVE  row'[r] # Nil /\ unit'[r].sum = row'[r].sum
      <4> DEFINE gone == ReplacedBy(recs)
      <4> DEFINE changed == {rec.ref : rec \in {x \in recs : RowChanged(x, recs)}} \union gone
      <4>1. unit' = [s \in Refs |-> IF s \in changed /\ unit[s] # Nil
                                    THEN [unit[s] EXCEPT !.status = "stale"] ELSE unit[s]]
        BY <2>1 DEF StoreRows
      <4>2. unit[r] # Nil => [unit[r] EXCEPT !.status = "stale"].status = "stale"
        BY DEF TypeInv, TypeOK, Unit
      <4>3. r \notin changed /\ unit'[r] = unit[r]
        <5> HIDE DEF changed
        <5> QED
          BY <3>4, <4>1, <4>2
      <4>4. row[r] # Nil /\ unit[r].sum = row[r].sum
        BY <3>4, <4>3 DEF UnitsMatchRows
      <4>5. CASE r \in RefsOf(recs)
        <5> DEFINE rec == RecordFor(r, recs)
        <5>1. rec \in recs /\ rec.ref = r
          BY <2>0, <4>5
        <5>2. r \in PreviousRefs(recs)
          <6>1. row[r].sid = source[r] /\ rec.sid = source[r]
            BY <2>0, <4>4, <5>1 DEF IdentitiesKept
          <6> HIDE DEF rec
          <6> QED
            BY <4>4, <5>1, <6>1 DEF PreviousRefs
        <5>3. ~ RowChanged(rec, recs)
          BY <4>3, <5>1
        <5>4. row[r].sum = ChecksumOf(rec)
          BY <5>1, <5>2, <5>3 DEF RowChanged
        <5> QED
          BY <3>1, <4>3, <4>4, <5>1, <5>4
      <4>6. CASE r \notin RefsOf(recs)
        <5>1. row'[r] = row[r]
          BY <2>1, <4>3, <4>6 DEF StoreRows
        <5> QED
          BY <4>3, <4>4, <5>1
      <4> QED
        BY <4>5, <4>6
    <3> QED
      BY <3>3, <3>4 DEF UnitsMatchRows
  <2>2. CASE ReplaceUnits(p)
    <3> DEFINE active == ActiveOf(recs)
    <3>1. pc[p] = "units" /\ pc'[p] = "vectors" /\ row' = row
      BY <2>2 DEF ReplaceUnits, Goto, TypeInv, TypeOK
    <3>2. ASSUME NEW r \in Refs, unit'[r] # Nil, unit'[r].status = "current"
          PROVE  row'[r] # Nil /\ unit'[r].sum = row'[r].sum
      <4>1. CASE r \in RefsOf(active)
        <5>1. RecordFor(r, active) \in recs /\ RecordFor(r, active).ref = r
          BY <4>1, ActiveAreRecords, RecordForRef
        <5>2. unit'[r].sum = ChecksumOf(RecordFor(r, active))
          BY <2>2, <4>1 DEF ReplaceUnits
        <5> QED
          BY <3>1, <5>1, <5>2 DEF RowsStored
      <4>2. CASE r \notin RefsOf(active)
        <5>1. unit'[r] = unit[r]
          BY <2>2, <3>2, <4>2 DEF ReplaceUnits
        <5> QED
          BY <3>1, <3>2, <5>1 DEF UnitsMatchRows
      <4> QED
        BY <4>1, <4>2
    <3>3. RowsStored'
      BY <3>1 DEF OneApplier, RowsStored
    <3> QED
      BY <3>2, <3>3 DEF UnitsMatchRows
  <2>3. CASE StoreObjects(p) \/ StoreLinks(p)
    <3>1. /\ pc[p] \in {"objects", "links", "units"}
          /\ row' = row /\ unit' = unit /\ records' = records
      BY <2>3 DEF StoreObjects, StoreLinks, Goto, locals
    <3> QED
      BY <3>1 DEF OneApplier, RowsStored, UnitsMatchRows, ChecksumOf
  <2>4. ASSUME ~ (StoreRows(p) \/ ReplaceUnits(p) \/ StoreObjects(p) \/ StoreLinks(p))
        PROVE  /\ pc'[p] \notin {"objects", "links", "units"}
               /\ row' = row /\ unit' = unit
    BY <1>4, <2>4
       DEF Store, FindReplaced, ReplaceVectors, DropRaw, ReadHolds, PutRaw, RawStored,
           DeleteEmails, Return, Goto, tables, TypeInv, TypeOK
  <2> QED
    BY <2>1, <2>2, <2>3, <2>4 DEF OneApplier, RowsStored, UnitsMatchRows
<1> QED
  BY <1>1, <1>2, <1>3, <1>4 DEF Next

\* As long as applications do not overlap and each ref is delivered with one
\* source identity, search never serves units prepared from another content
\* than the row's, wherever applications failed.
THEOREM UnitsAlwaysMatchRows ==
    ASSUME NEW source \in [Refs -> Ids], Batches \subseteq Seq(ChangesOf(source)), OneApplier
    PROVE  Spec => []UnitsMatchRows
<1>1. Init => UnitsInv(source)
  BY TypeInit
     DEF UnitsInv, Init, IdentitiesKept, OneRecordPerRef, RowsStored, UnitsMatchRows
<1>2. UnitsInv(source) /\ [Next]_vars => UnitsInv(source)'
  BY TypeStep, IdentitiesStep, UniqueStep, UnitsStep DEF UnitsInv, OneRecordPerRef
<1>3. UnitsInv(source) => UnitsMatchRows
  BY DEF UnitsInv
<1> QED
  BY <1>1, <1>2, <1>3, PTL DEF Spec

-----------------------------------------------------------------------------
(* Overlapping applications *)

OneRecordPerSource(recs) == \A x, y \in recs : x.sid = y.sid => x = y

SourcesInv ==
    /\ TypeInv
    /\ \A p \in Appliers : OneRecordPerSource(records[p])
    /\ OneRowPerSource

\* latest_source_records keeps at most one record of a source identity.
LEMMA LatestIsOnePerSource ==
    ASSUME NEW s \in Seq(SourceRecord), NEW kept \in SUBSET DOMAIN s, IsLatest(s, kept)
    PROVE  OneRecordPerSource({s[i] : i \in kept})
<1> SUFFICES ASSUME NEW i \in kept, NEW j \in kept, s[i].sid = s[j].sid
             PROVE  s[i] = s[j]
  BY DEF OneRecordPerSource
<1>1. i \in Nat /\ j \in Nat /\ i \in DOMAIN s /\ j \in DOMAIN s
  OBVIOUS
<1>2. ~ (j > i) /\ ~ (i > j)
  BY <1>1 DEF IsLatest, SameSource
<1> QED
  BY <1>1, <1>2

\* Rows are deleted, inserted or given another state; only the transaction
\* that stores records gives one a source identity.
LEMMA RowIdentities ==
    ASSUME TypeInv, NEW p \in Appliers, Begin(p) \/ Apply(p) \/ Store(p) \/ Abort(p),
           ~ StoreRows(p), NEW r \in Refs
    PROVE  /\ row'[r] = Nil <=> row[r] = Nil
           /\ row[r] # Nil => row'[r].sid = row[r].sid
<1> USE DEF TypeInv
<1>0. row[r] \in Row \union {Nil}
  BY DEF TypeOK
<1>1. ASSUME NEW s \in Refs, NEW state \in LifeStates,
             row' = [row EXCEPT ![s] = IF @ = Nil THEN Nil ELSE [@ EXCEPT !.life = state]]
      PROVE  /\ row'[r] = Nil <=> row[r] = Nil
             /\ row[r] # Nil => row'[r].sid = row[r].sid
  <2>1. row[r] # Nil => [row[r] EXCEPT !.life = state] \in Row
    BY <1>0, OverwrittenTypes
  <2>2. row[r] # Nil => [row[r] EXCEPT !.life = state].sid = row[r].sid
    BY <1>0 DEF Row
  <2> QED
    BY <1>1, <2>1, <2>2, NilAssumption DEF TypeOK
<1>2. CASE UpsertRestoring(p)
  <2>1. Change(p).rec.ref \in Refs /\ ClearHold(Change(p).rec.ref)
    BY <1>2, HeadIsChange, ChangeFields, RecordTypes DEF UpsertRestoring, Change, TypeOK
  <2> QED
    BY <1>1, <2>1 DEF ClearHold, LifeStates
<1>3. CASE Restore(p)
  <2>1. Change(p).ref \in Refs /\ ClearHold(Change(p).ref)
    BY <1>3, HeadIsChange, ChangeFields DEF Restore, Change, TypeOK
  <2> QED
    BY <1>1, <2>1 DEF ClearHold, LifeStates
<1>4. CASE MarkInactive(p)
  <2>1. WithdrawnRef(p) \in Refs /\ WithdrawnState(p) \in LifeStates
    BY <1>4 DEF MarkInactive, Goto, Withdrawing, InactiveStates
  <2>2. row' = [row EXCEPT ![WithdrawnRef(p)] =
                   IF @ = Nil THEN Nil ELSE [@ EXCEPT !.life = WithdrawnState(p)]]
    BY <1>4 DEF MarkInactive
  <2> QED
    BY <1>1, <2>1, <2>2
<1>5. ASSUME ~ (UpsertRestoring(p) \/ Restore(p) \/ MarkInactive(p))
      PROVE  row' = row
  BY <1>5
     DEF Begin, Abort, Apply, Store, UpsertKeeping, WithdrawUpsert, WithdrawSource, Withdraw,
         DeleteRaw, RecordAudit, NothingToStore, FindReplaced, StoreObjects, StoreLinks,
         ReplaceUnits, ReplaceVectors, DropRaw, ReadHolds, PutRaw, RawStored, DeleteEmails,
         Return, tables
<1> QED
  BY <1>2, <1>3, <1>4, <1>5

\* However many applications overlap, the transaction that stores records
\* deletes every other row of their source identities, so none of them meets
\* the unique constraint of source_records.
THEOREM AlwaysOneRowPerSource == Spec => []OneRowPerSource
<1>1. Init => SourcesInv
  BY TypeInit DEF SourcesInv, Init, OneRecordPerSource, OneRowPerSource
<1>2. SourcesInv /\ [Next]_vars => SourcesInv'
  <2> SUFFICES ASSUME SourcesInv, [Next]_vars
               PROVE  /\ \A q \in Appliers : OneRecordPerSource(records'[q])
                      /\ OneRowPerSource'
    BY TypeStep DEF SourcesInv, OneRecordPerSource
  <2> USE DEF SourcesInv
  <2>1. CASE UNCHANGED vars
    BY <2>1 DEF vars, tables, locals, OneRowPerSource
  <2>2. ASSUME NEW p \in Appliers, Begin(p) \/ Apply(p) \/ Store(p) \/ Abort(p)
        PROVE  \A q \in Appliers : OneRecordPerSource(records'[q])
    <3>1. CASE FindReplaced(p)
      <4>1. PICK kept \in SUBSET DOMAIN pending[p] :
              /\ IsLatest(pending[p], kept)
              /\ records' = [records EXCEPT ![p] = {pending[p][i] : i \in kept}]
        BY <3>1 DEF FindReplaced
      <4>2. OneRecordPerSource({pending[p][i] : i \in kept})
        BY <4>1, LatestIsOnePerSource DEF TypeInv, TypeOK
      <4> QED
        BY <4>1, <4>2 DEF TypeInv, TypeOK
    <3>2. ASSUME ~ FindReplaced(p)
          PROVE  \A q \in Appliers : records'[q] = records[q] \/ records'[q] = {}
      BY <2>2, <3>2
         DEF Begin, Apply, Store, Abort, UpsertRestoring, UpsertKeeping, Restore,
             WithdrawUpsert, WithdrawSource, Withdraw, DeleteRaw, RecordAudit, MarkInactive,
             NothingToStore, StoreRows, StoreObjects, StoreLinks, ReplaceUnits,
             ReplaceVectors, DropRaw, ReadHolds, PutRaw, RawStored, DeleteEmails, Return,
             Forget, NextChange, TypeInv, TypeOK, locals
    <3>3. OneRecordPerSource({})
      BY DEF OneRecordPerSource
    <3> QED
      BY <3>1, <3>2, <3>3
  <2>3. ASSUME NEW p \in Appliers, StoreRows(p)
        PROVE  OneRowPerSource'
    <3> DEFINE recs == records[p]
    <3>1. ASSUME NEW r \in Refs, row'[r] # Nil
          PROVE  \/ r \in RefsOf(recs) /\ row'[r].sid = RecordFor(r, recs).sid
                 \/ /\ r \notin RefsOf(recs) /\ row'[r] = row[r]
                    /\ \A rec \in recs : rec.sid # row[r].sid
      BY <2>3, <3>1 DEF StoreRows, ReplacedBy, PreviousRefs
    <3>2. ASSUME NEW r \in Refs, NEW s \in Refs, row'[r] # Nil, row'[s] # Nil,
                 row'[r].sid = row'[s].sid
          PROVE  r = s
      <4>1. CASE r \in RefsOf(recs) /\ s \in RefsOf(recs)
        BY <3>1, <3>2, <4>1, RecordForRef DEF OneRecordPerSource
      <4>2. CASE r \notin RefsOf(recs) /\ s \notin RefsOf(recs)
        BY <3>1, <3>2, <4>2 DEF OneRowPerSource
      <4>3. CASE r \in RefsOf(recs) /\ s \notin RefsOf(recs)
        BY <3>1, <3>2, <4>3, RecordForRef
      <4>4. CASE r \notin RefsOf(recs) /\ s \in RefsOf(recs)
        BY <3>1, <3>2, <4>4, RecordForRef
      <4> QED
        BY <4>1, <4>2, <4>3, <4>4
    <3> QED
      BY <3>2 DEF OneRowPerSource
  <2>4. ASSUME NEW p \in Appliers, Begin(p) \/ Apply(p) \/ Store(p) \/ Abort(p), ~ StoreRows(p)
        PROVE  OneRowPerSource'
    BY <2>4, RowIdentities DEF OneRowPerSource
  <2> QED
    BY <2>1, <2>2, <2>3, <2>4 DEF Next
<1>3. SourcesInv => OneRowPerSource
  BY DEF SourcesInv
<1> QED
  BY <1>1, <1>2, <1>3, PTL DEF Spec

\* However many applications overlap, a hold is lifted in a transaction that
\* turns the units of its source stale: what was withdrawn is not searchable
\* before its units are prepared again.
THEOREM LiftingPublishesNothing == Spec => LiftedHoldStaysHidden
<1> DEFINE Lifted == \A r \in Refs : hold[r] # Nil /\ hold'[r] = Nil => ~ SearchHit(r)'
<1>1. TypeInv /\ [Next]_vars => Lifted
  <2> SUFFICES ASSUME TypeInv, [Next]_vars, NEW r \in Refs, hold[r] # Nil, hold'[r] = Nil
               PROVE  ~ SearchHit(r)'
    OBVIOUS
  <2> USE DEF TypeInv
  <2>1. ASSUME NEW s \in Refs, ClearHold(s) PROVE ~ SearchHit(r)'
    <3>1. r = s
      BY <2>1 DEF ClearHold, TypeOK
    <3>2. unit[r] # Nil => [unit[r] EXCEPT !.status = "stale"].status = "stale"
      BY DEF TypeOK, Unit
    <3>3. unit'[r] = IF unit[r] = Nil THEN Nil ELSE [unit[r] EXCEPT !.status = "stale"]
      BY <2>1, <3>1 DEF ClearHold, TypeOK
    <3> QED
      BY <3>2, <3>3 DEF SearchHit
  <2>2. ASSUME NEW p \in Appliers, UpsertRestoring(p) PROVE ~ SearchHit(r)'
    <3>1. Change(p).rec.ref \in Refs /\ ClearHold(Change(p).rec.ref)
      BY <2>2, HeadIsChange, ChangeFields, RecordTypes DEF UpsertRestoring, Change, TypeOK
    <3> QED
      BY <2>1, <3>1
  <2>3. ASSUME NEW p \in Appliers, Restore(p) PROVE ~ SearchHit(r)'
    <3>1. Change(p).ref \in Refs /\ ClearHold(Change(p).ref)
      BY <2>3, HeadIsChange, ChangeFields DEF Restore, Change, TypeOK
    <3> QED
      BY <2>1, <3>1
  <2>4. ASSUME NEW p \in Appliers, NEW s, NEW state, NEW reason, Withdraw(p, s, state, reason),
               [state |-> state, reason |-> reason] # Nil
        PROVE  ~ SearchHit(r)'
    BY <2>4 DEF Withdraw, TypeOK
  <2>5. ASSUME NEW p \in Appliers, WithdrawUpsert(p) PROVE ~ SearchHit(r)'
    <3>1. Change(p).rec \in SourceRecord /\ EffectiveLife(Change(p).rec) # "active"
      BY <2>5, HeadIsChange, ChangeFields DEF WithdrawUpsert, Change, TypeOK
    <3>2. [state |-> EffectiveLife(Change(p).rec), reason |-> LifecycleReason(Change(p).rec)] \in Hold
      BY <3>1, RecordTypes DEF Hold, InactiveStates
    <3> QED
      BY <2>4, <2>5, <3>2, NilAssumption DEF WithdrawUpsert
  <2>6. ASSUME NEW p \in Appliers, WithdrawSource(p) PROVE ~ SearchHit(r)'
    <3>1. Change(p) \in SourceChange /\ Change(p).op \in Ops \ {"upsert", "restore"}
      BY <2>6, HeadIsChange, ChangeFields DEF WithdrawSource, Change, TypeOK
    <3>2. [state |-> InactiveStateFor(Change(p).op), reason |-> Change(p).reason] \in Hold
      BY <3>1, ChangeFields, InactiveStateType DEF Hold
    <3> QED
      BY <2>4, <2>6, <3>2, NilAssumption DEF WithdrawSource
  <2>7. CASE UNCHANGED vars
    BY <2>7 DEF vars, tables
  <2>8. ASSUME NEW p \in Appliers, Begin(p) \/ Apply(p) \/ Store(p) \/ Abort(p),
               ~ (UpsertRestoring(p) \/ Restore(p) \/ WithdrawUpsert(p) \/ WithdrawSource(p))
        PROVE  hold' = hold
    BY <2>8
       DEF Begin, Abort, Apply, Store, UpsertKeeping, DeleteRaw, RecordAudit, MarkInactive,
           NothingToStore, FindReplaced, StoreRows, StoreObjects, StoreLinks, ReplaceUnits,
           ReplaceVectors, DropRaw, ReadHolds, PutRaw, RawStored, DeleteEmails, Return, tables
  <2> QED
    BY <2>2, <2>3, <2>5, <2>6, <2>7, <2>8 DEF Next
<1>2. Spec => []TypeInv
  BY TypeInit, TypeStep, PTL DEF Spec
<1>3. TypeInv /\ [Next]_vars => [Lifted]_vars
  BY <1>1
<1> QED
  BY <1>2, <1>3, PTL DEF Spec, LiftedHoldStaysHidden

-----------------------------------------------------------------------------
(* Operators' holds *)

\* What an applier knows of the holds while no other one is under way: every
\* hold it knows is the one stored, but for that of a withdrawal under way.
KnownIsHeld ==
    \A p \in Appliers :
        /\ pc[p] = "changes" => \A r \in Refs : known[p][r] # Nil => hold[r] = known[p][r]
        /\ pc[p] \in {"unraw", "audit", "mark"} =>
              /\ \A r \in Refs : r # WithdrawnRef(p) /\ known[p][r] # Nil =>
                    hold[r] = known[p][r]
              /\ IF Change(p).op = "upsert"
                 THEN known[p][WithdrawnRef(p)] = Nil
                 ELSE hold[WithdrawnRef(p)] =
                        [state |-> WithdrawnState(p), reason |-> Change(p).reason]

\* The applier's map of the holds stays right between its own commits.
LEMMA KnownStep ==
    ASSUME OneApplier, TypeInv, KnownIsHeld, [Next]_vars
    PROVE  KnownIsHeld'
<1> USE DEF TypeInv
<1>1. CASE UNCHANGED vars
  BY <1>1 DEF vars, tables, locals, KnownIsHeld, WithdrawnRef, WithdrawnState, Change
<1>2. ASSUME NEW p \in Appliers, Begin(p) PROVE KnownIsHeld'
  <2>1. pc'[p] = "changes" /\ known'[p] = hold /\ hold' = hold
    BY <1>2 DEF Begin, Goto, tables, TypeOK
  <2> QED
    BY <2>1 DEF OneApplier, KnownIsHeld
<1>3. ASSUME NEW p \in Appliers, pc'[p] \notin {"changes", "unraw", "audit", "mark"}
      PROVE  KnownIsHeld'
  BY <1>3 DEF OneApplier, KnownIsHeld
<1>4. ASSUME NEW p \in Appliers, UpsertRestoring(p) PROVE KnownIsHeld'
  <2>1. Change(p).rec.ref \in Refs
    BY <1>4, HeadIsChange, ChangeFields, RecordTypes DEF UpsertRestoring, Change, TypeOK
  <2>2. /\ pc[p] = "changes" /\ pc'[p] = "changes"
        /\ hold' = [hold EXCEPT ![Change(p).rec.ref] = Nil]
        /\ known' = [known EXCEPT ![p][Change(p).rec.ref] = Nil]
    BY <1>4 DEF UpsertRestoring, ClearHold, Goto, TypeOK
  <2> QED
    BY <2>1, <2>2 DEF OneApplier, KnownIsHeld, TypeOK
<1>5. ASSUME NEW p \in Appliers, Restore(p) PROVE KnownIsHeld'
  <2>1. Change(p).ref \in Refs
    BY <1>5, HeadIsChange, ChangeFields DEF Restore, Change, TypeOK
  <2>2. /\ pc[p] = "changes" /\ pc'[p] = "changes"
        /\ hold' = [hold EXCEPT ![Change(p).ref] = Nil]
        /\ known' = [known EXCEPT ![p][Change(p).ref] = Nil]
    BY <1>5 DEF Restore, ClearHold, Goto, TypeOK
  <2> QED
    BY <2>1, <2>2 DEF OneApplier, KnownIsHeld, TypeOK
<1>6. ASSUME NEW p \in Appliers, UpsertKeeping(p) PROVE KnownIsHeld'
  <2>1. pc[p] = "changes" /\ pc'[p] = "changes" /\ hold' = hold /\ known' = known
    BY <1>6 DEF UpsertKeeping, Goto, tables, TypeOK
  <2> QED
    BY <2>1 DEF OneApplier, KnownIsHeld
<1>7. ASSUME NEW p \in Appliers, WithdrawUpsert(p) PROVE KnownIsHeld'
  <2> DEFINE r == Change(p).rec.ref
  <2>1. /\ pc[p] = "changes" /\ pc'[p] \in {"unraw", "audit"}
        /\ known' = known /\ todo' = todo /\ known[p][r] = Nil /\ Change(p).op = "upsert"
        /\ hold' = [hold EXCEPT ![r] = [state |-> EffectiveLife(Change(p).rec),
                                        reason |-> LifecycleReason(Change(p).rec)]]
    BY <1>7 DEF WithdrawUpsert, Withdraw, Goto, locals, TypeOK
  <2>2. Change(p)' = Change(p) /\ WithdrawnRef(p)' = r
    BY <2>1 DEF Change, WithdrawnRef
  <2>3. pc'[p] # "changes" /\ known'[p][r] = Nil /\ Change(p)'.op = "upsert"
    BY <2>1, <2>2
  <2>4. \A s \in Refs : s # r => hold'[s] = hold[s]
    BY <2>1 DEF TypeOK
  <2>5. \A s \in Refs : s # r /\ known'[p][s] # Nil => hold'[s] = known'[p][s]
    BY <2>1, <2>4 DEF KnownIsHeld
  <2> HIDE DEF r
  <2> QED
    BY <2>2, <2>3, <2>5 DEF OneApplier, KnownIsHeld
<1>8. ASSUME NEW p \in Appliers, WithdrawSource(p) PROVE KnownIsHeld'
  <2> DEFINE r == Change(p).ref
  <2> DEFINE h == [state |-> InactiveStateFor(Change(p).op), reason |-> Change(p).reason]
  <2>1. /\ pc[p] = "changes" /\ pc'[p] \in {"unraw", "audit"}
        /\ known' = known /\ todo' = todo /\ todo[p] # <<>> /\ Change(p).op # "upsert"
        /\ hold' = [hold EXCEPT ![r] = h]
    BY <1>8 DEF WithdrawSource, Withdraw, Goto, locals, TypeOK
  <2>2. /\ Change(p)' = Change(p) /\ WithdrawnRef(p)' = r
        /\ h = [state |-> WithdrawnState(p)', reason |-> Change(p)'.reason]
    BY <2>1 DEF Change, WithdrawnRef, WithdrawnState
  <2>3. r \in Refs
    BY <2>1, HeadIsChange, ChangeFields DEF Change, TypeOK
  <2>4. pc'[p] # "changes" /\ hold'[r] = h /\ \A s \in Refs : s # r => hold'[s] = hold[s]
    BY <2>1, <2>3 DEF TypeOK
  <2>5. ASSUME NEW s \in Refs, s # r, known'[p][s] # Nil PROVE hold'[s] = known'[p][s]
    BY <2>1, <2>4, <2>5 DEF KnownIsHeld
  <2>6. (Change(p).op = "upsert")' = FALSE
    BY <2>1, <2>2
  <2> HIDE DEF r, h
  <2>7. hold'[WithdrawnRef(p)'] = [state |-> WithdrawnState(p)', reason |-> Change(p)'.reason]
    BY <2>2, <2>4
  <2> QED
    BY <2>2, <2>4, <2>5, <2>6, <2>7 DEF OneApplier, KnownIsHeld
<1>9. ASSUME NEW p \in Appliers, DeleteRaw(p) \/ RecordAudit(p) PROVE KnownIsHeld'
  <2>1. /\ pc[p] \in {"unraw", "audit", "mark"} /\ pc'[p] \in {"unraw", "audit", "mark"}
        /\ hold' = hold /\ known' = known /\ todo' = todo
    BY <1>9 DEF DeleteRaw, RecordAudit, Goto, locals, TypeOK
  <2> QED
    BY <2>1 DEF OneApplier, KnownIsHeld, WithdrawnRef, WithdrawnState, Change
<1>10. ASSUME NEW p \in Appliers, MarkInactive(p) PROVE KnownIsHeld'
  <2> DEFINE r == WithdrawnRef(p)
  <2> DEFINE h == [state |-> WithdrawnState(p), reason |-> Change(p).reason]
  <2>1. pc[p] = "mark" /\ pc'[p] = "changes" /\ hold' = hold /\ r \in Refs
    BY <1>10 DEF MarkInactive, Goto, Withdrawing, TypeOK
  <2>2. /\ \A s \in Refs : s # r /\ known[p][s] # Nil => hold[s] = known[p][s]
        /\ Change(p).op = "upsert" => known[p][r] = Nil
        /\ Change(p).op # "upsert" => hold[r] = h
    BY <2>1 DEF KnownIsHeld
  <2>3. /\ Change(p).op = "upsert" => known' = known
        /\ Change(p).op # "upsert" => known' = [known EXCEPT ![p][r] = h]
    BY <1>10 DEF MarkInactive
  <2> HIDE DEF r, h
  <2>4. \A s \in Refs : known'[p][s] # Nil => hold'[s] = known'[p][s]
    <3>1. CASE Change(p).op = "upsert"
      BY <2>1, <2>2, <2>3, <3>1
    <3>2. CASE Change(p).op # "upsert"
      <4>1. /\ known'[p][r] = h
            /\ \A s \in Refs : s # r => known'[p][s] = known[p][s]
        BY <2>1, <2>3, <3>2 DEF TypeOK
      <4> QED
        BY <2>1, <2>2, <3>2, <4>1
    <3> QED
      BY <3>1, <3>2
  <2>5. pc'[p] \notin {"unraw", "audit", "mark"}
    BY <2>1
  <2> QED
    BY <2>4, <2>5 DEF OneApplier, KnownIsHeld
<1>11. ASSUME NEW p \in Appliers, NothingToStore(p) \/ Store(p) \/ Abort(p)
       PROVE  pc'[p] \notin {"changes", "unraw", "audit", "mark"}
  BY <1>11
     DEF NothingToStore, Abort, Store, FindReplaced, StoreRows, StoreObjects, StoreLinks,
         ReplaceUnits, ReplaceVectors, DropRaw, ReadHolds, PutRaw, RawStored, DeleteEmails,
         Return, Goto, TypeOK
<1> QED
  BY <1>1, <1>2, <1>3, <1>4, <1>5, <1>6, <1>7, <1>8, <1>9, <1>10, <1>11 DEF Next, Apply

\* As long as applications do not overlap, an import never lifts a hold that
\* an import did not cause, wherever applications failed.
THEOREM SerialImportsKeepOperatorHolds ==
    ASSUME OneApplier
    PROVE  Spec => ImportsKeepOperatorHolds
<1> DEFINE Kept ==
      \A r \in Refs : hold[r] # Nil /\ hold'[r] = Nil =>
          \/ hold[r].reason \in {"permission_snapshot_missing", "missing_from_latest_snapshot"}
          \/ \E p \in Appliers : /\ todo[p] # todo'[p]
                                 /\ Change(p).op = "restore" /\ Change(p).ref = r
<1>1. TypeInv /\ KnownIsHeld /\ [Next]_vars => Kept
  <2> SUFFICES ASSUME TypeInv, KnownIsHeld, [Next]_vars,
                      NEW r \in Refs, hold[r] # Nil, hold'[r] = Nil
               PROVE  \/ hold[r].reason \in {"permission_snapshot_missing",
                                             "missing_from_latest_snapshot"}
                      \/ \E p \in Appliers : /\ todo[p] # todo'[p]
                                             /\ Change(p).op = "restore" /\ Change(p).ref = r
    OBVIOUS
  <2> USE DEF TypeInv
  <2>1. ASSUME NEW p \in Appliers, UpsertRestoring(p)
        PROVE  hold[r].reason \in {"permission_snapshot_missing", "missing_from_latest_snapshot"}
    <3>1. /\ pc[p] = "changes" /\ ShouldRestore(Change(p).rec, known[p][Change(p).rec.ref])
          /\ hold' = [hold EXCEPT ![Change(p).rec.ref] = Nil]
      BY <2>1 DEF UpsertRestoring, ClearHold, Goto
    <3>2. r = Change(p).rec.ref
      BY <3>1 DEF TypeOK
    <3> QED
      BY <3>1, <3>2 DEF KnownIsHeld, ShouldRestore
  <2>2. ASSUME NEW p \in Appliers, Restore(p)
        PROVE  todo[p] # todo'[p] /\ Change(p).op = "restore" /\ Change(p).ref = r
    <3>1. /\ todo[p] # <<>> /\ Change(p).op = "restore"
          /\ todo' = [todo EXCEPT ![p] = Tail(@)]
          /\ hold' = [hold EXCEPT ![Change(p).ref] = Nil]
      BY <2>2 DEF Restore, ClearHold, NextChange
    <3>2. \A s \in Seq(SourceChange) : s # <<>> => Len(Tail(s)) # Len(s)
      OBVIOUS
    <3> QED
      BY <3>1, <3>2 DEF TypeOK
  <2>3. ASSUME NEW p \in Appliers, Begin(p) \/ Apply(p) \/ Store(p) \/ Abort(p),
               ~ (UpsertRestoring(p) \/ Restore(p))
        PROVE  FALSE
    <3>1. CASE WithdrawUpsert(p)
      <4>1. Change(p).rec \in SourceRecord /\ EffectiveLife(Change(p).rec) # "active"
        BY <3>1, HeadIsChange, ChangeFields DEF WithdrawUpsert, Change, TypeOK
      <4>2. [state |-> EffectiveLife(Change(p).rec), reason |-> LifecycleReason(Change(p).rec)] \in Hold
        BY <4>1, RecordTypes DEF Hold, InactiveStates
      <4> QED
        BY <3>1, <4>2, NilAssumption DEF WithdrawUpsert, Withdraw, TypeOK
    <3>2. CASE WithdrawSource(p)
      <4>1. Change(p) \in SourceChange /\ Change(p).op \in Ops \ {"upsert", "restore"}
        BY <3>2, HeadIsChange, ChangeFields DEF WithdrawSource, Change, TypeOK
      <4>2. [state |-> InactiveStateFor(Change(p).op), reason |-> Change(p).reason] \in Hold
        BY <4>1, ChangeFields, InactiveStateType DEF Hold
      <4> QED
        BY <3>2, <4>2, NilAssumption DEF WithdrawSource, Withdraw, TypeOK
    <3>3. CASE ~ (WithdrawUpsert(p) \/ WithdrawSource(p))
      <4>1. hold' = hold
        BY <2>3, <3>3
           DEF Begin, Abort, Apply, Store, UpsertKeeping, DeleteRaw, RecordAudit,
               MarkInactive, NothingToStore, FindReplaced, StoreRows, StoreObjects,
               StoreLinks, ReplaceUnits, ReplaceVectors, DropRaw, ReadHolds, PutRaw,
               RawStored, DeleteEmails, Return, tables
      <4> QED
        BY <4>1
    <3> QED
      BY <3>1, <3>2, <3>3
  <2>4. CASE UNCHANGED vars
    BY <2>4 DEF vars, tables
  <2> QED
    BY <2>1, <2>2, <2>3, <2>4 DEF Next
<1>2. Init => KnownIsHeld
  BY DEF Init, KnownIsHeld
<1>3. Spec => [](TypeInv /\ KnownIsHeld)
  <2>1. TypeInv /\ KnownIsHeld /\ [Next]_vars => (TypeInv /\ KnownIsHeld)'
    BY TypeStep, KnownStep
  <2> QED
    BY <1>2, <2>1, TypeInit, PTL DEF Spec
<1>4. TypeInv /\ KnownIsHeld /\ [Next]_vars => [Kept]_vars
  BY <1>1
<1> QED
  BY <1>3, <1>4, PTL DEF Spec, ImportsKeepOperatorHolds

-----------------------------------------------------------------------------
(* Links *)

\* The records whose links are about to be stored have their objects stored.
ObjectsFirst ==
    \A p \in Appliers : pc[p] = "links" => \A r \in RefsOf(records[p]) : object[r] # Nil

LinksInv == TypeInv /\ ObjectsFirst /\ LinksJoinObjects

\* A stored canonical object is never deleted: its state is only overwritten.
LEMMA ObjectsStay ==
    ASSUME TypeInv, [Next]_vars, NEW r \in Refs, object[r] # Nil
    PROVE  object'[r] # Nil
<1>1. TypeOK'
  BY TypeStep DEF TypeInv
<1>2. CASE UNCHANGED vars
  BY <1>2 DEF vars, tables
<1>3. ASSUME NEW p \in Appliers, NEW s, ClearHold(s)
      PROVE  object'[r] # Nil
  BY <1>3, NilAssumption DEF ClearHold, TypeInv, TypeOK, LifeStates
<1>4. ASSUME NEW p \in Appliers, MarkInactive(p)
      PROVE  object'[r] # Nil
  <2>1. WithdrawnState(p) \in InactiveStates
    BY <1>4 DEF MarkInactive, Goto, TypeInv, Withdrawing
  <2> QED
    BY <1>4, <2>1, NilAssumption DEF MarkInactive, TypeInv, TypeOK, InactiveStates
<1>5. ASSUME NEW p \in Appliers, StoreObjects(p)
      PROVE  object'[r] # Nil
  <2>1. CASE r \in RefsOf(records[p])
    <3>1. RecordFor(r, records[p]) \in SourceRecord
      BY <2>1, RecordForRef DEF TypeInv, TypeOK
    <3>2. object'[r] = EffectiveLife(RecordFor(r, records[p]))
      BY <1>5, <2>1 DEF StoreObjects
    <3> QED
      BY <3>1, <3>2, RecordTypes, NilAssumption
  <2> QED
    BY <1>5, <2>1 DEF StoreObjects
<1>6. ASSUME NEW p \in Appliers, Begin(p) \/ Apply(p) \/ Store(p) \/ Abort(p)
      PROVE  object'[r] # Nil
  <2>1. CASE UpsertRestoring(p)
    BY <1>3, <2>1 DEF UpsertRestoring
  <2>2. CASE Restore(p)
    BY <1>3, <2>2 DEF Restore
  <2>3. ASSUME ~ UpsertRestoring(p), ~ Restore(p), ~ MarkInactive(p), ~ StoreObjects(p)
        PROVE  object' = object
    BY <1>6, <2>3
       DEF Begin, Abort, Apply, Store, UpsertKeeping, WithdrawUpsert, WithdrawSource, Withdraw,
           DeleteRaw, RecordAudit, NothingToStore, FindReplaced, StoreRows, StoreLinks,
           ReplaceUnits, ReplaceVectors, DropRaw, ReadHolds, PutRaw, RawStored, DeleteEmails,
           Return, tables
  <2> QED
    BY <1>4, <1>5, <2>1, <2>2, <2>3
<1> QED
  BY <1>2, <1>6 DEF Next

\* However many applications overlap or fail, an entity link joins stored
\* objects.
THEOREM LinksAlwaysJoinObjects == Spec => []LinksJoinObjects
<1>1. Init => LinksInv
  BY TypeInit DEF LinksInv, Init, ObjectsFirst, LinksJoinObjects
<1>2. LinksInv /\ [Next]_vars => LinksInv'
  <2> SUFFICES ASSUME LinksInv, [Next]_vars
               PROVE  ObjectsFirst' /\ LinksJoinObjects'
    BY TypeStep DEF LinksInv
  <2> USE DEF LinksInv
  <2>1. ObjectsFirst'
    <3> SUFFICES ASSUME NEW p \in Appliers, pc'[p] = "links", NEW r \in RefsOf(records'[p])
                 PROVE  object'[r] # Nil
      BY DEF ObjectsFirst
    <3>1. CASE StoreObjects(p)
      <4>1. records'[p] = records[p]
        BY <3>1 DEF StoreObjects, locals
      <4>2. r \in RefsOf(records[p])
        BY <4>1
      <4>3. RecordFor(r, records[p]) \in SourceRecord /\ RecordFor(r, records[p]).ref = r
        BY <4>2, RecordForRef DEF TypeInv, TypeOK
      <4>4. r \in Refs
        BY <4>3, RecordTypes
      <4>5. object'[r] = EffectiveLife(RecordFor(r, records[p]))
        BY <3>1, <4>2, <4>4 DEF StoreObjects
      <4> QED
        BY <4>3, <4>5, RecordTypes, NilAssumption
    <3>2. ASSUME ~ StoreObjects(p)
          PROVE  pc[p] = "links" /\ records'[p] = records[p]
      <4>1. CASE UNCHANGED vars
        BY <4>1 DEF vars, locals
      <4>2. ASSUME NEW q \in Appliers, Begin(q) \/ Apply(q) \/ Store(q) \/ Abort(q), q # p
            PROVE  pc'[p] = pc[p] /\ records'[p] = records[p]
        BY <4>2, OthersWait DEF TypeInv
      <4>3. ASSUME Begin(p) \/ Apply(p) \/ Store(p) \/ Abort(p)
            PROVE  pc'[p] # "links"
        BY <3>2, <4>3, LinksAfterObjects DEF TypeInv
      <4> QED
        BY <4>1, <4>2, <4>3 DEF Next
    <3>3. r \in Refs
      <4>1. TypeOK'
        BY TypeStep DEF TypeInv
      <4>2. records'[p] \subseteq SourceRecord
        BY <4>1 DEF TypeOK
      <4> QED
        BY <4>2, RefsOfRecords
    <3> QED
      BY <3>1, <3>2, <3>3, ObjectsStay DEF ObjectsFirst
  <2>2. LinksJoinObjects'
    <3> SUFFICES ASSUME NEW l \in links'
                 PROVE  object'[l[1]] # Nil /\ object'[l[2]] # Nil
      BY DEF LinksJoinObjects
    <3>1. l[1] \in Refs /\ l[2] \in Refs
      BY TypeStep DEF TypeInv, TypeOK
    <3>2. CASE l \in links
      BY <3>1, <3>2, ObjectsStay DEF LinksJoinObjects
    <3>3. ASSUME l \notin links
          PROVE  \E p \in Appliers : pc[p] = "links" /\ l \in LinksOf(records[p])
      <4>1. PICK p \in Appliers : Begin(p) \/ Apply(p) \/ Store(p) \/ Abort(p)
        BY <3>3 DEF Next, vars, tables
      <4>2. StoreLinks(p)
        BY <3>3, <4>1, LinksOnlyStored
      <4> QED
        BY <3>3, <4>2 DEF StoreLinks, Goto
    <3>4. ASSUME NEW p \in Appliers, pc[p] = "links", l \in LinksOf(records[p])
          PROVE  object[l[1]] # Nil /\ object[l[2]] # Nil
      BY <3>4 DEF LinksOf, RefsOf, ObjectsFirst
    <3> QED
      BY <3>1, <3>2, <3>3, <3>4, ObjectsStay
  <2> QED
    BY <2>1, <2>2
<1>3. LinksInv => LinksJoinObjects
  BY DEF LinksInv
<1> QED
  BY <1>1, <1>2, <1>3, PTL DEF Spec

-----------------------------------------------------------------------------
(* What an application that runs to its end leaves *)

\* The source a change is about.
Concerns(change, r) ==
    IF change.op = "upsert" THEN change.rec # Nil /\ change.rec.ref = r ELSE change.ref = r

\* Every caller sends the records of a snapshot followed by the deletes of other
\* sources, or one change.  A restore carries the record of its source, and a
\* source of which a list has several records is in the same state in them all.
Agreeing(changes) ==
    /\ \A i \in DOMAIN changes :
          changes[i].op = "restore" /\ changes[i].rec # Nil => changes[i].rec.ref = changes[i].ref
    /\ \A i, j \in DOMAIN changes, r \in Refs :
          i < j /\ Concerns(changes[i], r) /\ Concerns(changes[j], r) =>
              /\ changes[i].op = "upsert" /\ changes[j].op = "upsert"
              /\ EffectiveLife(changes[i].rec) = EffectiveLife(changes[j].rec)

Withdrawals == {"unraw", "audit", "mark"}
Loop == {"changes"} \union Withdrawals

\* The records collected so far, the changes not applied yet, and those of
\* them that follow the one at the head.
Collected(p) == {pending[p][i] : i \in DOMAIN pending[p]}
ToCome(p) == {todo[p][j] : j \in DOMAIN todo[p]}
Later(p) == {todo[p][j] : j \in DOMAIN todo[p] \ {1}}

\* A record says of its source what the lifecycle table says of it, and the
\* transaction that lifted a hold for it took the source's units.
Fits(rec) ==
    /\ hold[rec.ref] # Nil => EffectiveLife(rec) = hold[rec.ref].state
    /\ hold[rec.ref] = Nil /\ EffectiveLife(rec) # "active" /\ unit[rec.ref] # Nil =>
          unit[rec.ref].status # "current"

\* A change to come meets the hold that the applier knows of, or will put the
\* one there is.
Foreseen(p, change) ==
    \A r \in Refs : Concerns(change, r) =>
        \/ known[p][r] = hold[r]
        \/ known[p][r] = Nil /\ change.op = "upsert" /\ EffectiveLife(change.rec) # "active"

\* What it does to a source of which there is a record leaves the source in the
\* state of that record.
SameOutcome(p, change, rec) ==
    Concerns(change, rec.ref) =>
        /\ change.op = "upsert"
        /\ IF known[p][rec.ref] = Nil
           THEN EffectiveLife(change.rec) = EffectiveLife(rec)
           ELSE ~ ShouldRestore(change.rec, known[p][rec.ref])

Applying(p) ==
    /\ pc[p] = "idle" => pending[p] = <<>>
    /\ pc[p] \in Loop =>
          /\ Agreeing(todo[p])
          /\ \A rec \in Collected(p) : Fits(rec)
          /\ \A rec \in Collected(p), change \in ToCome(p) : SameOutcome(p, change, rec)
    /\ pc[p] = "changes" => \A change \in ToCome(p) : Foreseen(p, change)
    /\ pc[p] \in Withdrawals =>
          /\ \A change \in Later(p) : Foreseen(p, change)
          /\ Concerns(Change(p), WithdrawnRef(p))
          /\ hold[WithdrawnRef(p)] # Nil
          /\ hold[WithdrawnRef(p)].state = WithdrawnState(p)

\* The commits that are behind an applier at a step of _store_active_records.
EmailsDone == {"done"}
VectorsDone == {"dropraw", "putraw", "emails"} \union EmailsDone
UnitsDone == {"vectors"} \union VectorsDone
ObjectsDone == {"links", "units"} \union UnitsDone
RowsDone == {"objects"} \union ObjectsDone
Storing == {"rows"} \union RowsDone

RowOf(rec) == [sid |-> rec.sid, sum |-> ChecksumOf(rec), life |-> EffectiveLife(rec)]

\* Every commit leaves its table as the records say.
Stored(p) ==
    /\ pc[p] \in Storing =>
          /\ OneRecordPerRef(records[p]) /\ replaced[p] \intersect RefsOf(records[p]) = {}
          /\ \A rec \in records[p] : Fits(rec)
    /\ pc[p] = "rows" => replaced[p] = ReplacedBy(records[p])
    /\ pc[p] \in RowsDone => /\ \A rec \in records[p] : row[rec.ref] = RowOf(rec)
                             /\ \A r \in replaced[p] : row[r] = Nil
    /\ pc[p] \in ObjectsDone => \A rec \in records[p] : object[rec.ref] = EffectiveLife(rec)
    /\ pc[p] \in UnitsDone => \A r \in Touched(p) :
          unit[r] = IF r \in RefsOf(ActiveOf(records[p]))
                    THEN [status |-> "current",
                          sum |-> ChecksumOf(RecordFor(r, ActiveOf(records[p])))]
                    ELSE Nil
    /\ pc[p] \in VectorsDone => \A r \in Touched(p) :
          vector[r] = IF r \in RefsOf(ActiveOf(records[p]))
                      THEN RecordFor(r, ActiveOf(records[p])).ver ELSE Nil
    /\ pc[p] \in EmailsDone => emails \intersect Touched(p) = {}

RepairInv == TypeInv /\ KnownIsHeld /\ \A p \in Appliers : Applying(p) /\ Stored(p)

\* The lists an applier works on, as sets.
LEMMA ListsAsSets ==
    ASSUME TypeOK, NEW p \in Appliers
    PROVE  /\ Collected(p) \subseteq SourceRecord /\ ToCome(p) \subseteq SourceChange
           /\ Later(p) \subseteq ToCome(p)
           /\ todo[p] # <<>> => Change(p) \in ToCome(p) /\ ToCome(p) = Later(p) \union {Change(p)}
<1>1. todo[p] \in Seq(SourceChange) /\ pending[p] \in Seq(SourceRecord)
  BY DEF TypeOK
<1>2. \A s \in Seq(SourceChange) : s # <<>> => Head(s) = s[1] /\ 1 \in DOMAIN s
  OBVIOUS
<1> QED
  BY <1>1, <1>2 DEF Collected, ToCome, Later, Change

\* Taking a change off the list leaves those after it, in agreement.
LEMMA ChangeTaken ==
    ASSUME TypeOK, NEW p \in Appliers, todo[p] # <<>>, Agreeing(todo[p]),
           todo'[p] = Tail(todo[p])
    PROVE  ToCome(p)' \subseteq Later(p) /\ Agreeing(todo'[p])
<1> DEFINE s == todo[p]
<1>1. s \in Seq(SourceChange) /\ s # <<>>
  BY DEF TypeOK
<1> HIDE DEF s
<1>2. \A j \in DOMAIN Tail(s) : j + 1 \in DOMAIN s \ {1} /\ Tail(s)[j] = s[j + 1] /\ j \in Nat
  BY <1>1
<1>3. Agreeing(s) => Agreeing(Tail(s))
  <2> SUFFICES ASSUME Agreeing(s) PROVE Agreeing(Tail(s))
    OBVIOUS
  <2>1. ASSUME NEW i \in DOMAIN Tail(s), Tail(s)[i].op = "restore", Tail(s)[i].rec # Nil
        PROVE  Tail(s)[i].rec.ref = Tail(s)[i].ref
    BY <1>2, <2>1 DEF Agreeing
  <2>2. ASSUME NEW i \in DOMAIN Tail(s), NEW j \in DOMAIN Tail(s), NEW r \in Refs, i < j,
               Concerns(Tail(s)[i], r), Concerns(Tail(s)[j], r)
        PROVE  /\ Tail(s)[i].op = "upsert" /\ Tail(s)[j].op = "upsert"
               /\ EffectiveLife(Tail(s)[i].rec) = EffectiveLife(Tail(s)[j].rec)
    <3>1. i + 1 < j + 1 /\ i + 1 \in DOMAIN s /\ j + 1 \in DOMAIN s
      BY <1>2, <2>2
    <3>2. Tail(s)[i] = s[i + 1] /\ Tail(s)[j] = s[j + 1]
      BY <1>2
    <3> QED
      BY <2>2, <3>1, <3>2 DEF Agreeing
  <2> QED
    BY <2>1, <2>2 DEF Agreeing
<1>4. {Tail(s)[j] : j \in DOMAIN Tail(s)} \subseteq {s[j] : j \in DOMAIN s \ {1}}
  BY <1>2
<1> QED
  BY <1>3, <1>4 DEF s, ToCome, Later

\* The change at the head agrees with the ones that follow it.
LEMMA HeadAgrees ==
    ASSUME TypeOK, NEW p \in Appliers, todo[p] # <<>>, Agreeing(todo[p])
    PROVE  /\ Change(p).op = "restore" /\ Change(p).rec # Nil => Change(p).rec.ref = Change(p).ref
           /\ \A change \in Later(p), r \in Refs :
                 Concerns(Change(p), r) /\ Concerns(change, r) =>
                     /\ Change(p).op = "upsert" /\ change.op = "upsert"
                     /\ EffectiveLife(Change(p).rec) = EffectiveLife(change.rec)
<1> DEFINE s == todo[p]
<1>1. s \in Seq(SourceChange) /\ s # <<>>
  BY DEF TypeOK
<1>2. Head(s) = s[1] /\ 1 \in DOMAIN s /\ \A j \in DOMAIN s \ {1} : 1 < j
  BY <1>1
<1>3. Change(p) = s[1]
  BY <1>2 DEF Change
<1> HIDE DEF s
<1>4. Agreeing(s)
  BY DEF s
<1>5. Later(p) = {s[j] : j \in DOMAIN s \ {1}}
  BY DEF Later, s
<1>6. Change(p).op = "restore" /\ Change(p).rec # Nil => Change(p).rec.ref = Change(p).ref
  BY <1>2, <1>3, <1>4 DEF Agreeing
<1>7. ASSUME NEW j \in DOMAIN s \ {1}, NEW r \in Refs, Concerns(Change(p), r), Concerns(s[j], r)
      PROVE  /\ Change(p).op = "upsert" /\ s[j].op = "upsert"
             /\ EffectiveLife(Change(p).rec) = EffectiveLife(s[j].rec)
  BY <1>2, <1>3, <1>4, <1>7 DEF Agreeing
<1> QED
  BY <1>5, <1>6, <1>7

\* Whatever the record, it says nothing of a source but its own, so that a
\* commit about one source leaves the other records as right as they were.
LEMMA FitsElsewhere ==
    ASSUME NEW rec, Fits(rec), hold'[rec.ref] = hold[rec.ref], unit'[rec.ref] = unit[rec.ref]
    PROVE  Fits(rec)'
BY DEF Fits

\* The call starts from the holds as they are.
LEMMA ApplyingBegin ==
    ASSUME TypeInv, \A b \in Batches : Agreeing(b), NEW p \in Appliers, Applying(p), Begin(p)
    PROVE  Applying(p)'
<1> USE DEF TypeInv
<1>1. /\ pc'[p] = "changes" /\ pending'[p] = <<>> /\ known'[p] = hold /\ hold' = hold
      /\ todo'[p] \in Batches
  BY DEF Begin, Goto, tables, Applying, TypeOK
<1>2. Agreeing(todo'[p])
  BY <1>1
<1>3. Collected(p)' = {}
  BY <1>1 DEF Collected
<1>4. \A change \in ToCome(p)' : Foreseen(p, change)'
  BY <1>1 DEF Foreseen
<1> QED
  BY <1>1, <1>2, <1>3, <1>4 DEF Applying, Loop, Withdrawals

\* An upsert that lifts a hold collects the first record of its source.
LEMMA ApplyingUpsertRestoring ==
    ASSUME TypeInv, KnownIsHeld, NEW p \in Appliers, Applying(p), UpsertRestoring(p)
    PROVE  Applying(p)'
<1> USE DEF TypeInv
<1> DEFINE rec == Change(p).rec
<1> DEFINE r == Change(p).rec.ref
<1>1. /\ pc[p] = "changes" /\ pc'[p] = "changes" /\ todo[p] # <<>>
      /\ Change(p).op = "upsert" /\ rec # Nil
      /\ ShouldRestore(rec, known[p][r]) /\ ClearHold(r)
      /\ known' = [known EXCEPT ![p][r] = Nil]
      /\ pending'[p] = Append(pending[p], rec)
      /\ todo'[p] = Tail(todo[p])
  BY DEF UpsertRestoring, Goto, NextChange, TypeOK
<1>2. Change(p) \in SourceChange /\ rec \in SourceRecord /\ r \in Refs
  BY <1>1, HeadIsChange, ChangeFields, RecordTypes DEF Change, TypeOK
<1>3. /\ hold'[r] = Nil /\ known'[p][r] = Nil
      /\ \A s \in Refs : s # r => /\ hold'[s] = hold[s] /\ unit'[s] = unit[s]
                                  /\ known'[p][s] = known[p][s]
  BY <1>1, <1>2 DEF ClearHold, TypeOK
<1>4. Concerns(Change(p), r)
  BY <1>1 DEF Concerns
<1>5. Collected(p)' \subseteq Collected(p) \union {rec}
  BY <1>1, <1>2 DEF Collected, TypeOK
<1>6. ToCome(p)' \subseteq Later(p) /\ Agreeing(todo'[p])
  BY <1>1, ChangeTaken DEF Applying, Loop
<1>7. ToCome(p) = Later(p) \union {Change(p)} /\ Later(p) \subseteq SourceChange
      /\ Collected(p) \subseteq SourceRecord
  BY <1>1, ListsAsSets
<1>8. \A x \in Collected(p) : x.ref \in Refs /\ x.ref # r
  <2> SUFFICES ASSUME NEW x \in Collected(p), x.ref = r PROVE FALSE
    BY <1>7, RecordTypes
  <2>1. SameOutcome(p, Change(p), x)
    BY <1>1, <1>7 DEF Applying, Loop
  <2> QED
    BY <1>1, <1>4, <2>1 DEF SameOutcome, ShouldRestore
<1>9. \A change \in Later(p) : Concerns(change, r) =>
          change.op = "upsert" /\ EffectiveLife(change.rec) = EffectiveLife(rec)
  BY <1>1, <1>2, <1>4, HeadAgrees DEF Applying, Loop
<1>10. EffectiveLife(rec) = "active"
  BY <1>1 DEF ShouldRestore
<1> HIDE DEF rec, r
<1>11. rec.ref = r
  BY DEF rec, r
<1>12. ASSUME NEW x \in Collected(p)' PROVE Fits(x)'
  <2>1. CASE x = rec
    BY <1>3, <1>10, <1>11, <2>1 DEF Fits
  <2>2. CASE x \in Collected(p)
    <3>1. Fits(x)
      BY <1>1, <2>2 DEF Applying, Loop
    <3> QED
      BY <1>3, <1>8, <2>2, <3>1, FitsElsewhere
  <2> QED
    BY <1>5, <2>1, <2>2
<1>13. ASSUME NEW x \in Collected(p)', NEW change \in ToCome(p)'
       PROVE  SameOutcome(p, change, x)'
  <2>1. change \in Later(p)
    BY <1>6
  <2>2. CASE x = rec
    BY <1>3, <1>9, <1>11, <2>1, <2>2 DEF SameOutcome
  <2>3. CASE x \in Collected(p)
    <3>1. SameOutcome(p, change, x)
      BY <1>1, <1>7, <2>1, <2>3 DEF Applying, Loop
    <3>2. known'[p][x.ref] = known[p][x.ref]
      BY <1>3, <1>8, <2>3
    <3> QED
      BY <3>1, <3>2 DEF SameOutcome
  <2> QED
    BY <1>5, <2>2, <2>3
<1>14. ASSUME NEW change \in ToCome(p)' PROVE Foreseen(p, change)'
  <2>1. Foreseen(p, change)
    BY <1>1, <1>6, <1>7 DEF Applying
  <2> QED
    BY <1>3, <2>1 DEF Foreseen
<1> QED
  BY <1>1, <1>6, <1>12, <1>13, <1>14 DEF Applying, Withdrawals

\* Any other upsert of an active record, or of one whose hold is known,
\* collects a record in the state of the hold.
LEMMA ApplyingUpsertKeeping ==
    ASSUME TypeInv, KnownIsHeld, NEW p \in Appliers, Applying(p), UpsertKeeping(p)
    PROVE  Applying(p)'
<1> USE DEF TypeInv
<1> DEFINE rec == Change(p).rec
<1> DEFINE r == Change(p).rec.ref
<1> DEFINE h == known[p][r]
<1> DEFINE new == WithExistingLifecycle(rec, h)
<1>1. /\ pc[p] = "changes" /\ pc'[p] = "changes" /\ todo[p] # <<>>
      /\ Change(p).op = "upsert" /\ rec # Nil
      /\ ~ ShouldRestore(rec, h) /\ (h # Nil \/ EffectiveLife(rec) = "active")
      /\ known' = known /\ hold' = hold /\ unit' = unit
      /\ pending'[p] = Append(pending[p], new)
      /\ todo'[p] = Tail(todo[p])
  BY DEF UpsertKeeping, Goto, NextChange, TypeOK, tables
<1>2. Change(p) \in SourceChange /\ rec \in SourceRecord /\ r \in Refs
  BY <1>1, HeadIsChange, ChangeFields, RecordTypes DEF Change, TypeOK
<1>3. h \in Hold \union {Nil}
  BY <1>2 DEF TypeOK
<1>4. Concerns(Change(p), r)
  BY <1>1 DEF Concerns
<1>5. /\ new \in SourceRecord /\ new.ref = r
      /\ h # Nil => EffectiveLife(new) = h.state
      /\ h = Nil => new = rec
  BY <1>2, <1>3 DEF WithExistingLifecycle, SourceRecord, EffectiveLife, Hold, InactiveStates, LifeStates
<1>6. Collected(p)' \subseteq Collected(p) \union {new}
  <2> HIDE DEF new
  <2> QED
    BY <1>1, <1>5 DEF Collected, TypeOK
<1>7. ToCome(p)' \subseteq Later(p) /\ Agreeing(todo'[p])
  BY <1>1, ChangeTaken DEF Applying, Loop
<1>8. ToCome(p) = Later(p) \union {Change(p)}
  BY <1>1, ListsAsSets
<1>9. \A change \in Later(p) : Concerns(change, r) =>
          change.op = "upsert" /\ EffectiveLife(change.rec) = EffectiveLife(rec)
  BY <1>1, <1>2, <1>4, HeadAgrees DEF Applying, Loop
<1>10. hold[r] = h
  <2>1. Foreseen(p, Change(p))
    BY <1>1, <1>8 DEF Applying
  <2>2. h # Nil => hold[r] = h
    BY <1>1, <1>2 DEF KnownIsHeld
  <2> QED
    BY <1>1, <1>2, <1>4, <2>1, <2>2 DEF Foreseen
<1>11. \A change : EffectiveLife(change.rec) = EffectiveLife(rec) => ~ ShouldRestore(change.rec, h)
  BY <1>1 DEF ShouldRestore
<1>12. Fits(new)
  <2>1. h # Nil => EffectiveLife(new) = h.state
    BY <1>5
  <2>2. h = Nil => EffectiveLife(new) = "active"
    BY <1>1, <1>5
  <2> HIDE DEF new, h
  <2> QED
    BY <1>5, <1>10, <2>1, <2>2 DEF Fits
<1> HIDE DEF rec, r, h, new
<1>13. ASSUME NEW x \in Collected(p)' PROVE Fits(x)'
  <2>1. Fits(x)
    BY <1>1, <1>6, <1>12 DEF Applying, Loop
  <2> QED
    BY <1>1, <2>1, FitsElsewhere
<1>14. ASSUME NEW x \in Collected(p)', NEW change \in ToCome(p)'
       PROVE  SameOutcome(p, change, x)'
  <2>1. change \in Later(p)
    BY <1>7
  <2>2. CASE x = new
    <3>1. known'[p][r] = h
      BY <1>1 DEF h, r
    <3>2. CASE Concerns(change, r)
      <4>1. change.op = "upsert" /\ EffectiveLife(change.rec) = EffectiveLife(rec)
        BY <1>9, <2>1, <3>2
      <4>2. h = Nil => EffectiveLife(change.rec) = EffectiveLife(new)
        BY <1>5, <4>1
      <4> QED
        BY <1>5, <1>11, <2>2, <3>1, <4>1, <4>2 DEF SameOutcome
    <3>3. CASE ~ Concerns(change, r)
      BY <1>5, <2>2, <3>3 DEF SameOutcome
    <3> QED
      BY <3>2, <3>3
  <2>3. CASE x \in Collected(p)
    <3>1. SameOutcome(p, change, x)
      BY <1>1, <1>8, <2>1, <2>3 DEF Applying, Loop
    <3> QED
      BY <1>1, <3>1 DEF SameOutcome
  <2> QED
    BY <1>6, <2>2, <2>3
<1>15. ASSUME NEW change \in ToCome(p)' PROVE Foreseen(p, change)'
  <2>1. Foreseen(p, change)
    BY <1>1, <1>7, <1>8 DEF Applying
  <2> QED
    BY <1>1, <2>1 DEF Foreseen
<1> QED
  BY <1>1, <1>7, <1>13, <1>14, <1>15 DEF Applying, Withdrawals

\* A restore is the only change of its list about its source.
LEMMA ApplyingRestore ==
    ASSUME TypeInv, NEW p \in Appliers, Applying(p), Restore(p)
    PROVE  Applying(p)'
<1> USE DEF TypeInv
<1> DEFINE r == Change(p).ref
<1> DEFINE new == [Change(p).rec EXCEPT !.life = "active"]
<1>1. /\ pc[p] = "changes" /\ pc'[p] = "changes" /\ todo[p] # <<>>
      /\ Change(p).op = "restore" /\ Change(p).rec # Nil /\ ClearHold(r)
      /\ known' = [known EXCEPT ![p][r] = Nil]
      /\ pending'[p] = Append(pending[p], new)
      /\ todo'[p] = Tail(todo[p])
  BY DEF Restore, Goto, NextChange, TypeOK
<1>2. Change(p) \in SourceChange /\ Change(p).rec \in SourceRecord /\ r \in Refs
  BY <1>1, HeadIsChange, ChangeFields DEF Change, TypeOK
<1>3. /\ hold'[r] = Nil /\ known'[p][r] = Nil
      /\ unit'[r] # Nil => unit'[r].status = "stale"
      /\ \A s \in Refs : s # r => /\ hold'[s] = hold[s] /\ unit'[s] = unit[s]
                                  /\ known'[p][s] = known[p][s]
  BY <1>1, <1>2 DEF ClearHold, TypeOK, Unit
<1>4. Concerns(Change(p), r)
  BY <1>1 DEF Concerns
<1>5. Change(p).rec.ref = r
  BY <1>1, HeadAgrees DEF Applying, Loop
<1>6. new \in SourceRecord /\ new.ref = r
  BY <1>2, <1>5 DEF SourceRecord, LifeStates
<1>7. Collected(p)' \subseteq Collected(p) \union {new}
  <2> HIDE DEF new
  <2> QED
    BY <1>1, <1>6 DEF Collected, TypeOK
<1>8. ToCome(p)' \subseteq Later(p) /\ Agreeing(todo'[p])
  BY <1>1, ChangeTaken DEF Applying, Loop
<1>9. ToCome(p) = Later(p) \union {Change(p)} /\ Collected(p) \subseteq SourceRecord
  BY <1>1, ListsAsSets
<1>10. \A x \in Collected(p) : x.ref \in Refs /\ x.ref # r
  <2> SUFFICES ASSUME NEW x \in Collected(p), x.ref = r PROVE FALSE
    BY <1>9, RecordTypes
  <2>1. SameOutcome(p, Change(p), x)
    BY <1>1, <1>9 DEF Applying, Loop
  <2> QED
    BY <1>1, <1>4, <2>1 DEF SameOutcome
<1>11. \A change \in Later(p) : ~ Concerns(change, r)
  BY <1>1, <1>2, <1>4, HeadAgrees DEF Applying, Loop
<1> HIDE DEF r, new
<1>12. ASSUME NEW x \in Collected(p)' PROVE Fits(x)'
  <2>1. CASE x = new
    BY <1>3, <1>6, <2>1 DEF Fits
  <2>2. CASE x \in Collected(p)
    <3>1. Fits(x)
      BY <1>1, <2>2 DEF Applying, Loop
    <3> QED
      BY <1>3, <1>10, <2>2, <3>1, FitsElsewhere
  <2> QED
    BY <1>7, <2>1, <2>2
<1>13. ASSUME NEW x \in Collected(p)', NEW change \in ToCome(p)'
       PROVE  SameOutcome(p, change, x)'
  <2>1. change \in Later(p)
    BY <1>8
  <2>2. CASE x = new
    BY <1>6, <1>11, <2>1, <2>2 DEF SameOutcome
  <2>3. CASE x \in Collected(p)
    <3>1. SameOutcome(p, change, x)
      BY <1>1, <1>9, <2>1, <2>3 DEF Applying, Loop
    <3>2. known'[p][x.ref] = known[p][x.ref]
      BY <1>3, <1>10, <2>3
    <3> QED
      BY <3>1, <3>2 DEF SameOutcome
  <2> QED
    BY <1>7, <2>2, <2>3
<1>14. ASSUME NEW change \in ToCome(p)' PROVE Foreseen(p, change)'
  <2>1. Foreseen(p, change)
    BY <1>1, <1>8, <1>9 DEF Applying
  <2> QED
    BY <1>3, <2>1 DEF Foreseen
<1> QED
  BY <1>1, <1>8, <1>12, <1>13, <1>14 DEF Applying, Withdrawals

\* The first transaction of a withdrawal puts the hold that the records
\* collected before and the changes to come are in agreement with.
LEMMA ApplyingWithdraw ==
    ASSUME TypeInv, NEW p \in Appliers, Applying(p), WithdrawUpsert(p) \/ WithdrawSource(p)
    PROVE  Applying(p)'
<1> USE DEF TypeInv
<1> DEFINE r == WithdrawnRef(p)
<1> DEFINE state == WithdrawnState(p)
<1>1. /\ pc[p] = "changes" /\ pc'[p] \in Withdrawals \ {"mark"} /\ todo[p] # <<>>
      /\ Change(p).op = "upsert" => /\ Change(p).rec # Nil /\ known[p][r] = Nil
                                    /\ EffectiveLife(Change(p).rec) # "active"
      /\ Change(p).op # "restore"
      /\ known' = known /\ todo' = todo /\ pending' = pending /\ unit' = unit
  BY DEF WithdrawUpsert, WithdrawSource, Withdraw, WithdrawnRef, WithdrawnState, Goto, TypeOK,
         locals, Withdrawals
<1>2. PICK reason \in Reasons : hold' = [hold EXCEPT ![r] = [state |-> state, reason |-> reason]]
  <2>1. /\ Change(p).reason \in Reasons
        /\ Change(p).op = "upsert" => LifecycleReason(Change(p).rec) \in Reasons
    BY <1>1, HeadIsChange, ChangeFields, RecordTypes DEF Change, TypeOK
  <2> QED
    BY <2>1 DEF WithdrawUpsert, WithdrawSource, Withdraw, WithdrawnRef, WithdrawnState
<1>3. r \in Refs /\ state \in InactiveStates
  <2>1. /\ Change(p) \in SourceChange
        /\ Change(p).op = "upsert" => /\ Change(p).rec \in SourceRecord
                                      /\ Change(p).rec.ref \in Refs
                                      /\ EffectiveLife(Change(p).rec) \in LifeStates
    BY <1>1, HeadIsChange, ChangeFields, RecordTypes DEF Change, TypeOK
  <2> QED
    BY <1>1, <2>1, ChangeFields, InactiveStateType DEF WithdrawnRef, WithdrawnState, InactiveStates
<1>4. Concerns(Change(p), r)
  BY <1>1 DEF Concerns, WithdrawnRef
<1>5. Change(p)' = Change(p) /\ WithdrawnRef(p)' = r /\ WithdrawnState(p)' = state
  BY <1>1 DEF Change, WithdrawnRef, WithdrawnState
<1>6. /\ Collected(p)' = Collected(p) /\ ToCome(p)' = ToCome(p) /\ Later(p)' = Later(p)
  BY <1>1 DEF Collected, ToCome, Later
<1>7. ToCome(p) = Later(p) \union {Change(p)} /\ Collected(p) \subseteq SourceRecord
  BY <1>1, ListsAsSets
<1>8. \A change \in Later(p) : Concerns(change, r) =>
          /\ Change(p).op = "upsert" /\ change.op = "upsert"
          /\ EffectiveLife(change.rec) = EffectiveLife(Change(p).rec)
  BY <1>1, <1>3, <1>4, HeadAgrees DEF Applying, Loop
<1>9. ASSUME NEW x \in Collected(p), x.ref = r PROVE EffectiveLife(x) = state
  <2>1. SameOutcome(p, Change(p), x)
    BY <1>1, <1>7 DEF Applying, Loop
  <2>2. Change(p).op = "upsert" /\ EffectiveLife(Change(p).rec) = EffectiveLife(x)
    BY <1>1, <1>4, <1>9, <2>1 DEF SameOutcome
  <2> QED
    BY <2>2 DEF WithdrawnState
<1> HIDE DEF r, state
<1>10. /\ hold'[r] # Nil /\ hold'[r].state = state
       /\ \A s \in Refs : s # r => hold'[s] = hold[s]
  <2>1. [state |-> state, reason |-> reason] \in Hold
    BY <1>3 DEF Hold
  <2> QED
    BY <1>2, <1>3, <2>1, NilAssumption DEF TypeOK
<1>11. ASSUME NEW x \in Collected(p) PROVE Fits(x)'
  <2>1. CASE x.ref = r
    BY <1>9, <1>10, <2>1 DEF Fits
  <2>2. CASE x.ref # r
    <3>1. Fits(x) /\ x.ref \in Refs
      BY <1>1, <1>7, RecordTypes DEF Applying, Loop
    <3> QED
      BY <1>1, <1>10, <2>2, <3>1, FitsElsewhere
  <2> QED
    BY <2>1, <2>2
<1>12. ASSUME NEW x \in Collected(p), NEW change \in ToCome(p) PROVE SameOutcome(p, change, x)'
  <2>1. SameOutcome(p, change, x)
    BY <1>1 DEF Applying, Loop
  <2> QED
    BY <1>1, <2>1 DEF SameOutcome
<1>13. ASSUME NEW change \in Later(p) PROVE Foreseen(p, change)'
  <2>1. Foreseen(p, change)
    BY <1>1, <1>7 DEF Applying
  <2>2. Concerns(change, r) =>
          known'[p][r] = Nil /\ change.op = "upsert" /\ EffectiveLife(change.rec) # "active"
    <3>1. Change(p).op = "upsert" => known'[p][r] = Nil
      BY <1>1 DEF r
    <3> QED
      BY <1>1, <1>8, <3>1
  <2>3. \A s \in Refs : known'[p][s] = known[p][s]
    BY <1>1
  <2> QED
    BY <1>10, <2>1, <2>2, <2>3 DEF Foreseen
<1>14. Agreeing(todo'[p])
  BY <1>1 DEF Applying, Loop
<1>15. Concerns(Change(p), WithdrawnRef(p))'
  BY <1>4, <1>5 DEF Concerns
<1> QED
  BY <1>1, <1>5, <1>6, <1>10, <1>11, <1>12, <1>13, <1>14, <1>15 DEF Applying, Loop, Withdrawals

\* The steps between the two transactions of a withdrawal change no hold.
LEMMA ApplyingBetween ==
    ASSUME TypeInv, NEW p \in Appliers, Applying(p), DeleteRaw(p) \/ RecordAudit(p)
    PROVE  Applying(p)'
<1>1. /\ pc[p] \in Withdrawals /\ pc'[p] \in Withdrawals
      /\ UNCHANGED <<hold, unit, known, todo, pending>>
  BY DEF DeleteRaw, RecordAudit, Goto, locals, TypeInv, TypeOK, Withdrawals
<1>2. /\ Change(p)' = Change(p) /\ WithdrawnRef(p)' = WithdrawnRef(p)
      /\ WithdrawnState(p)' = WithdrawnState(p)
      /\ Collected(p)' = Collected(p) /\ ToCome(p)' = ToCome(p) /\ Later(p)' = Later(p)
  BY <1>1 DEF Change, WithdrawnRef, WithdrawnState, Collected, ToCome, Later
<1>3. /\ \A x \in Collected(p) : Fits(x)'
      /\ \A x \in Collected(p), change \in ToCome(p) : SameOutcome(p, change, x)'
      /\ \A change \in Later(p) : Foreseen(p, change)'
  BY <1>1 DEF Applying, Loop, Fits, SameOutcome, Foreseen
<1> QED
  BY <1>1, <1>2, <1>3 DEF Applying, Loop, Withdrawals

\* The second transaction of a withdrawal collects an upserted record in the
\* state it was withdrawn to, and remembers the hold of any other change.
LEMMA ApplyingMarkInactive ==
    ASSUME TypeInv, KnownIsHeld, NEW p \in Appliers, Applying(p), MarkInactive(p)
    PROVE  Applying(p)'
<1> USE DEF TypeInv
<1> DEFINE r == WithdrawnRef(p)
<1> DEFINE state == WithdrawnState(p)
<1> DEFINE h == [state |-> state, reason |-> Change(p).reason]
<1>1. /\ pc[p] = "mark" /\ pc'[p] = "changes" /\ todo[p] # <<>>
      /\ hold' = hold /\ todo'[p] = Tail(todo[p])
      /\ r \in Refs
  BY DEF MarkInactive, Goto, NextChange, TypeOK, Withdrawing
<1>2. /\ Change(p).op = "upsert" => /\ Change(p).rec # Nil
                                    /\ pending'[p] = Append(pending[p], Change(p).rec)
                                    /\ known' = known
      /\ Change(p).op # "upsert" => /\ pending' = pending
                                    /\ known' = [known EXCEPT ![p][r] = h]
  BY <1>1 DEF MarkInactive, Withdrawing, TypeOK
<1>3. /\ Change(p) \in SourceChange
      /\ Change(p).op = "upsert" => /\ Change(p).rec \in SourceRecord
                                    /\ Change(p).rec.ref = r
                                    /\ EffectiveLife(Change(p).rec) = state
  BY <1>1, <1>2, HeadIsChange, ChangeFields DEF Change, TypeOK, WithdrawnRef, WithdrawnState
<1>4. /\ Concerns(Change(p), r) /\ hold[r] # Nil /\ hold[r].state = state
      /\ Change(p).op = "upsert" => known[p][r] = Nil
      /\ Change(p).op # "upsert" => hold[r] = h
  BY <1>1 DEF Applying, Withdrawals, KnownIsHeld
<1>5. /\ unit'[r] # Nil => unit'[r].status = "inactive"
      /\ \A s \in Refs : s # r => unit'[s] = unit[s]
  BY <1>1 DEF MarkInactive, TypeOK, Unit
<1>6. \A s \in Refs : known'[p][s] = known[p][s] \/ (s = r /\ known'[p][s] = h)
  <2> HIDE DEF r, h
  <2>1. CASE Change(p).op = "upsert"
    BY <1>2, <2>1
  <2>2. CASE Change(p).op # "upsert"
    BY <1>1, <1>2, <2>2 DEF TypeOK
  <2> QED
    BY <2>1, <2>2
<1>7. /\ Change(p).op = "upsert" => Collected(p)' \subseteq Collected(p) \union {Change(p).rec}
      /\ Change(p).op # "upsert" => Collected(p)' = Collected(p)
  <2>1. CASE Change(p).op = "upsert"
    <3> DEFINE new == Change(p).rec
    <3>1. pending'[p] = Append(pending[p], new) /\ new \in SourceRecord
      BY <1>2, <1>3, <2>1
    <3> HIDE DEF new
    <3>2. Collected(p)' \subseteq Collected(p) \union {new}
      BY <3>1 DEF Collected, TypeOK
    <3> QED
      BY <2>1, <3>2 DEF new
  <2>2. CASE Change(p).op # "upsert"
    BY <1>2, <2>2 DEF Collected
  <2> QED
    BY <2>1, <2>2
<1>8. ToCome(p)' \subseteq Later(p) /\ Agreeing(todo'[p])
  BY <1>1, ChangeTaken DEF Applying, Loop, Withdrawals
<1>9. ToCome(p) = Later(p) \union {Change(p)} /\ Collected(p) \subseteq SourceRecord
  BY <1>1, ListsAsSets
<1>10. \A change \in Later(p) : Concerns(change, r) =>
          /\ Change(p).op = "upsert" /\ change.op = "upsert"
          /\ EffectiveLife(change.rec) = EffectiveLife(Change(p).rec)
  BY <1>1, <1>4, HeadAgrees DEF Applying, Loop, Withdrawals
<1>11. ASSUME Change(p).op # "upsert" PROVE \A x \in Collected(p) : x.ref # r
  <2> SUFFICES ASSUME NEW x \in Collected(p), x.ref = r PROVE FALSE
    OBVIOUS
  <2>1. SameOutcome(p, Change(p), x)
    BY <1>1, <1>9 DEF Applying, Loop, Withdrawals
  <2> QED
    BY <1>4, <1>11, <2>1 DEF SameOutcome
<1> HIDE DEF r, state, h
<1>12. \A x \in Collected(p) : Fits(x) /\ x.ref \in Refs
  BY <1>1, <1>9, RecordTypes DEF Applying, Loop, Withdrawals
<1>13. ASSUME NEW x \in Collected(p)' PROVE Fits(x)'
  <2>1. CASE x.ref = r
    <3>1. hold[x.ref] # Nil => EffectiveLife(x) = hold[x.ref].state
      BY <1>3, <1>4, <1>7, <1>12 DEF Fits
    <3> QED
      BY <1>1, <1>5, <2>1, <3>1 DEF Fits
  <2>2. CASE x.ref # r
    <3>1. Fits(x) /\ x.ref \in Refs
      BY <1>3, <1>7, <1>12, <2>2
    <3> QED
      BY <1>1, <1>5, <2>2, <3>1, FitsElsewhere
  <2> QED
    BY <2>1, <2>2
<1>14. ASSUME NEW x \in Collected(p)', NEW change \in ToCome(p)'
       PROVE  SameOutcome(p, change, x)'
  <2>1. change \in Later(p)
    BY <1>8
  <2>2. CASE x \in Collected(p)
    <3>1. SameOutcome(p, change, x)
      BY <1>1, <1>9, <2>1, <2>2 DEF Applying, Loop, Withdrawals
    <3>2. known'[p][x.ref] = known[p][x.ref]
      BY <1>2, <1>6, <1>11, <1>12, <2>2
    <3> QED
      BY <3>1, <3>2 DEF SameOutcome
  <2>3. CASE Change(p).op = "upsert" /\ x = Change(p).rec
    <3>1. x.ref = r /\ known'[p][r] = Nil
      BY <1>2, <1>3, <1>4, <2>3
    <3> QED
      BY <1>10, <2>1, <2>3, <3>1 DEF SameOutcome
  <2> QED
    BY <1>7, <2>2, <2>3
<1>15. ASSUME NEW change \in ToCome(p)' PROVE Foreseen(p, change)'
  <2>1. Foreseen(p, change)
    BY <1>1, <1>8 DEF Applying, Withdrawals
  <2>2. \A s \in Refs : known'[p][s] = known[p][s] \/ known'[p][s] = hold[s]
    <3>1. Change(p).op = "upsert" => known' = known
      BY <1>2
    <3> QED
      BY <1>4, <1>6, <3>1
  <2> QED
    BY <1>1, <2>1, <2>2 DEF Foreseen
<1> QED
  BY <1>1, <1>8, <1>13, <1>14, <1>15 DEF Applying, Withdrawals

\* Every step keeps Applying: what follows the loop works on nothing of it.
LEMMA ApplyingStep ==
    ASSUME OneApplier, \A b \in Batches : Agreeing(b), RepairInv, [Next]_vars
    PROVE  \A p \in Appliers : Applying(p)'
<1> USE DEF RepairInv
<1>1. ASSUME NEW p \in Appliers, UNCHANGED vars PROVE Applying(p)'
  <2>1. UNCHANGED <<hold, unit, known, todo, pending, pc>> /\ Applying(p)
    BY <1>1 DEF vars, tables, locals
  <2>2. /\ Change(p)' = Change(p) /\ WithdrawnRef(p)' = WithdrawnRef(p)
        /\ WithdrawnState(p)' = WithdrawnState(p)
        /\ Collected(p)' = Collected(p) /\ ToCome(p)' = ToCome(p) /\ Later(p)' = Later(p)
    BY <2>1 DEF Change, WithdrawnRef, WithdrawnState, Collected, ToCome, Later
  <2>3. /\ \A x : Fits(x) = Fits(x)'
        /\ \A change : Foreseen(p, change) = Foreseen(p, change)'
        /\ \A x, change : SameOutcome(p, change, x) = SameOutcome(p, change, x)'
    BY <2>1 DEF Fits, SameOutcome, Foreseen
  <2> QED
    BY <2>1, <2>2, <2>3 DEF Applying
<1>2. ASSUME NEW p \in Appliers, Begin(p) \/ Apply(p) \/ Store(p) \/ Abort(p) PROVE Applying(p)'
  <2>1. CASE Begin(p) \/ UpsertRestoring(p) \/ UpsertKeeping(p) \/ Restore(p)
    BY <2>1, ApplyingBegin, ApplyingUpsertRestoring, ApplyingUpsertKeeping, ApplyingRestore
  <2>2. CASE WithdrawUpsert(p) \/ WithdrawSource(p) \/ DeleteRaw(p) \/ RecordAudit(p)
             \/ MarkInactive(p)
    BY <2>2, ApplyingWithdraw, ApplyingBetween, ApplyingMarkInactive
  <2>3. CASE NothingToStore(p) \/ Store(p) \/ Abort(p)
    <3>1. pc'[p] \notin Loop /\ (pc'[p] = "idle" => pending'[p] = <<>>)
      BY <2>3
         DEF NothingToStore, Abort, Store, FindReplaced, StoreRows, StoreObjects, StoreLinks,
             ReplaceUnits, ReplaceVectors, DropRaw, ReadHolds, PutRaw, RawStored, DeleteEmails,
             Return, Goto, Forget, TypeInv, TypeOK, Loop, Withdrawals
    <3> QED
      BY <3>1 DEF Applying, Loop
  <2> QED
    BY <1>2, <2>1, <2>2, <2>3 DEF Apply
<1> QED
  BY <1>1, <1>2 DEF OneApplier, Next

\* Nothing is stored while the changes are applied, or when no call is made.
LEMMA StoredOutside ==
    ASSUME NEW p \in Appliers, pc'[p] \notin Storing
    PROVE  Stored(p)'
BY DEF Stored, Storing, RowsDone, ObjectsDone, UnitsDone, VectorsDone, EmailsDone

\* One record is kept of each source, and every row that has the identity of
\* one of them under another ref is to be replaced.
LEMMA StoredFindReplaced ==
    ASSUME TypeInv, NEW p \in Appliers, Applying(p), FindReplaced(p)
    PROVE  Stored(p)'
<1> USE DEF TypeInv
<1>1. PICK kept \in SUBSET DOMAIN pending[p] :
        /\ IsLatest(pending[p], kept)
        /\ records' = [records EXCEPT ![p] = {pending[p][i] : i \in kept}]
        /\ replaced' = [replaced EXCEPT ![p] = ReplacedBy({pending[p][i] : i \in kept})]
  BY DEF FindReplaced
<1> DEFINE latest == {pending[p][i] : i \in kept}
<1>2. /\ pc[p] = "changes" /\ pc'[p] = "rows" /\ UNCHANGED <<hold, row, unit>>
      /\ records'[p] = latest /\ replaced'[p] = ReplacedBy(latest)
  BY <1>1 DEF FindReplaced, Goto, tables, TypeOK
<1>3. OneRecordPerRef(latest)
  BY <1>1, LatestIsUnique DEF TypeOK
<1>4. \A rec \in latest : Fits(rec)
  BY <1>2 DEF Applying, Loop, Collected
<1> HIDE DEF latest
<1>5. \A rec \in records'[p] : Fits(rec)'
  BY <1>2, <1>4 DEF Fits
<1>7. replaced'[p] \intersect RefsOf(records'[p]) = {}
  BY <1>2 DEF ReplacedBy
<1>6. ReplacedBy(records[p])' = ReplacedBy(latest)
  BY <1>2 DEF ReplacedBy, PreviousRefs
<1> QED
  BY <1>2, <1>3, <1>5, <1>6, <1>7
     DEF Stored, Storing, RowsDone, ObjectsDone, UnitsDone, VectorsDone, EmailsDone, OneRecordPerRef

\* What does not change in the transactions that follow.
LEMMA StoringFrame ==
    ASSUME TypeInv, NEW p \in Appliers, Store(p), ~ FindReplaced(p), ~ Return(p)
    PROVE  /\ pc[p] \in Storing /\ pc'[p] \in Storing
           /\ hold' = hold /\ records' = records /\ replaced' = replaced
           /\ Touched(p)' = Touched(p)
  BY DEF Store, StoreRows, StoreObjects, StoreLinks, ReplaceUnits, ReplaceVectors, DropRaw,
         ReadHolds, PutRaw, RawStored, DeleteEmails, Goto, tables, locals, Touched,
         Storing, RowsDone, ObjectsDone, UnitsDone, VectorsDone, EmailsDone, TypeInv, TypeOK

\* One transaction gives every stored source the row of its record, deletes
\* the rows that are replaced and publishes no units.
LEMMA StoredRows ==
    ASSUME TypeInv, NEW p \in Appliers, Stored(p), StoreRows(p)
    PROVE  Stored(p)'
<1> USE DEF TypeInv
<1> DEFINE recs == records[p]
<1>1. /\ pc[p] = "rows" /\ pc'[p] = "objects" /\ UNCHANGED <<hold, records, replaced>>
  BY DEF StoreRows, Goto, locals, TypeOK
<1>2. /\ OneRecordPerRef(recs) /\ replaced[p] \intersect RefsOf(recs) = {}
      /\ replaced[p] = ReplacedBy(recs) /\ \A rec \in recs : Fits(rec)
  BY <1>1 DEF Stored, Storing
<1>3. recs \subseteq SourceRecord /\ replaced[p] \subseteq Refs /\ \A rec \in recs : rec.ref \in Refs
  BY RecordTypes DEF TypeOK
<1>4. ASSUME NEW rec \in recs PROVE row'[rec.ref] = RowOf(rec)
  <2>1. rec.ref \in RefsOf(recs) /\ RecordFor(rec.ref, recs) = rec
    BY <1>2, RecordForRef DEF RefsOf, OneRecordPerRef
  <2> QED
    BY <1>3, <2>1 DEF StoreRows, RowOf
<1>5. ASSUME NEW r \in replaced[p] PROVE row'[r] = Nil
  BY <1>2, <1>3, <1>5 DEF StoreRows
<1>6. \A r \in Refs : unit'[r] = unit[r] \/ (unit'[r] # Nil /\ unit[r] # Nil /\ unit'[r].status = "stale")
  <2> SUFFICES ASSUME NEW r \in Refs
               PROVE  \/ unit'[r] = unit[r]
                      \/ unit'[r] # Nil /\ unit[r] # Nil /\ unit'[r].status = "stale"
    OBVIOUS
  <2>1. unit[r] # Nil => /\ [unit[r] EXCEPT !.status = "stale"].status = "stale"
                         /\ [unit[r] EXCEPT !.status = "stale"] # Nil
    <3>1. unit[r] # Nil => unit[r] \in Unit
      BY DEF TypeOK
    <3> QED
      BY <3>1, OverwrittenTypes, NilAssumption DEF Unit
  <2>2. \/ unit'[r] = unit[r]
        \/ unit[r] # Nil /\ unit'[r] = [unit[r] EXCEPT !.status = "stale"]
    BY DEF StoreRows
  <2> QED
    BY <2>1, <2>2
<1>7. ASSUME NEW rec \in recs PROVE Fits(rec)'
  BY <1>1, <1>2, <1>3, <1>6, <1>7 DEF Fits
<1> HIDE DEF recs
<1>8. records'[p] = recs /\ replaced'[p] = replaced[p]
  BY <1>1 DEF recs
<1>9. OneRecordPerRef(records[p])' /\ replaced'[p] \intersect RefsOf(records'[p]) = {}
  BY <1>2, <1>8 DEF OneRecordPerRef
<1> QED
  BY <1>1, <1>4, <1>5, <1>7, <1>8, <1>9
     DEF Stored, Storing, RowsDone, ObjectsDone, UnitsDone, VectorsDone, EmailsDone

\* One transaction gives every stored source the object of its record.
LEMMA StoredObjects ==
    ASSUME TypeInv, NEW p \in Appliers, Stored(p), StoreObjects(p)
    PROVE  Stored(p)'
<1> USE DEF TypeInv
<1>1. /\ pc[p] = "objects" /\ pc'[p] = "links" /\ UNCHANGED <<hold, row, unit, records, replaced>>
  BY DEF StoreObjects, Goto, locals, TypeOK
<1>2. /\ OneRecordPerRef(records[p]) /\ replaced[p] \intersect RefsOf(records[p]) = {}
      /\ \A rec \in records[p] : Fits(rec) /\ row[rec.ref] = RowOf(rec)
      /\ \A r \in replaced[p] : row[r] = Nil
  BY <1>1 DEF Stored, Storing, RowsDone
<1>3. ASSUME NEW rec \in records[p] PROVE object'[rec.ref] = EffectiveLife(rec)
  <2>1. rec.ref \in RefsOf(records[p]) /\ RecordFor(rec.ref, records[p]) = rec
    BY <1>2, RecordForRef DEF RefsOf, OneRecordPerRef
  <2>2. rec.ref \in Refs
    BY RecordTypes DEF TypeOK
  <2> QED
    BY <2>1, <2>2 DEF StoreObjects
<1>4. \A rec \in records[p] : Fits(rec)' /\ row'[rec.ref] = RowOf(rec)
  BY <1>1, <1>2 DEF Fits
<1>5. OneRecordPerRef(records[p])'
  BY <1>1, <1>2 DEF OneRecordPerRef
<1> QED
  BY <1>1, <1>2, <1>3, <1>4, <1>5
     DEF Stored, Storing, RowsDone, ObjectsDone, UnitsDone, VectorsDone, EmailsDone

\* One transaction gives the active sources the units of their records and
\* takes those of every other source that is touched.
LEMMA StoredUnits ==
    ASSUME TypeInv, NEW p \in Appliers, Stored(p), ReplaceUnits(p)
    PROVE  Stored(p)'
<1> USE DEF TypeInv
<1> DEFINE active == ActiveOf(records[p])
<1>1. /\ pc[p] = "units" /\ pc'[p] = "vectors"
      /\ UNCHANGED <<hold, row, object, records, replaced>>
  BY DEF ReplaceUnits, Goto, locals, TypeOK
<1>2. /\ OneRecordPerRef(records[p]) /\ replaced[p] \intersect RefsOf(records[p]) = {}
      /\ \A rec \in records[p] : /\ Fits(rec) /\ row[rec.ref] = RowOf(rec)
                                 /\ object[rec.ref] = EffectiveLife(rec)
      /\ \A r \in replaced[p] : row[r] = Nil
  BY <1>1 DEF Stored, Storing, RowsDone, ObjectsDone
<1>3. Touched(p)' = Touched(p) /\ Touched(p) \subseteq Refs /\ RefsOf(records[p]) \subseteq Touched(p)
  BY <1>1, RefsOfRecords DEF Touched, TypeOK
<1>4. unit' = [r \in Refs |->
                 IF r \in RefsOf(active)
                 THEN [status |-> "current", sum |-> ChecksumOf(RecordFor(r, active))]
                 ELSE IF r \in Touched(p) THEN Nil ELSE unit[r]]
  BY DEF ReplaceUnits
<1>5. ASSUME NEW rec \in records[p], EffectiveLife(rec) # "active" PROVE unit'[rec.ref] = Nil
  <2>1. rec.ref \notin RefsOf(active)
    BY <1>2, <1>5 DEF RefsOf, ActiveOf, OneRecordPerRef
  <2>2. rec.ref \in Touched(p)
    BY <1>3 DEF RefsOf
  <2> HIDE DEF active
  <2> QED
    BY <1>3, <1>4, <2>1, <2>2
<1>6. ActiveOf(records[p])' = active
  BY <1>1 DEF ActiveOf
<1> HIDE DEF active
<1>7. \A r \in Touched(p) :
        unit'[r] = IF r \in RefsOf(active)
                   THEN [status |-> "current", sum |-> ChecksumOf(RecordFor(r, active))] ELSE Nil
  BY <1>3, <1>4
<1>8. \A rec \in records[p] : /\ Fits(rec)' /\ row'[rec.ref] = RowOf(rec)
                              /\ object'[rec.ref] = EffectiveLife(rec)
  BY <1>1, <1>2, <1>5 DEF Fits
<1>9. OneRecordPerRef(records[p])'
  BY <1>1, <1>2 DEF OneRecordPerRef
<1> QED
  BY <1>1, <1>2, <1>3, <1>6, <1>7, <1>8, <1>9
     DEF Stored, Storing, RowsDone, ObjectsDone, UnitsDone, VectorsDone, EmailsDone

\* So it is with the vectors.
LEMMA StoredVectors ==
    ASSUME TypeInv, NEW p \in Appliers, Stored(p), ReplaceVectors(p)
    PROVE  Stored(p)'
<1> USE DEF TypeInv
<1> DEFINE active == ActiveOf(records[p])
<1>1. /\ pc[p] = "vectors" /\ pc'[p] \in {"dropraw", "emails"}
      /\ UNCHANGED <<hold, row, object, unit, records, replaced>>
  BY DEF ReplaceVectors, Goto, TypeOK
<1>2. /\ OneRecordPerRef(records[p]) /\ replaced[p] \intersect RefsOf(records[p]) = {}
      /\ \A rec \in records[p] : /\ Fits(rec) /\ row[rec.ref] = RowOf(rec)
                                 /\ object[rec.ref] = EffectiveLife(rec)
      /\ \A r \in replaced[p] : row[r] = Nil
      /\ \A r \in Touched(p) :
            unit[r] = IF r \in RefsOf(active)
                      THEN [status |-> "current", sum |-> ChecksumOf(RecordFor(r, active))] ELSE Nil
  BY <1>1 DEF Stored, Storing, RowsDone, ObjectsDone, UnitsDone
<1>3. Touched(p)' = Touched(p) /\ Touched(p) \subseteq Refs
  BY <1>1, RefsOfRecords DEF Touched, TypeOK
<1>4. \A r \in Touched(p) :
        vector'[r] = IF r \in RefsOf(active) THEN RecordFor(r, active).ver ELSE Nil
  BY <1>3 DEF ReplaceVectors
<1>5. ActiveOf(records[p])' = active
  BY <1>1 DEF ActiveOf
<1> HIDE DEF active
<1>6. \A rec \in records[p] : Fits(rec)'
  BY <1>1, <1>2 DEF Fits
<1>7. OneRecordPerRef(records[p])'
  BY <1>1, <1>2 DEF OneRecordPerRef
<1> QED
  BY <1>1, <1>2, <1>3, <1>4, <1>5, <1>6, <1>7
     DEF Stored, Storing, RowsDone, ObjectsDone, UnitsDone, VectorsDone, EmailsDone

\* The raw files and the links are in no table that the others are compared
\* with, and the legacy rows go last.
LEMMA StoredRest ==
    ASSUME TypeInv, NEW p \in Appliers, Stored(p),
           \/ StoreLinks(p) \/ DropRaw(p) \/ ReadHolds(p) \/ PutRaw(p) \/ RawStored(p)
           \/ DeleteEmails(p)
    PROVE  Stored(p)'
<1>1. /\ UNCHANGED <<hold, row, object, unit, vector, records, replaced>>
      /\ <<pc[p], pc'[p]>> \in {<<"links", "units">>, <<"dropraw", "dropraw">>,
                                <<"dropraw", "putraw">>, <<"putraw", "putraw">>,
                                <<"putraw", "emails">>, <<"emails", "done">>}
      /\ pc'[p] = "done" => emails' = emails \ Touched(p)
  BY DEF StoreLinks, DropRaw, ReadHolds, PutRaw, RawStored, DeleteEmails, Goto, tables, locals,
         TypeInv, TypeOK
<1>2. /\ Touched(p)' = Touched(p) /\ ActiveOf(records[p])' = ActiveOf(records[p])
      /\ OneRecordPerRef(records[p])' = OneRecordPerRef(records[p])
      /\ \A rec : Fits(rec)' = Fits(rec)
  BY <1>1 DEF Touched, ActiveOf, OneRecordPerRef, Fits
<1>3. /\ pc[p] \in Storing /\ pc'[p] # "rows"
      /\ pc[p] \in RowsDone /\ pc[p] \in ObjectsDone
      /\ pc'[p] \in UnitsDone => pc[p] \in UnitsDone
      /\ pc'[p] \in VectorsDone => pc[p] \in VectorsDone
  BY <1>1 DEF Storing, RowsDone, ObjectsDone, UnitsDone, VectorsDone, EmailsDone
<1>4. pc'[p] \in EmailsDone => (emails \intersect Touched(p))' = {}
  BY <1>1, <1>2 DEF EmailsDone
<1> QED
  BY <1>1, <1>2, <1>3, <1>4 DEF Stored

\* Every step keeps Stored.
LEMMA StoredStep ==
    ASSUME OneApplier, RepairInv, [Next]_vars
    PROVE  \A p \in Appliers : Stored(p)'
<1> USE DEF RepairInv
<1>1. ASSUME NEW p \in Appliers, UNCHANGED vars PROVE Stored(p)'
  <2>1. UNCHANGED <<hold, row, object, unit, vector, emails, records, replaced, pc>> /\ Stored(p)
    BY <1>1 DEF vars, tables, locals
  <2>2. /\ Touched(p)' = Touched(p) /\ ActiveOf(records[p])' = ActiveOf(records[p])
        /\ OneRecordPerRef(records[p])' = OneRecordPerRef(records[p])
        /\ ReplacedBy(records[p])' = ReplacedBy(records[p])
        /\ \A rec : Fits(rec)' = Fits(rec)
    BY <2>1 DEF Touched, ActiveOf, OneRecordPerRef, Fits, ReplacedBy, PreviousRefs
  <2> QED
    BY <2>1, <2>2 DEF Stored
<1>2. ASSUME NEW p \in Appliers, Begin(p) \/ Apply(p) \/ Store(p) \/ Abort(p) PROVE Stored(p)'
  <2>1. CASE Begin(p) \/ Apply(p) \/ Abort(p) \/ Return(p)
    <3>1. pc'[p] \notin Storing
      BY <2>1
         DEF Begin, Abort, Return, Apply, UpsertRestoring, UpsertKeeping, Restore, WithdrawUpsert,
             WithdrawSource, Withdraw, DeleteRaw, RecordAudit, MarkInactive, NothingToStore, Goto,
             TypeInv, TypeOK, Storing, RowsDone, ObjectsDone, UnitsDone, VectorsDone, EmailsDone
    <3> QED
      BY <3>1, StoredOutside
  <2>2. CASE FindReplaced(p)
    BY <2>2, StoredFindReplaced
  <2>3. CASE StoreRows(p) \/ StoreObjects(p) \/ ReplaceUnits(p) \/ ReplaceVectors(p)
    BY <2>3, StoredRows, StoredObjects, StoredUnits, StoredVectors
  <2>4. CASE StoreLinks(p) \/ DropRaw(p) \/ ReadHolds(p) \/ PutRaw(p) \/ RawStored(p)
             \/ DeleteEmails(p)
    BY <2>4, StoredRest
  <2> QED
    BY <1>2, <2>1, <2>2, <2>3, <2>4 DEF Store
<1> QED
  BY <1>1, <1>2 DEF OneApplier, Next

\* The tables of a source that a completed call touched agree.
LEMMA DoneIsConsistent ==
    ASSUME RepairInv PROVE CompletedStoreRepairs
<1> USE DEF RepairInv, TypeInv
<1> SUFFICES ASSUME NEW p \in Appliers, pc[p] = "done"
             PROVE  /\ \A r \in Touched(p) : Consistent(r) /\ r \notin emails
                    /\ \A r \in replaced[p] : row[r] = Nil /\ unit[r] = Nil /\ vector[r] = Nil
  BY DEF CompletedStoreRepairs
<1> DEFINE active == ActiveOf(records[p])
<1>1. /\ OneRecordPerRef(records[p]) /\ replaced[p] \intersect RefsOf(records[p]) = {}
      /\ \A rec \in records[p] : /\ Fits(rec) /\ row[rec.ref] = RowOf(rec)
                                 /\ object[rec.ref] = EffectiveLife(rec)
      /\ \A r \in replaced[p] : row[r] = Nil
      /\ \A r \in Touched(p) :
            /\ unit[r] = IF r \in RefsOf(active)
                         THEN [status |-> "current", sum |-> ChecksumOf(RecordFor(r, active))]
                         ELSE Nil
            /\ vector[r] = IF r \in RefsOf(active) THEN RecordFor(r, active).ver ELSE Nil
            /\ r \notin emails
  BY DEF Stored, Storing, RowsDone, ObjectsDone, UnitsDone, VectorsDone, EmailsDone
<1>2. ASSUME NEW rec \in records[p] PROVE Consistent(rec.ref)
  <2>1. /\ row[rec.ref] = RowOf(rec) /\ object[rec.ref] = EffectiveLife(rec)
        /\ hold[rec.ref] # Nil => EffectiveLife(rec) = hold[rec.ref].state
        /\ rec.ref \in Touched(p) /\ rec \in SourceRecord
    BY <1>1 DEF Fits, Touched, RefsOf, TypeOK
  <2>2. CASE EffectiveLife(rec) = "active"
    <3>1. rec.ref \in RefsOf(active) /\ RecordFor(rec.ref, active) = rec
      BY <1>1, <2>2, RecordForRef DEF RefsOf, ActiveOf, OneRecordPerRef
    <3>2. unit[rec.ref] = [status |-> "current", sum |-> ChecksumOf(rec)] /\ vector[rec.ref] = rec.ver
      BY <1>1, <2>1, <3>1
    <3> QED
      BY <2>1, <2>2, <3>2 DEF Consistent, RowOf, ChecksumOf
  <2>3. CASE EffectiveLife(rec) # "active"
    <3>1. rec.ref \notin RefsOf(active)
      BY <1>1, <2>3 DEF RefsOf, ActiveOf, OneRecordPerRef
    <3>2. unit[rec.ref] = Nil /\ vector[rec.ref] = Nil
      BY <1>1, <2>1, <3>1
    <3> QED
      BY <2>1, <2>3, <3>2 DEF Consistent, RowOf
  <2> QED
    BY <2>2, <2>3
<1>3. ASSUME NEW r \in replaced[p] PROVE row[r] = Nil /\ unit[r] = Nil /\ vector[r] = Nil
  <2>1. r \notin RefsOf(active) /\ r \in Touched(p)
    BY <1>1, ActiveAreRecords DEF Touched
  <2> HIDE DEF active
  <2> QED
    BY <1>1, <2>1
<1> HIDE DEF active
<1>4. ASSUME NEW r \in Touched(p) PROVE Consistent(r) /\ r \notin emails
  <2>1. CASE r \in replaced[p]
    BY <1>1, <1>3, <2>1 DEF Consistent
  <2>2. CASE r \in RefsOf(records[p])
    BY <1>1, <1>2, <2>2 DEF RefsOf
  <2> QED
    BY <1>4, <2>1, <2>2 DEF Touched
<1> QED
  BY <1>3, <1>4

\* Every state of a specification whose calls do not overlap has the invariant.
LEMMA RepairInvHolds ==
    ASSUME OneApplier, \A b \in Batches : Agreeing(b)
    PROVE  Spec => []RepairInv
<1>1. Init => RepairInv
  <2>1. Init => KnownIsHeld /\ \A p \in Appliers : Applying(p) /\ Stored(p)
    BY DEF Init, KnownIsHeld, Applying, Stored, Loop, Withdrawals, Storing, RowsDone, ObjectsDone,
           UnitsDone, VectorsDone, EmailsDone
  <2> QED
    BY <2>1, TypeInit DEF RepairInv
<1>2. RepairInv /\ [Next]_vars => RepairInv'
  BY TypeStep, KnownStep, ApplyingStep, StoredStep DEF RepairInv
<1> QED
  BY <1>1, <1>2, PTL DEF Spec

\* As long as applications do not overlap, importing again is a repair
\* (apply_source_changes, etl/load/source_changes.py): a call that runs to its
\* end leaves every source it touched consistent, whatever calls failed
\* half-way before it.
THEOREM ImportsRepair ==
    ASSUME OneApplier, \A b \in Batches : Agreeing(b)
    PROVE  Spec => []CompletedStoreRepairs
BY RepairInvHolds, DoneIsConsistent, PTL

-----------------------------------------------------------------------------
(* Publication *)

\* A withdrawn source has current units only as long as it is held.
HeldOrHidden ==
    \A r \in Refs :
        row[r] # Nil /\ row[r].life # "active" /\ unit[r] # Nil /\ unit[r].status = "current" =>
            hold[r] # Nil

\* Storing the row of a withdrawn source finds its units taken or its hold in
\* place.
LEMMA HiddenStep ==
    ASSUME RepairInv, HeldOrHidden, [Next]_vars
    PROVE  HeldOrHidden'
<1> USE DEF RepairInv, TypeInv
<1>1. CASE UNCHANGED vars
  BY <1>1 DEF vars, tables, HeldOrHidden
<1>2. ASSUME NEW p \in Appliers, UpsertRestoring(p) \/ Restore(p) PROVE HeldOrHidden'
  <2>1. PICK s \in Refs : ClearHold(s)
    <3>1. todo[p] # <<>> => Change(p) \in SourceChange
      BY HeadIsChange DEF Change, TypeOK
    <3> QED
      BY <1>2, <3>1, ChangeFields, RecordTypes DEF UpsertRestoring, Restore
  <2>2. ASSUME NEW r \in Refs, r = s PROVE unit'[r] = Nil \/ unit'[r].status # "current"
    BY <2>1, <2>2 DEF ClearHold, TypeOK, Unit
  <2>3. \A r \in Refs : r # s => hold'[r] = hold[r] /\ row'[r] = row[r] /\ unit'[r] = unit[r]
    BY <2>1 DEF ClearHold, TypeOK
  <2> QED
    BY <2>2, <2>3 DEF HeldOrHidden
<1>3. ASSUME NEW p \in Appliers, WithdrawUpsert(p) \/ WithdrawSource(p) PROVE HeldOrHidden'
  <2>1. \A r \in Refs : hold[r] # Nil => hold'[r] # Nil
    <3>1. PICK s \in Refs, h \in Hold : hold' = [hold EXCEPT ![s] = h]
      <4>1. todo[p] # <<>> => Change(p) \in SourceChange
        BY HeadIsChange DEF Change, TypeOK
      <4>2. CASE WithdrawUpsert(p)
        <5>1. /\ Change(p).rec \in SourceRecord /\ EffectiveLife(Change(p).rec) # "active"
              /\ hold' = [hold EXCEPT ![Change(p).rec.ref] =
                            [state |-> EffectiveLife(Change(p).rec),
                             reason |-> LifecycleReason(Change(p).rec)]]
          BY <4>1, <4>2, ChangeFields DEF WithdrawUpsert, Withdraw
        <5>2. [state |-> EffectiveLife(Change(p).rec), reason |-> LifecycleReason(Change(p).rec)] \in Hold
          BY <5>1, RecordTypes DEF Hold, InactiveStates
        <5> QED
          BY <5>1, <5>2, RecordTypes
      <4>3. CASE WithdrawSource(p)
        <5>1. /\ Change(p) \in SourceChange /\ Change(p).op \in Ops \ {"upsert", "restore"}
              /\ hold' = [hold EXCEPT ![Change(p).ref] =
                            [state |-> InactiveStateFor(Change(p).op), reason |-> Change(p).reason]]
          BY <4>1, <4>3, ChangeFields DEF WithdrawSource, Withdraw
        <5>2. [state |-> InactiveStateFor(Change(p).op), reason |-> Change(p).reason] \in Hold
          BY <5>1, ChangeFields, InactiveStateType DEF Hold
        <5> QED
          BY <5>1, <5>2, ChangeFields
      <4> QED
        BY <1>3, <4>2, <4>3
    <3> QED
      BY <3>1, NilAssumption DEF TypeOK
  <2>2. row' = row /\ unit' = unit
    BY <1>3 DEF WithdrawUpsert, WithdrawSource, Withdraw
  <2> QED
    BY <2>1, <2>2 DEF HeldOrHidden
<1>4. ASSUME NEW p \in Appliers, MarkInactive(p) PROVE HeldOrHidden'
  <2> DEFINE s == WithdrawnRef(p)
  <2>1. /\ s \in Refs /\ hold' = hold
        /\ unit' = [unit EXCEPT ![s] = IF @ = Nil THEN Nil ELSE [@ EXCEPT !.status = "inactive"]]
        /\ row' = [row EXCEPT ![s] = IF @ = Nil THEN Nil
                                     ELSE [@ EXCEPT !.life = WithdrawnState(p)]]
    BY <1>4 DEF MarkInactive, Goto, Withdrawing
  <2> HIDE DEF s
  <2>2. ASSUME NEW r \in Refs, r = s PROVE unit'[r] = Nil \/ unit'[r].status # "current"
    BY <2>1, <2>2 DEF TypeOK, Unit
  <2>3. \A r \in Refs : r # s => row'[r] = row[r] /\ unit'[r] = unit[r]
    BY <2>1 DEF TypeOK
  <2> QED
    BY <2>1, <2>2, <2>3 DEF HeldOrHidden
<1>5. ASSUME NEW p \in Appliers, StoreRows(p) PROVE HeldOrHidden'
  <2>1. pc[p] = "rows" /\ hold' = hold /\ Stored(p)' /\ pc'[p] = "objects" /\ records' = records
    BY <1>5, StoredRows DEF StoreRows, Goto, locals, TypeOK
  <2>2. \A rec \in records[p] : row'[rec.ref] = RowOf(rec) /\ Fits(rec)'
    BY <2>1 DEF Stored, RowsDone, Storing
  <2>3. ASSUME NEW r \in Refs, row'[r] # Nil, row'[r].life # "active",
               unit'[r] # Nil, unit'[r].status = "current"
        PROVE  hold'[r] # Nil
    <3>1. CASE r \in RefsOf(records[p])
      <4>1. PICK rec \in records[p] : rec.ref = r
        BY <3>1 DEF RefsOf
      <4>2. row'[r] = RowOf(rec) /\ Fits(rec)'
        BY <2>2, <4>1
      <4>3. EffectiveLife(rec) # "active"
        BY <2>3, <4>2 DEF RowOf
      <4> QED
        BY <2>3, <4>1, <4>2, <4>3 DEF Fits
    <3>2. CASE r \notin RefsOf(records[p])
      <4>1. row'[r] = row[r]
        BY <1>5, <2>3, <3>2 DEF StoreRows
      <4>2. unit'[r] = unit[r]
        <5>1. \/ unit'[r] = unit[r]
              \/ unit[r] # Nil /\ unit'[r] = [unit[r] EXCEPT !.status = "stale"]
          BY <1>5 DEF StoreRows
        <5>2. unit[r] # Nil => [unit[r] EXCEPT !.status = "stale"].status = "stale"
          BY DEF TypeOK, Unit
        <5> QED
          BY <2>3, <5>1, <5>2
      <4> QED
        BY <2>1, <2>3, <4>1, <4>2 DEF HeldOrHidden
    <3> QED
      BY <3>1, <3>2
  <2> QED
    BY <2>3 DEF HeldOrHidden
<1>6. ASSUME NEW p \in Appliers, ReplaceUnits(p) PROVE HeldOrHidden'
  <2>1. pc[p] = "units" /\ hold' = hold /\ row' = row
    BY <1>6 DEF ReplaceUnits, Goto
  <2>2. \A rec \in records[p] : row[rec.ref] = RowOf(rec)
    BY <2>1 DEF Stored, RowsDone, ObjectsDone
  <2>3. ASSUME NEW r \in Refs, row'[r] # Nil, row'[r].life # "active",
               unit'[r] # Nil, unit'[r].status = "current"
        PROVE  hold'[r] # Nil
    <3>1. r \notin RefsOf(ActiveOf(records[p]))
      <4> SUFFICES ASSUME NEW rec \in records[p], rec.ref = r, EffectiveLife(rec) = "active"
                   PROVE  FALSE
        BY DEF RefsOf, ActiveOf
      <4>1. row'[r] = RowOf(rec)
        BY <2>1, <2>2
      <4> QED
        BY <2>3, <4>1 DEF RowOf
    <3>2. unit'[r] = unit[r]
      BY <1>6, <2>3, <3>1 DEF ReplaceUnits
    <3> QED
      BY <2>1, <2>3, <3>2 DEF HeldOrHidden
  <2> QED
    BY <2>3 DEF HeldOrHidden
<1>7. ASSUME NEW p \in Appliers, Begin(p) \/ Apply(p) \/ Store(p) \/ Abort(p),
             ~ (UpsertRestoring(p) \/ Restore(p) \/ WithdrawUpsert(p) \/ WithdrawSource(p)
                \/ MarkInactive(p) \/ StoreRows(p) \/ ReplaceUnits(p))
      PROVE  HeldOrHidden'
  <2>1. UNCHANGED <<hold, row, unit>>
    BY <1>7
       DEF Begin, Abort, Apply, Store, UpsertKeeping, DeleteRaw, RecordAudit, NothingToStore,
           FindReplaced, StoreObjects, StoreLinks, ReplaceVectors, DropRaw, ReadHolds, PutRaw,
           RawStored, DeleteEmails, Return, tables
  <2> QED
    BY <2>1 DEF HeldOrHidden
<1> QED
  BY <1>1, <1>2, <1>3, <1>4, <1>5, <1>6, <1>7 DEF Next

\* As long as applications do not overlap and each ref is delivered with one
\* source identity, search finds a source for the first time, or again, only
\* when the call inserts the units it prepared for it: neither lifting a hold
\* nor storing a row publishes units that were prepared before.
THEOREM OnlyNewUnitsPublish ==
    ASSUME NEW source \in [Refs -> Ids], Batches \subseteq Seq(ChangesOf(source)),
           OneApplier, \A b \in Batches : Agreeing(b)
    PROVE  Spec => PublishedByNewUnits
<1> DEFINE Published ==
      \A r \in Refs : ~ SearchHit(r) /\ SearchHit(r)' =>
          \E p \in Appliers : pc[p] = "units" /\ pc'[p] = "vectors" /\ r \in RefsOf(records[p])
<1>1. RepairInv /\ UnitsMatchRows /\ HeldOrHidden /\ [Next]_vars => Published
  <2> SUFFICES ASSUME RepairInv, UnitsMatchRows, HeldOrHidden, [Next]_vars,
                      NEW r \in Refs, ~ SearchHit(r), SearchHit(r)'
               PROVE  \E p \in Appliers :
                          pc[p] = "units" /\ pc'[p] = "vectors" /\ r \in RefsOf(records[p])
    OBVIOUS
  <2> USE DEF RepairInv, TypeInv
  <2>1. /\ row'[r] # Nil /\ row'[r].life = "active"
        /\ unit'[r] # Nil /\ unit'[r].status = "current"
    BY DEF SearchHit
  <2>2. ASSUME UNCHANGED <<row, unit>> PROVE FALSE
    BY <2>2 DEF SearchHit
  <2>3. ASSUME NEW p \in Appliers, UpsertRestoring(p) \/ Restore(p) PROVE FALSE
    <3>1. PICK s \in Refs : ClearHold(s)
      <4>1. todo[p] # <<>> => Change(p) \in SourceChange
        BY HeadIsChange DEF Change, TypeOK
      <4> QED
        BY <2>3, <4>1, ChangeFields, RecordTypes DEF UpsertRestoring, Restore
    <3>2. CASE r = s
      BY <2>1, <3>1, <3>2 DEF ClearHold, TypeOK, Unit
    <3>3. CASE r # s
      <4>1. row'[r] = row[r] /\ unit'[r] = unit[r]
        BY <3>1, <3>3 DEF ClearHold, TypeOK
      <4> QED
        BY <4>1 DEF SearchHit
    <3> QED
      BY <3>2, <3>3
  <2>4. ASSUME NEW p \in Appliers, MarkInactive(p) PROVE FALSE
    <3> DEFINE s == WithdrawnRef(p)
    <3>1. /\ s \in Refs
          /\ unit' = [unit EXCEPT ![s] = IF @ = Nil THEN Nil ELSE [@ EXCEPT !.status = "inactive"]]
          /\ row' = [row EXCEPT ![s] = IF @ = Nil THEN Nil
                                       ELSE [@ EXCEPT !.life = WithdrawnState(p)]]
      BY <2>4 DEF MarkInactive, Goto, Withdrawing
    <3> HIDE DEF s
    <3>2. CASE r = s
      BY <2>1, <3>1, <3>2 DEF TypeOK, Unit
    <3>3. CASE r # s
      <4>1. row'[r] = row[r] /\ unit'[r] = unit[r]
        BY <3>1, <3>3 DEF TypeOK
      <4> QED
        BY <4>1 DEF SearchHit
    <3> QED
      BY <3>2, <3>3
  <2>5. ASSUME NEW p \in Appliers, StoreRows(p) PROVE FALSE
    <3>1. unit'[r] = unit[r]
      <4>1. \/ unit'[r] = unit[r]
            \/ unit[r] # Nil /\ unit'[r] = [unit[r] EXCEPT !.status = "stale"]
        BY <2>5 DEF StoreRows
      <4>2. unit[r] # Nil => [unit[r] EXCEPT !.status = "stale"].status = "stale"
        BY DEF TypeOK, Unit
      <4> QED
        BY <2>1, <4>1, <4>2
    <3>2. row[r] # Nil
      BY <2>1, <3>1 DEF UnitsMatchRows
    <3>3. CASE r \notin RefsOf(records[p])
      <4>1. row'[r] = row[r]
        BY <2>1, <2>5, <3>3 DEF StoreRows
      <4> QED
        BY <3>1, <4>1 DEF SearchHit
    <3>4. CASE r \in RefsOf(records[p])
      <4>1. PICK rec \in records[p] : rec.ref = r
        BY <3>4 DEF RefsOf
      <4>2. /\ Stored(p)' /\ pc[p] = "rows" /\ pc'[p] = "objects"
            /\ records' = records /\ hold' = hold
        BY <2>5, StoredRows DEF StoreRows, Goto, locals, TypeOK
      <4>3. row'[r] = RowOf(rec) /\ Fits(rec)
        BY <4>1, <4>2 DEF Stored, RowsDone, Storing
      <4>4. EffectiveLife(rec) = "active"
        BY <2>1, <4>3 DEF RowOf
      <4>5. row[r].life # "active"
        BY <2>1, <3>1, <3>2 DEF SearchHit
      <4>6. hold[r] # Nil
        BY <2>1, <3>1, <3>2, <4>5 DEF HeldOrHidden
      <4>7. hold[r] \in Hold
        BY <4>6 DEF TypeOK
      <4> QED
        BY <4>1, <4>3, <4>4, <4>6, <4>7 DEF Fits, Hold, InactiveStates
    <3> QED
      BY <3>3, <3>4
  <2>6. ASSUME NEW p \in Appliers, ReplaceUnits(p)
        PROVE  pc[p] = "units" /\ pc'[p] = "vectors" /\ r \in RefsOf(records[p])
    <3>1. pc[p] = "units" /\ pc'[p] = "vectors" /\ row' = row
      BY <2>6 DEF ReplaceUnits, Goto, TypeOK
    <3>2. CASE r \in RefsOf(ActiveOf(records[p]))
      BY <3>1, <3>2, ActiveAreRecords
    <3>3. CASE r \notin RefsOf(ActiveOf(records[p]))
      <4>1. unit'[r] = unit[r]
        BY <2>1, <2>6, <3>3 DEF ReplaceUnits
      <4> QED
        BY <3>1, <4>1 DEF SearchHit
    <3> QED
      BY <3>2, <3>3
  <2>7. ASSUME NEW p \in Appliers, Begin(p) \/ Apply(p) \/ Store(p) \/ Abort(p),
               ~ (UpsertRestoring(p) \/ Restore(p) \/ MarkInactive(p) \/ StoreRows(p)
                  \/ ReplaceUnits(p))
        PROVE  UNCHANGED <<row, unit>>
    BY <2>7
       DEF Begin, Abort, Apply, Store, UpsertKeeping, WithdrawUpsert, WithdrawSource, Withdraw,
           DeleteRaw, RecordAudit, NothingToStore, FindReplaced, StoreObjects, StoreLinks,
           ReplaceVectors, DropRaw, ReadHolds, PutRaw, RawStored, DeleteEmails, Return, tables
  <2>8. UNCHANGED vars => UNCHANGED <<row, unit>>
    BY DEF vars, tables
  <2> QED
    BY <2>2, <2>3, <2>4, <2>5, <2>6, <2>7, <2>8 DEF Next
<1>2. Init => HeldOrHidden
  BY DEF Init, HeldOrHidden
<1>3. Spec => []HeldOrHidden
  BY <1>2, HiddenStep, RepairInvHolds, PTL DEF Spec
<1>4. RepairInv /\ UnitsMatchRows /\ HeldOrHidden /\ [Next]_vars => [Published]_vars
  BY <1>1
<1> HIDE DEF Published
<1>5. Spec => [][Published]_vars
  BY <1>3, <1>4, RepairInvHolds, UnitsAlwaysMatchRows, PTL DEF Spec
<1> QED
  BY <1>5, PTL DEF PublishedByNewUnits, Published

-----------------------------------------------------------------------------
(* Quiet states *)

\* The sources an applier has changed, or has begun to change, and not finished.
Flux(p) ==
    IF pc[p] \in Storing THEN Touched(p)
    ELSE RefsOf(Collected(p)) \union (IF pc[p] \in Withdrawals THEN {WithdrawnRef(p)} ELSE {})

\* Every table and the raw store agree on r.
Settled(r) ==
    /\ Consistent(r)
    /\ row[r] # Nil /\ row[r].life = "active" => raw[r] = row[r].sum.ver

\* What a source that is held needs, but for the withdrawal under way.
Withdrawn(p) ==
    /\ pc[p] \in Withdrawals => vector[WithdrawnRef(p)] = Nil
    /\ \A r \in Refs : hold[r] # Nil =>
          \/ pc[p] \in {"unraw", "audit"} /\ r = WithdrawnRef(p)
          \/ <<r, hold[r].state>> \in audit
    /\ \A r \in Refs : hold[r] # Nil /\ hold[r].state = "deleted" =>
          \/ pc[p] = "unraw" /\ r = WithdrawnRef(p)
          \/ raw[r] = Nil

\* As long as no call failed, what is not in flux is settled, and a row waits
\* for its object only until the next transaction.
Quiet(p) ==
    aborts = 0 =>
        /\ \A r \in Refs \ Flux(p) : Settled(r)
        /\ \A r \in Refs : row[r] # Nil =>
              \/ pc[p] = "objects" /\ r \in RefsOf(records[p])
              \/ object[r] # Nil
        /\ Withdrawn(p)

\* The raw files of the active records are written one at a time.
Files(p) ==
    /\ pc[p] = "dropraw" => work[p] \subseteq replaced[p]
    /\ pc[p] = "putraw" =>
          /\ work[p] \subseteq RefsOf(ActiveOf(records[p]))
          /\ \A r \in work[p] : hold[r] = Nil
          /\ \A rec \in ActiveOf(records[p]) : rec.ref \in work[p] \/ raw[rec.ref] = rec.ver
    /\ pc[p] \in {"emails", "done"} => \A rec \in ActiveOf(records[p]) : raw[rec.ref] = rec.ver

\* No held source has legacy rows.
HeldHasNoEmails == \A r \in Refs : hold[r] # Nil => r \notin emails

QuietInv(source) ==
    /\ RepairInv /\ UnitsInv(source) /\ HeldHasNoEmails
    /\ \A p \in Appliers : Files(p) /\ Quiet(p)

\* Collecting a record.
LEMMA CollectedAppend ==
    ASSUME TypeOK, NEW p \in Appliers, NEW rec \in SourceRecord,
           pending'[p] = Append(pending[p], rec)
    PROVE  Collected(p)' = Collected(p) \union {rec}
<1> DEFINE s == pending[p]
<1>1. s \in Seq(SourceRecord)
  BY DEF TypeOK
<1> HIDE DEF s
<1>2. /\ \A i \in DOMAIN s : i \in DOMAIN Append(s, rec) /\ Append(s, rec)[i] = s[i]
      /\ \A i \in DOMAIN Append(s, rec) : i \in DOMAIN s \/ Append(s, rec)[i] = rec
      /\ Len(s) + 1 \in DOMAIN Append(s, rec) /\ Append(s, rec)[Len(s) + 1] = rec
  BY <1>1
<1>3. {Append(s, rec)[i] : i \in DOMAIN Append(s, rec)} = {s[i] : i \in DOMAIN s} \union {rec}
  BY <1>2
<1> QED
  BY <1>3 DEF s, Collected

\* A source that no commit changes stays settled.
LEMMA SettledElsewhere ==
    ASSUME NEW r, Settled(r),
           hold'[r] = hold[r], row'[r] = row[r], object'[r] = object[r], unit'[r] = unit[r],
           vector'[r] = vector[r], raw'[r] = raw[r]
    PROVE  Settled(r)'
BY DEF Settled, Consistent

\* The raw files.
LEMMA FilesStep ==
    ASSUME OneApplier, Appliers \subseteq RawAppliers, RepairInv, \A p \in Appliers : Files(p),
           [Next]_vars
    PROVE  \A p \in Appliers : Files(p)'
<1> USE DEF RepairInv, TypeInv
<1>1. ASSUME NEW p \in Appliers, UNCHANGED vars PROVE Files(p)'
  BY <1>1 DEF vars, tables, locals, Files, ActiveOf
<1>2. ASSUME NEW p \in Appliers, ReplaceVectors(p) PROVE Files(p)'
  <2>1. pc'[p] = "dropraw" /\ work'[p] = replaced[p] /\ replaced' = replaced
    BY <1>2 DEF ReplaceVectors, Goto, TypeOK
  <2> QED
    BY <2>1 DEF Files
<1>3. ASSUME NEW p \in Appliers, DropRaw(p) PROVE Files(p)'
  <2>1. /\ pc[p] = "dropraw" /\ pc'[p] = "dropraw" /\ replaced' = replaced
        /\ work'[p] \subseteq work[p]
    BY <1>3 DEF DropRaw, Goto, TypeOK
  <2> QED
    BY <2>1 DEF Files
<1>4. ASSUME NEW p \in Appliers, ReadHolds(p) PROVE Files(p)'
  <2>1. /\ pc[p] = "dropraw" /\ pc'[p] = "putraw" /\ records' = records /\ hold' = hold
        /\ work'[p] = {r \in RefsOf(ActiveOf(records[p])) : hold[r] = Nil}
    BY <1>4 DEF ReadHolds, Goto, tables, TypeOK
  <2>2. ASSUME NEW rec \in ActiveOf(records[p]) PROVE rec.ref \in work'[p]
    <3>1. Fits(rec) /\ EffectiveLife(rec) = "active" /\ rec.ref \in RefsOf(ActiveOf(records[p]))
      BY <2>1, <2>2 DEF Stored, Storing, RowsDone, ObjectsDone, UnitsDone, VectorsDone, ActiveOf, RefsOf
    <3>2. rec.ref \in Refs
      BY <2>2, RecordTypes DEF ActiveOf, TypeOK
    <3>3. hold[rec.ref] = Nil
      BY <3>1, <3>2 DEF Fits, TypeOK, Hold, InactiveStates
    <3> QED
      BY <2>1, <3>1, <3>3
  <2>3. ActiveOf(records[p])' = ActiveOf(records[p])
    BY <2>1 DEF ActiveOf
  <2> QED
    BY <2>1, <2>2, <2>3 DEF Files
<1>5. ASSUME NEW p \in Appliers, PutRaw(p) PROVE Files(p)'
  <2>1. PICK r \in work[p] :
          /\ raw' = [raw EXCEPT ![r] = RecordFor(r, records[p]).ver]
          /\ work' = [work EXCEPT ![p] = @ \ {r}]
    BY <1>5 DEF PutRaw
  <2>2. /\ pc[p] = "putraw" /\ pc'[p] = "putraw" /\ UNCHANGED <<hold, records>>
        /\ work'[p] = work[p] \ {r} /\ r \in Refs
    BY <1>5, <2>1 DEF PutRaw, Goto, TypeOK
  <2>3. ActiveOf(records[p])' = ActiveOf(records[p]) /\ ActiveOf(records[p]) \subseteq records[p]
    BY <2>2 DEF ActiveOf
  <2>4. ASSUME NEW rec \in ActiveOf(records[p])
        PROVE  rec.ref \in work'[p] \/ raw'[rec.ref] = rec.ver
    <3>0. rec.ref \in Refs
      BY <2>3, RecordTypes DEF TypeOK
    <3>1. CASE rec.ref = r
      <4>1. RecordFor(r, records[p]) = rec
        <5>1. OneRecordPerRef(records[p])
          BY <2>2 DEF Stored, Storing, RowsDone, ObjectsDone, UnitsDone, VectorsDone
        <5>2. r \in RefsOf(records[p])
          BY <2>3, <3>1 DEF RefsOf
        <5> QED
          BY <2>3, <3>1, <5>1, <5>2, RecordForRef DEF OneRecordPerRef
      <4> QED
        BY <2>1, <2>2, <3>1, <4>1 DEF TypeOK
    <3>2. CASE rec.ref # r
      <4>1. raw'[rec.ref] = raw[rec.ref]
        BY <2>1, <3>0, <3>2 DEF TypeOK
      <4> QED
        BY <2>2, <3>2, <4>1 DEF Files
    <3> QED
      BY <3>1, <3>2
  <2> QED
    BY <2>2, <2>3, <2>4 DEF Files
<1>6. ASSUME NEW p \in Appliers, RawStored(p) \/ DeleteEmails(p) PROVE Files(p)'
  <2>1. /\ pc'[p] \in {"emails", "done"} /\ records' = records /\ raw' = raw
        /\ (pc[p] = "putraw" /\ work[p] = {}) \/ pc[p] = "emails"
    BY <1>6 DEF RawStored, DeleteEmails, Goto, tables, locals, TypeOK
  <2> QED
    BY <2>1 DEF Files, ActiveOf
<1>7. ASSUME NEW p \in Appliers, Begin(p) \/ Apply(p) \/ Store(p) \/ Abort(p),
             ~ (ReplaceVectors(p) \/ DropRaw(p) \/ ReadHolds(p) \/ PutRaw(p) \/ RawStored(p)
                \/ DeleteEmails(p))
      PROVE  Files(p)'
  <2>1. pc'[p] \notin {"dropraw", "putraw", "emails", "done"}
    BY <1>7
       DEF Begin, Abort, Apply, Store, UpsertRestoring, UpsertKeeping, Restore, WithdrawUpsert,
           WithdrawSource, Withdraw, DeleteRaw, RecordAudit, MarkInactive, NothingToStore,
           FindReplaced, StoreRows, StoreObjects, StoreLinks, ReplaceUnits, Return, Goto, TypeOK
  <2> QED
    BY <2>1 DEF Files
<1> QED
  BY <1>1, <1>2, <1>3, <1>4, <1>5, <1>6, <1>7 DEF OneApplier, Next

\* The transaction that puts a hold deletes the legacy rows with it.
LEMMA EmailsStep ==
    ASSUME TypeInv, HeldHasNoEmails, [Next]_vars
    PROVE  HeldHasNoEmails'
<1> USE DEF TypeInv
<1>1. CASE UNCHANGED vars
  BY <1>1 DEF vars, tables, HeldHasNoEmails
<1>2. ASSUME NEW p \in Appliers, NEW r, NEW state, NEW reason, Withdraw(p, r, state, reason)
      PROVE  HeldHasNoEmails'
  BY <1>2 DEF Withdraw, TypeOK, HeldHasNoEmails
<1>3. ASSUME NEW r, ClearHold(r) PROVE HeldHasNoEmails'
  BY <1>3 DEF ClearHold, TypeOK, HeldHasNoEmails
<1>4. ASSUME NEW p \in Appliers, Begin(p) \/ Apply(p) \/ Store(p) \/ Abort(p),
             ~ (UpsertRestoring(p) \/ Restore(p) \/ WithdrawUpsert(p) \/ WithdrawSource(p))
      PROVE  HeldHasNoEmails'
  <2>1. hold' = hold /\ emails' \subseteq emails
    BY <1>4
       DEF Begin, Abort, Apply, Store, UpsertKeeping, DeleteRaw, RecordAudit, MarkInactive,
           NothingToStore, FindReplaced, StoreRows, StoreObjects, StoreLinks, ReplaceUnits,
           ReplaceVectors, DropRaw, ReadHolds, PutRaw, RawStored, DeleteEmails, Return, tables
  <2> QED
    BY <2>1 DEF HeldHasNoEmails
<1> QED
  BY <1>1, <1>2, <1>3, <1>4
     DEF Next, UpsertRestoring, Restore, WithdrawUpsert, WithdrawSource

\* A source outside the flux, before a step and after it.
LEMMA QuietFrame ==
    ASSUME NEW p \in Appliers, Quiet(p), aborts' = aborts, Withdrawn(p)' \/ aborts # 0,
           \A r \in Refs \ Flux(p)' :
               /\ r \notin Flux(p)
               /\ hold'[r] = hold[r] /\ row'[r] = row[r] /\ object'[r] = object[r]
               /\ unit'[r] = unit[r] /\ vector'[r] = vector[r] /\ raw'[r] = raw[r],
           aborts = 0 => \A r \in Refs : row'[r] # Nil =>
              \/ pc'[p] = "objects" /\ r \in RefsOf(records'[p])
              \/ object'[r] # Nil
    PROVE  Quiet(p)'
<1>1. ASSUME aborts = 0, NEW r \in Refs \ Flux(p)' PROVE Settled(r)'
  <2>1. Settled(r)
    BY <1>1 DEF Quiet
  <2> QED
    BY <2>1, SettledElsewhere
<1> QED
  BY <1>1 DEF Quiet

\* The flux while changes are applied, and while what was collected is stored.
LEMMA FluxOf ==
    ASSUME NEW p
    PROVE  /\ pc[p] \in {"idle", "changes"} => Flux(p) = RefsOf(Collected(p))
           /\ pc[p] \in Withdrawals => Flux(p) = RefsOf(Collected(p)) \union {WithdrawnRef(p)}
           /\ pc[p] \in Storing => Flux(p) = Touched(p)
BY DEF Flux, Withdrawals, Storing, RowsDone, ObjectsDone, UnitsDone, VectorsDone, EmailsDone

\* Beginning a call changes no table.
LEMMA QuietBegin ==
    ASSUME RepairInv, NEW p \in Appliers, Quiet(p), Begin(p)
    PROVE  Quiet(p)'
<1> USE DEF RepairInv, TypeInv
<1>1. /\ pc[p] = "idle" /\ pc'[p] = "changes" /\ pending' = pending /\ aborts' = aborts
      /\ UNCHANGED tables
  BY DEF Begin, Goto, TypeOK
<1>2. Flux(p)' = Flux(p)
  <2>1. Flux(p)' = RefsOf(Collected(p))'
    BY <1>1, FluxOf DEF Flux, Storing, RowsDone, ObjectsDone, UnitsDone, VectorsDone, EmailsDone,
                        Withdrawals
  <2> QED
    BY <1>1, <2>1, FluxOf DEF Collected, RefsOf
<1>3. Withdrawn(p) => Withdrawn(p)'
  BY <1>1 DEF Withdrawn, tables, Withdrawals
<1> QED
  BY <1>1, <1>2, <1>3, QuietFrame DEF Quiet, tables

\* Lifting a hold moves the source into the flux.
LEMMA QuietClear ==
    ASSUME RepairInv, NEW p \in Appliers, Quiet(p), UpsertRestoring(p) \/ Restore(p)
    PROVE  Quiet(p)'
<1> USE DEF RepairInv, TypeInv
<1>1. /\ pc[p] = "changes" /\ pc'[p] = "changes" /\ todo[p] # <<>> /\ aborts' = aborts
      /\ Change(p) \in SourceChange /\ Change(p).rec \in SourceRecord
  <2>1. /\ pc[p] = "changes" /\ pc'[p] = "changes" /\ todo[p] # <<>> /\ aborts' = aborts
        /\ Change(p).rec # Nil
    BY DEF UpsertRestoring, Restore, Goto, TypeOK
  <2> QED
    BY <2>1, HeadIsChange, ChangeFields DEF Change, TypeOK
<1>2. PICK r \in Refs, new \in SourceRecord :
        new.ref = r /\ ClearHold(r) /\ pending'[p] = Append(pending[p], new)
  <2>1. CASE UpsertRestoring(p)
    BY <1>1, <2>1, RecordTypes DEF UpsertRestoring, TypeOK
  <2>2. CASE Restore(p)
    <3> DEFINE new == [Change(p).rec EXCEPT !.life = "active"]
    <3>1. Change(p).rec.ref = Change(p).ref
      BY <1>1, <2>2, HeadAgrees, NilAssumption DEF Restore, Applying, Loop
    <3>2. new \in SourceRecord /\ new.ref = Change(p).ref
      BY <1>1, <3>1 DEF SourceRecord, LifeStates
    <3>3. ClearHold(Change(p).ref) /\ pending'[p] = Append(pending[p], new)
      BY <2>2 DEF Restore, TypeOK
    <3> HIDE DEF new
    <3> QED
      BY <1>1, <3>2, <3>3, ChangeFields
  <2> QED
    BY <2>1, <2>2
<1>3. Collected(p)' = Collected(p) \union {new}
  BY <1>2, CollectedAppend
<1>4. Flux(p) = RefsOf(Collected(p)) /\ Flux(p)' = RefsOf(Collected(p)')
  BY <1>1 DEF Flux, Storing, RowsDone, ObjectsDone, UnitsDone, VectorsDone, EmailsDone, Withdrawals
<1>5. \A s \in Refs \ Flux(p)' : s \notin Flux(p) /\ s # r
  BY <1>2, <1>3, <1>4 DEF RefsOf
<1>6. /\ hold'[r] = Nil /\ \A s \in Refs : s # r => hold'[s] = hold[s]
      /\ UNCHANGED <<raw, audit, vector>>
  BY <1>2 DEF ClearHold, TypeOK
<1>7. \A s \in Refs : s # r => row'[s] = row[s] /\ object'[s] = object[s] /\ unit'[s] = unit[s]
  BY <1>2 DEF ClearHold, TypeOK
<1>8. row'[r] # Nil => row[r] # Nil /\ (object[r] # Nil => object'[r] # Nil)
  BY <1>2, NilAssumption DEF ClearHold, TypeOK, LifeStates
<1>9. Withdrawn(p) => Withdrawn(p)'
  BY <1>1, <1>6 DEF Withdrawn, Withdrawals
<1>10. aborts = 0 => \A s \in Refs : row'[s] # Nil => object'[s] # Nil
  BY <1>1, <1>7, <1>8 DEF Quiet
<1> QED
  BY <1>1, <1>5, <1>6, <1>7, <1>9, <1>10, QuietFrame DEF Quiet

\* Collecting a record does no more than that.
LEMMA QuietKeeping ==
    ASSUME RepairInv, NEW p \in Appliers, Quiet(p), UpsertKeeping(p)
    PROVE  Quiet(p)'
<1> USE DEF RepairInv, TypeInv
<1>1. /\ pc[p] = "changes" /\ pc'[p] = "changes" /\ UNCHANGED tables /\ aborts' = aborts
      /\ todo[p] # <<>> /\ Change(p).rec # Nil
  BY DEF UpsertKeeping, Goto, TypeOK
<1> DEFINE new == WithExistingLifecycle(Change(p).rec, known[p][Change(p).rec.ref])
<1>2. new \in SourceRecord
  <2>1. Change(p).rec \in SourceRecord
    BY <1>1, HeadIsChange, ChangeFields DEF Change, TypeOK
  <2>2. known[p][Change(p).rec.ref] \in Hold \union {Nil}
    BY <2>1, RecordTypes DEF TypeOK
  <2> QED
    BY <2>1, <2>2 DEF WithExistingLifecycle, SourceRecord, Hold, InactiveStates, LifeStates
<1>3. pending'[p] = Append(pending[p], new)
  BY DEF UpsertKeeping, TypeOK
<1> HIDE DEF new
<1>4. Collected(p) \subseteq Collected(p)'
  BY <1>2, <1>3, CollectedAppend
<1>5. Flux(p) = RefsOf(Collected(p)) /\ Flux(p)' = RefsOf(Collected(p)')
  BY <1>1 DEF Flux, Storing, RowsDone, ObjectsDone, UnitsDone, VectorsDone, EmailsDone, Withdrawals
<1>6. Flux(p) \subseteq Flux(p)'
  BY <1>4, <1>5 DEF RefsOf
<1>7. Withdrawn(p) => Withdrawn(p)'
  BY <1>1 DEF Withdrawn, tables, Withdrawals
<1> QED
  BY <1>1, <1>6, <1>7, QuietFrame DEF Quiet, tables

\* A withdrawal moves its source into the flux: no search hit and no vector is
\* left of it, the raw file goes next and then the audit event is written.
LEMMA QuietWithdraw ==
    ASSUME RepairInv, Appliers \subseteq RawAppliers, NEW p \in Appliers, Quiet(p),
           WithdrawUpsert(p) \/ WithdrawSource(p)
    PROVE  Quiet(p)'
<1> USE DEF RepairInv, TypeInv
<1> DEFINE r == WithdrawnRef(p)
<1> DEFINE state == WithdrawnState(p)
<1>1. /\ pc[p] = "changes" /\ pc'[p] = IF state = "deleted" THEN "unraw" ELSE "audit"
      /\ todo' = todo /\ pending' = pending /\ aborts' = aborts
      /\ UNCHANGED <<row, object, unit, raw, audit>>
      /\ vector' = [vector EXCEPT ![r] = Nil]
  BY DEF WithdrawUpsert, WithdrawSource, Withdraw, WithdrawnRef, WithdrawnState, Goto, TypeOK, locals
<1>2. PICK reason \in Reasons : hold' = [hold EXCEPT ![r] = [state |-> state, reason |-> reason]]
  <2>1. todo[p] # <<>> => Change(p) \in SourceChange
    BY HeadIsChange DEF Change, TypeOK
  <2>2. WithdrawUpsert(p) => Change(p).rec \in SourceRecord
    BY <2>1, ChangeFields DEF WithdrawUpsert
  <2> QED
    BY <2>1, <2>2, ChangeFields, RecordTypes
       DEF WithdrawUpsert, WithdrawSource, Withdraw, WithdrawnRef, WithdrawnState
<1>3. /\ Collected(p)' = Collected(p) /\ WithdrawnRef(p)' = r /\ WithdrawnState(p)' = state
  BY <1>1 DEF Collected, WithdrawnRef, WithdrawnState, Change
<1>4. r \in Refs
  <2>1. todo[p] # <<>> => Change(p) \in SourceChange
    BY HeadIsChange DEF Change, TypeOK
  <2> QED
    BY <2>1, ChangeFields, RecordTypes DEF WithdrawUpsert, WithdrawSource, WithdrawnRef
<1>5. pc'[p] \in Withdrawals
  BY <1>1 DEF Withdrawals
<1>6. Flux(p)' = Flux(p) \union {r}
  <2>1. Flux(p) = RefsOf(Collected(p))
    BY <1>1, FluxOf
  <2>2. Flux(p)' = RefsOf(Collected(p)') \union {WithdrawnRef(p)'}
    BY <1>5 DEF Flux, Storing, RowsDone, ObjectsDone, UnitsDone, VectorsDone, EmailsDone, Withdrawals
  <2> QED
    BY <1>3, <2>1, <2>2
<1> HIDE DEF r, state
<1>7. /\ hold'[r] = [state |-> state, reason |-> reason]
      /\ \A s \in Refs : s # r => hold'[s] = hold[s] /\ vector'[s] = vector[s]
      /\ vector'[r] = Nil
  BY <1>1, <1>2, <1>4 DEF TypeOK
<1>8. Withdrawn(p) => Withdrawn(p)'
  <2> SUFFICES ASSUME Withdrawn(p) PROVE Withdrawn(p)'
    OBVIOUS
  <2>1. \A s \in Refs : hold'[s] # Nil =>
          \/ pc'[p] \in {"unraw", "audit"} /\ s = r
          \/ <<s, hold'[s].state>> \in audit'
    BY <1>1, <1>7 DEF Withdrawn
  <2>2. \A s \in Refs : hold'[s] # Nil /\ hold'[s].state = "deleted" =>
          \/ pc'[p] = "unraw" /\ s = r
          \/ raw'[s] = Nil
    BY <1>1, <1>7 DEF Withdrawn
  <2> QED
    BY <1>3, <1>7, <2>1, <2>2 DEF Withdrawn
<1>9. aborts = 0 => \A s \in Refs : row'[s] # Nil => object'[s] # Nil
  BY <1>1 DEF Quiet
<1> QED
  BY <1>1, <1>6, <1>7, <1>8, <1>9, QuietFrame DEF Quiet

\* The raw file of a deleted source is gone before the audit event is written.
LEMMA QuietDeleteRaw ==
    ASSUME RepairInv, NEW p \in Appliers, Quiet(p), DeleteRaw(p)
    PROVE  Quiet(p)'
<1> USE DEF RepairInv, TypeInv
<1> DEFINE r == WithdrawnRef(p)
<1>1. /\ pc[p] = "unraw" /\ pc'[p] = "audit" /\ UNCHANGED <<todo, pending, aborts>>
      /\ UNCHANGED <<hold, row, object, unit, vector, audit>>
      /\ raw' = [raw EXCEPT ![r] = Nil]
  BY DEF DeleteRaw, Goto, TypeOK, locals
<1>2. Collected(p)' = Collected(p) /\ WithdrawnRef(p)' = r
  BY <1>1 DEF Collected, WithdrawnRef, Change
<1>3. r \in Refs
  BY <1>1 DEF Withdrawing
<1>4. Flux(p)' = Flux(p) /\ r \in Flux(p)
  BY <1>1, <1>2 DEF Flux, Storing, RowsDone, ObjectsDone, UnitsDone, VectorsDone, EmailsDone,
                    Withdrawals
<1> HIDE DEF r
<1>5. raw'[r] = Nil /\ \A s \in Refs : s # r => raw'[s] = raw[s]
  BY <1>1, <1>3 DEF TypeOK
<1>6. Withdrawn(p) => Withdrawn(p)'
  BY <1>1, <1>2, <1>5 DEF Withdrawn, r, Withdrawals
<1>7. aborts = 0 => \A s \in Refs : row'[s] # Nil => object'[s] # Nil
  BY <1>1 DEF Quiet
<1> QED
  BY <1>1, <1>4, <1>5, <1>6, <1>7, QuietFrame DEF Quiet

\* The audit event names the state the source was withdrawn to.
LEMMA QuietAudit ==
    ASSUME RepairInv, NEW p \in Appliers, Quiet(p), RecordAudit(p)
    PROVE  Quiet(p)'
<1> USE DEF RepairInv, TypeInv
<1> DEFINE r == WithdrawnRef(p)
<1>1. /\ pc[p] = "audit" /\ pc'[p] = "mark" /\ UNCHANGED <<todo, pending, aborts>>
      /\ UNCHANGED <<hold, row, object, unit, vector, raw>>
      /\ audit' = audit \union {<<r, WithdrawnState(p)>>}
  BY DEF RecordAudit, Goto, TypeOK, locals
<1>2. Collected(p)' = Collected(p) /\ WithdrawnRef(p)' = r
  BY <1>1 DEF Collected, WithdrawnRef, Change
<1>3. hold[r].state = WithdrawnState(p)
  BY <1>1 DEF Applying, Withdrawals
<1>4. Flux(p)' = Flux(p)
  BY <1>1, <1>2 DEF Flux, Storing, RowsDone, ObjectsDone, UnitsDone, VectorsDone, EmailsDone,
                    Withdrawals
<1>5. ASSUME Withdrawn(p) PROVE Withdrawn(p)'
  <2>1. \A s \in Refs : hold'[s] # Nil => <<s, hold'[s].state>> \in audit'
    BY <1>1, <1>3, <1>5 DEF Withdrawn
  <2>2. \A s \in Refs : hold'[s] # Nil /\ hold'[s].state = "deleted" => raw'[s] = Nil
    BY <1>1, <1>5 DEF Withdrawn
  <2>3. vector'[r] = Nil
    BY <1>1, <1>5 DEF Withdrawn, Withdrawals
  <2> HIDE DEF r
  <2> QED
    BY <1>2, <2>1, <2>2, <2>3 DEF Withdrawn
<1>6. aborts = 0 => \A s \in Refs : row'[s] # Nil => object'[s] # Nil
  BY <1>1 DEF Quiet
<1> HIDE DEF r
<1> QED
  BY <1>1, <1>4, <1>5, <1>6, QuietFrame DEF Quiet

\* The last transaction of a withdrawal settles the source, unless a record of
\* it is yet to be stored.
LEMMA QuietMark ==
    ASSUME RepairInv, NEW p \in Appliers, Quiet(p), MarkInactive(p)
    PROVE  Quiet(p)'
<1> USE DEF RepairInv, TypeInv
<1> DEFINE r == WithdrawnRef(p)
<1> DEFINE state == WithdrawnState(p)
<1>1. /\ pc[p] = "mark" /\ pc'[p] = "changes" /\ UNCHANGED <<hold, vector, raw, audit, aborts>>
      /\ row' = [row EXCEPT ![r] = IF @ = Nil THEN Nil ELSE [@ EXCEPT !.life = state]]
      /\ object' = [object EXCEPT ![r] = IF @ = Nil THEN Nil ELSE state]
      /\ unit' = [unit EXCEPT ![r] = IF @ = Nil THEN Nil ELSE [@ EXCEPT !.status = "inactive"]]
  BY DEF MarkInactive, Goto, TypeOK
<1>2. /\ r \in Refs /\ state \in InactiveStates /\ todo[p] # <<>>
      /\ Change(p).op = "upsert" => Change(p).rec # Nil
  BY <1>1 DEF Withdrawing
<1>3. /\ hold[r] # Nil /\ hold[r].state = state
  BY <1>1 DEF Applying, Withdrawals
<1>4. Change(p).op = "upsert" =>
        /\ Change(p).rec \in SourceRecord /\ Change(p).rec.ref = r
        /\ pending'[p] = Append(pending[p], Change(p).rec)
  BY <1>2, HeadIsChange, ChangeFields DEF MarkInactive, Change, TypeOK, WithdrawnRef
<1>5. Change(p).op # "upsert" => pending' = pending
  BY DEF MarkInactive
<1>6. /\ Change(p).op = "upsert" => Collected(p)' = Collected(p) \union {Change(p).rec}
      /\ Change(p).op # "upsert" => Collected(p)' = Collected(p)
  <2>1. Change(p).op # "upsert" => Collected(p)' = Collected(p)
    BY <1>5 DEF Collected
  <2>2. Change(p).op = "upsert" => Collected(p)' = Collected(p) \union {Change(p).rec}
    BY <1>4, CollectedAppend
  <2> QED
    BY <2>1, <2>2
<1>7. /\ Flux(p) = RefsOf(Collected(p)) \union {r}
      /\ Flux(p)' = RefsOf(Collected(p)')
  BY <1>1 DEF Flux, Storing, RowsDone, ObjectsDone, UnitsDone, VectorsDone, EmailsDone, Withdrawals
<1>8. RefsOf(Collected(p)) \subseteq Flux(p)'
  BY <1>6, <1>7 DEF RefsOf
<1> HIDE DEF r, state
<1>9. /\ \A s \in Refs : s # r => row'[s] = row[s] /\ object'[s] = object[s] /\ unit'[s] = unit[s]
      /\ object'[r] = IF object[r] = Nil THEN Nil ELSE state
      /\ row'[r] # Nil => row[r] # Nil /\ row'[r].life = state
      /\ unit'[r] # Nil => unit'[r].status = "inactive"
  <2>1. \A s \in Refs : s # r => row'[s] = row[s] /\ object'[s] = object[s] /\ unit'[s] = unit[s]
    BY <1>1, <1>2 DEF TypeOK
  <2>2. object'[r] = IF object[r] = Nil THEN Nil ELSE state
    BY <1>1, <1>2 DEF TypeOK
  <2>3. row'[r] # Nil => row[r] # Nil /\ row'[r].life = state
    BY <1>1, <1>2 DEF TypeOK, Row
  <2>4. unit'[r] # Nil => unit'[r].status = "inactive"
    BY <1>1, <1>2 DEF TypeOK, Unit
  <2> QED
    BY <2>1, <2>2, <2>3, <2>4
<1>10. state # "active" /\ state # Nil
  BY <1>2, NilAssumption DEF InactiveStates
<1> SUFFICES ASSUME aborts = 0 PROVE Quiet(p)'
  BY <1>1 DEF Quiet
<1>11. /\ \A s \in Refs \ Flux(p) : Settled(s)
       /\ \A s \in Refs : row[s] # Nil => object[s] # Nil
       /\ Withdrawn(p)
  BY <1>1 DEF Quiet
<1>12. vector[r] = Nil
  BY <1>1, <1>11 DEF Withdrawn, Withdrawals, r
<1>13. ASSUME NEW s \in Refs \ Flux(p)' PROVE Settled(s)'
  <2>1. CASE s = r
    <3>1. row'[r] # Nil => object'[r] = state
      BY <1>2, <1>9, <1>10, <1>11
    <3> QED
      BY <1>1, <1>3, <1>9, <1>10, <1>12, <2>1, <3>1 DEF Settled, Consistent
  <2>2. CASE s # r
    <3>1. Settled(s)
      BY <1>7, <1>8, <1>11, <1>13, <2>2
    <3> QED
      BY <1>1, <1>9, <2>2, <3>1, SettledElsewhere
  <2> QED
    BY <2>1, <2>2
<1>14. \A s \in Refs : row'[s] # Nil => object'[s] # Nil
  BY <1>2, <1>9, <1>10, <1>11
<1>15. Withdrawn(p)'
  BY <1>1, <1>11 DEF Withdrawn, Withdrawals
<1> QED
  BY <1>13, <1>14, <1>15 DEF Quiet

\* A call that collected no record leaves nothing in flux.
LEMMA QuietNothing ==
    ASSUME RepairInv, NEW p \in Appliers, Quiet(p), NothingToStore(p)
    PROVE  Quiet(p)'
<1> USE DEF RepairInv, TypeInv
<1>1. /\ pc[p] = "changes" /\ pc'[p] = "idle" /\ pending[p] = <<>> /\ aborts' = aborts
      /\ UNCHANGED tables
  BY DEF NothingToStore, Goto, TypeOK
<1>2. Flux(p) = {}
  BY <1>1, FluxOf DEF Collected, RefsOf
<1>3. Withdrawn(p) => Withdrawn(p)'
  BY <1>1 DEF Withdrawn, tables, Withdrawals
<1> QED
  BY <1>1, <1>2, <1>3, QuietFrame DEF Quiet, tables

\* A collected source of which no record is kept has no row, or its row is to
\* be replaced: another record has its source identity.
LEMMA QuietFindReplaced ==
    ASSUME NEW source, RepairInv, UnitsInv(source), NEW p \in Appliers, Quiet(p), FindReplaced(p)
    PROVE  Quiet(p)'
<1> USE DEF RepairInv, TypeInv
<1>1. /\ pc[p] = "changes" /\ pc'[p] = "rows" /\ aborts' = aborts /\ UNCHANGED tables
  BY DEF FindReplaced, Goto, TypeOK
<1>2. PICK kept \in SUBSET DOMAIN pending[p] :
        /\ IsLatest(pending[p], kept)
        /\ records' = [records EXCEPT ![p] = {pending[p][i] : i \in kept}]
        /\ replaced' = [replaced EXCEPT ![p] = ReplacedBy({pending[p][i] : i \in kept})]
  BY DEF FindReplaced
<1> DEFINE latest == {pending[p][i] : i \in kept}
<1>3. records'[p] = latest /\ replaced'[p] = ReplacedBy(latest)
  BY <1>2 DEF TypeOK
<1>4. ASSUME NEW i \in DOMAIN pending[p], row[pending[p][i].ref] # Nil
      PROVE  pending[p][i].ref \in RefsOf(latest) \union ReplacedBy(latest)
  <2> DEFINE x == pending[p][i]
  <2>1. x \in RecordsOf(source) /\ x.ref \in Refs /\ x.sid = source[x.ref]
    <3>1. pending[p] \in Seq(RecordsOf(source))
      BY DEF UnitsInv, IdentitiesKept
    <3>2. x \in RecordsOf(source)
      BY <3>1
    <3> QED
      BY <3>2 DEF RecordsOf, SourceRecord
  <2>2. \E j \in kept : SameSource(x, pending[p][j])
    BY <1>2 DEF IsLatest, SameSource
  <2>3. PICK y \in latest : SameSource(x, y)
    BY <2>2
  <2>4. CASE x.ref = y.ref
    BY <2>3, <2>4 DEF RefsOf
  <2>5. CASE x.sid = y.sid
    <3>1. row[x.ref].sid = source[x.ref]
      BY <1>4, <2>1 DEF UnitsInv, IdentitiesKept
    <3>2. x.ref \in PreviousRefs(latest)
      <4> HIDE DEF latest, x
      <4>1. row[x.ref] # Nil
        BY <1>4 DEF x
      <4> QED
        BY <2>1, <2>3, <2>5, <3>1, <4>1 DEF PreviousRefs
    <3> QED
      BY <3>2 DEF ReplacedBy
  <2> QED
    BY <2>3, <2>4, <2>5 DEF SameSource
<1>5. Flux(p) = RefsOf(Collected(p))
  BY <1>1, FluxOf
<1>6. Flux(p)' = RefsOf(latest) \union ReplacedBy(latest)
  <2> HIDE DEF latest
  <2>1. Flux(p)' = RefsOf(records'[p]) \union replaced'[p]
    BY <1>1 DEF Flux, Touched, Storing
  <2> QED
    BY <1>3, <2>1
<1>7. \A r \in Flux(p) : row[r] # Nil => r \in Flux(p)'
  BY <1>4, <1>5, <1>6 DEF RefsOf, Collected
<1> HIDE DEF latest
<1> SUFFICES ASSUME aborts = 0 PROVE Quiet(p)'
  BY <1>1 DEF Quiet
<1>8. ASSUME NEW r \in Refs \ Flux(p)' PROVE Settled(r)'
  <2>1. CASE r \in Flux(p)
    BY <1>1, <1>7, <1>8, <2>1 DEF Settled, Consistent, tables
  <2>2. CASE r \notin Flux(p)
    <3>1. Settled(r)
      BY <2>2 DEF Quiet
    <3> QED
      BY <1>1, <3>1, SettledElsewhere DEF tables
  <2> QED
    BY <2>1, <2>2
<1>9. \A r \in Refs : row'[r] # Nil => object'[r] # Nil
  BY <1>1 DEF Quiet, tables
<1>10. Withdrawn(p)'
  BY <1>1 DEF Quiet, Withdrawn, tables, Withdrawals
<1> QED
  BY <1>8, <1>9, <1>10 DEF Quiet

\* The commits of _store_active_records concern the touched sources only; a
\* file that is deleted or written is that of no source held as deleted.
LEMMA StoringElsewhere ==
    ASSUME RepairInv, NEW p \in Appliers, Files(p), Store(p), ~ FindReplaced(p), ~ Return(p)
    PROVE  /\ UNCHANGED <<hold, audit, aborts>>
           /\ \A r \in Refs \ Touched(p) :
                 /\ row'[r] = row[r] /\ object'[r] = object[r] /\ unit'[r] = unit[r]
                 /\ vector'[r] = vector[r] /\ raw'[r] = raw[r]
           /\ \A r \in Refs : hold[r] # Nil /\ raw[r] = Nil => raw'[r] = Nil
<1> USE DEF RepairInv, TypeInv
<1>1. UNCHANGED <<hold, audit, aborts>>
  BY DEF Store, StoreRows, StoreObjects, StoreLinks, ReplaceUnits, ReplaceVectors, DropRaw,
         ReadHolds, PutRaw, RawStored, DeleteEmails, tables
<1>2. CASE StoreRows(p)
  <2>1. pc[p] = "rows" /\ UNCHANGED <<object, vector, raw>>
    BY <1>2 DEF StoreRows, Goto
  <2>2. replaced[p] = ReplacedBy(records[p])
    BY <2>1 DEF Stored
  <2>3. ASSUME NEW r \in Refs \ Touched(p) PROVE row'[r] = row[r] /\ unit'[r] = unit[r]
    <3>1. r \notin RefsOf(records[p]) /\ r \notin ReplacedBy(records[p])
      BY <2>2, <2>3 DEF Touched
    <3>2. row'[r] = row[r]
      BY <1>2, <3>1 DEF StoreRows
    <3>3. r \notin {rec.ref : rec \in {x \in records[p] : RowChanged(x, records[p])}}
      BY <3>1 DEF RefsOf
    <3>4. unit'[r] = unit[r]
      BY <1>2, <3>1, <3>3 DEF StoreRows
    <3> QED
      BY <3>2, <3>4
  <2> QED
    BY <1>1, <2>1, <2>3
<1>3. CASE StoreObjects(p)
  <2>1. UNCHANGED <<row, unit, vector, raw>>
    BY <1>3 DEF StoreObjects
  <2>2. \A r \in Refs \ Touched(p) : object'[r] = object[r]
    BY <1>3 DEF StoreObjects, Touched
  <2> QED
    BY <1>1, <2>1, <2>2
<1>4. CASE ReplaceUnits(p)
  <2>1. UNCHANGED <<row, object, vector, raw>>
    BY <1>4 DEF ReplaceUnits
  <2>2. \A r \in Refs \ Touched(p) : unit'[r] = unit[r]
    BY <1>4, ActiveAreRecords DEF ReplaceUnits, Touched
  <2> QED
    BY <1>1, <2>1, <2>2
<1>5. CASE ReplaceVectors(p)
  <2>1. UNCHANGED <<row, object, unit, raw>>
    BY <1>5 DEF ReplaceVectors
  <2>2. \A r \in Refs \ Touched(p) : vector'[r] = vector[r]
    BY <1>5, ActiveAreRecords DEF ReplaceVectors, Touched
  <2> QED
    BY <1>1, <2>1, <2>2
<1>6. CASE DropRaw(p)
  <2>1. UNCHANGED <<row, object, unit, vector>>
    BY <1>6 DEF DropRaw
  <2>2. PICK s \in work[p] : raw' = [raw EXCEPT ![s] = Nil]
    BY <1>6 DEF DropRaw
  <2>3. s \in Touched(p) /\ s \in Refs
    BY <1>6 DEF DropRaw, Goto, Files, Touched, TypeOK
  <2>4. \A r \in Refs : raw'[r] = IF r = s THEN Nil ELSE raw[r]
    BY <2>2, <2>3 DEF TypeOK
  <2> QED
    BY <1>1, <2>1, <2>3, <2>4
<1>7. CASE PutRaw(p)
  <2>1. UNCHANGED <<row, object, unit, vector>>
    BY <1>7 DEF PutRaw
  <2>2. PICK s \in work[p] : raw' = [raw EXCEPT ![s] = RecordFor(s, records[p]).ver]
    BY <1>7 DEF PutRaw
  <2>3. s \in Touched(p) /\ s \in Refs /\ hold[s] = Nil
    BY <1>7, ActiveAreRecords DEF PutRaw, Goto, Files, Touched, TypeOK
  <2>4. \A r \in Refs : r # s => raw'[r] = raw[r]
    BY <2>2, <2>3 DEF TypeOK
  <2> QED
    BY <1>1, <2>1, <2>3, <2>4
<1>8. CASE StoreLinks(p) \/ ReadHolds(p) \/ RawStored(p) \/ DeleteEmails(p)
  BY <1>1, <1>8 DEF StoreLinks, ReadHolds, RawStored, DeleteEmails, tables
<1> QED
  BY <1>2, <1>3, <1>4, <1>5, <1>6, <1>7, <1>8 DEF Store

\* A stored row has its object after the transaction that follows.
LEMMA ObjectsFollowRows ==
    ASSUME RepairInv, NEW p \in Appliers, Files(p), Store(p), ~ FindReplaced(p), ~ Return(p),
           \A r \in Refs : row[r] # Nil =>
              \/ pc[p] = "objects" /\ r \in RefsOf(records[p])
              \/ object[r] # Nil
    PROVE  \A r \in Refs : row'[r] # Nil =>
              \/ pc'[p] = "objects" /\ r \in RefsOf(records'[p])
              \/ object'[r] # Nil
<1> USE DEF RepairInv, TypeInv
<1>1. ASSUME NEW r \in Refs, row'[r] # Nil, ~ (pc'[p] = "objects" /\ r \in RefsOf(records'[p]))
      PROVE  object'[r] # Nil
  <2>1. CASE StoreRows(p)
    <3>1. pc[p] = "rows" /\ pc'[p] = "objects" /\ records' = records /\ object' = object
      BY <2>1 DEF StoreRows, Goto, locals, TypeOK
    <3>2. row[r] # Nil
      BY <1>1, <2>1, <3>1 DEF StoreRows
    <3> QED
      BY <3>1, <3>2
  <2>2. CASE StoreObjects(p)
    <3>1. /\ pc[p] = "objects" /\ row' = row
          /\ object'[r] = IF r \in RefsOf(records[p])
                          THEN EffectiveLife(RecordFor(r, records[p])) ELSE object[r]
      BY <2>2 DEF StoreObjects, Goto
    <3>2. CASE r \in RefsOf(records[p])
      <4>1. RecordFor(r, records[p]) \in SourceRecord
        BY <3>2, RecordForRef DEF TypeOK
      <4> QED
        BY <3>1, <3>2, <4>1, RecordTypes, NilAssumption
    <3>3. CASE r \notin RefsOf(records[p])
      BY <1>1, <3>1, <3>3
    <3> QED
      BY <3>2, <3>3
  <2>3. CASE ~ (StoreRows(p) \/ StoreObjects(p))
    <3>1. UNCHANGED <<row, object>> /\ pc[p] # "objects"
      BY <2>3
         DEF Store, StoreLinks, ReplaceUnits, ReplaceVectors, DropRaw, ReadHolds, PutRaw,
             RawStored, DeleteEmails, Goto, tables
    <3> QED
      BY <1>1, <3>1
  <2> QED
    BY <2>1, <2>2, <2>3
<1> QED
  BY <1>1

\* What the transactions of _store_active_records change stays in flux.
LEMMA QuietStoring ==
    ASSUME RepairInv, NEW p \in Appliers, Files(p), Quiet(p), Store(p), ~ FindReplaced(p), ~ Return(p)
    PROVE  Quiet(p)'
<1> USE DEF RepairInv, TypeInv
<1>1. /\ pc[p] \in Storing /\ pc'[p] \in Storing /\ Touched(p)' = Touched(p)
  BY StoringFrame
<1>2. Flux(p) = Touched(p) /\ Flux(p)' = Touched(p)
  BY <1>1 DEF Flux
<1>3. pc[p] \notin Withdrawals /\ pc'[p] \notin Withdrawals
  BY <1>1 DEF Withdrawals, Storing, RowsDone, ObjectsDone, UnitsDone, VectorsDone, EmailsDone
<1>4. Withdrawn(p) => Withdrawn(p)'
  BY <1>3, StoringElsewhere DEF Withdrawn, Withdrawals
<1> QED
  BY <1>2, <1>4, QuietFrame, StoringElsewhere, ObjectsFollowRows DEF Quiet

\* A call that returns has settled what it touched.
LEMMA QuietReturn ==
    ASSUME RepairInv, NEW p \in Appliers, Files(p), Quiet(p), Return(p)
    PROVE  Quiet(p)'
<1> USE DEF RepairInv, TypeInv
<1>1. pc[p] = "done" /\ pc'[p] = "idle" /\ aborts' = aborts /\ UNCHANGED tables
  BY DEF Return, Goto, TypeOK
<1>2. Flux(p) = Touched(p)
  BY <1>1, FluxOf DEF Storing, RowsDone, ObjectsDone, UnitsDone, VectorsDone, EmailsDone
<1>3. ASSUME NEW r \in Touched(p) PROVE Settled(r)
  <2>1. Consistent(r)
    BY <1>1, <1>3, DoneIsConsistent DEF CompletedStoreRepairs
  <2>2. ASSUME row[r] # Nil, row[r].life = "active" PROVE raw[r] = row[r].sum.ver
    <3>1. r \notin replaced[p]
      BY <1>1, <2>2, DoneIsConsistent DEF CompletedStoreRepairs
    <3>2. PICK rec \in records[p] : rec.ref = r
      BY <1>3, <3>1 DEF Touched, RefsOf
    <3>3. row[r] = RowOf(rec)
      BY <1>1, <3>2 DEF Stored, RowsDone, ObjectsDone, UnitsDone, VectorsDone, EmailsDone
    <3>4. EffectiveLife(rec) = "active" /\ row[r].sum.ver = rec.ver
      BY <2>2, <3>3 DEF RowOf, ChecksumOf
    <3> QED
      BY <1>1, <3>2, <3>4 DEF Files, ActiveOf
  <2> QED
    BY <2>1, <2>2 DEF Settled
<1> SUFFICES ASSUME aborts = 0 PROVE Quiet(p)'
  BY <1>1 DEF Quiet
<1>4. ASSUME NEW r \in Refs PROVE Settled(r)'
  <2>1. Settled(r)
    BY <1>2, <1>3 DEF Quiet
  <2> QED
    BY <1>1, <2>1, SettledElsewhere DEF tables
<1>5. \A r \in Refs : row'[r] # Nil => object'[r] # Nil
  BY <1>1 DEF Quiet, tables
<1>6. Withdrawn(p)'
  BY <1>1 DEF Quiet, Withdrawn, tables, Withdrawals
<1> QED
  BY <1>4, <1>5, <1>6 DEF Quiet

\* Every step keeps Quiet: a failure ends the promise.
LEMMA QuietStep ==
    ASSUME NEW source, OneApplier, Appliers \subseteq RawAppliers, QuietInv(source), [Next]_vars
    PROVE  \A p \in Appliers : Quiet(p)'
<1> USE DEF QuietInv
<1>1. ASSUME NEW p \in Appliers, UNCHANGED vars PROVE Quiet(p)'
  <2>1. UNCHANGED <<tables, pc, todo, pending, records, replaced, aborts>> /\ Quiet(p)
    BY <1>1 DEF vars, locals
  <2>2. /\ Flux(p)' = Flux(p) /\ Withdrawn(p)' = Withdrawn(p)
        /\ \A r : Settled(r)' = Settled(r)
    BY <2>1 DEF Flux, Touched, RefsOf, Collected, Withdrawn, WithdrawnRef, Change, Settled,
                Consistent, tables
  <2> QED
    BY <2>1, <2>2 DEF Quiet, tables
<1>2. ASSUME NEW p \in Appliers, Begin(p) \/ Apply(p) \/ Store(p) \/ Abort(p) PROVE Quiet(p)'
  <2>0. RepairInv /\ UnitsInv(source) /\ Files(p) /\ Quiet(p)
    OBVIOUS
  <2>1. CASE Begin(p) \/ UpsertRestoring(p) \/ UpsertKeeping(p) \/ Restore(p)
    BY <2>0, <2>1, QuietBegin, QuietClear, QuietKeeping
  <2>2. CASE WithdrawUpsert(p) \/ WithdrawSource(p) \/ DeleteRaw(p) \/ RecordAudit(p)
    BY <2>0, <2>2, QuietWithdraw, QuietDeleteRaw, QuietAudit
  <2>3. CASE MarkInactive(p) \/ NothingToStore(p) \/ FindReplaced(p) \/ Return(p)
    BY <2>0, <2>3, QuietMark, QuietNothing, QuietFindReplaced, QuietReturn
  <2>4. CASE Store(p) /\ ~ FindReplaced(p) /\ ~ Return(p)
    BY <2>0, <2>4, QuietStoring
  <2>5. CASE Abort(p)
    <3>1. aborts' # 0
      BY <2>0, <2>5, ConstantsAssumption DEF Abort, RepairInv, TypeInv, TypeOK
    <3> QED
      BY <3>1 DEF Quiet
  <2> QED
    BY <1>2, <2>1, <2>2, <2>3, <2>4, <2>5 DEF Apply
<1> QED
  BY <1>1, <1>2 DEF OneApplier, Next

\* As long as applications do not overlap, each ref is delivered with one
\* source identity and the applier has a raw store, every source is consistent
\* in every table, in the raw store and in the audit log whenever no call
\* failed and none is under way.
THEOREM QuietIsConsistent ==
    ASSUME NEW source \in [Refs -> Ids], Batches \subseteq Seq(ChangesOf(source)),
           OneApplier, Appliers # {}, Appliers \subseteq RawAppliers,
           \A b \in Batches : Agreeing(b)
    PROVE  Spec => []QuietConsistency
<1>1. Init => QuietInv(source)
  <2>1. Init => UnitsInv(source)
    BY TypeInit DEF UnitsInv, Init, IdentitiesKept, OneRecordPerRef, RowsStored, UnitsMatchRows
  <2>2. Init => /\ HeldHasNoEmails
                /\ \A p \in Appliers : KnownIsHeld /\ Applying(p) /\ Stored(p)
    BY DEF Init, HeldHasNoEmails, KnownIsHeld, Applying, Stored, Loop, Withdrawals, Storing,
           RowsDone, ObjectsDone, UnitsDone, VectorsDone, EmailsDone
  <2>3. Init => \A p \in Appliers : Files(p) /\ Quiet(p)
    BY DEF Init, Files, Quiet, Settled, Consistent, Withdrawn, Withdrawals
  <2>4. Init => KnownIsHeld
    BY DEF Init, KnownIsHeld
  <2> QED
    BY <2>1, <2>2, <2>3, <2>4, TypeInit DEF QuietInv, RepairInv
<1>2. QuietInv(source) /\ [Next]_vars => QuietInv(source)'
  <2> SUFFICES ASSUME QuietInv(source), [Next]_vars PROVE QuietInv(source)'
    OBVIOUS
  <2>1. RepairInv'
    BY TypeStep, KnownStep, ApplyingStep, StoredStep DEF RepairInv, QuietInv
  <2>2. UnitsInv(source)'
    BY TypeStep, IdentitiesStep, UniqueStep, UnitsStep DEF UnitsInv, OneRecordPerRef, QuietInv
  <2>3. HeldHasNoEmails' /\ \A p \in Appliers : Files(p)' /\ Quiet(p)'
    BY EmailsStep, FilesStep, QuietStep DEF QuietInv, RepairInv
  <2> QED
    BY <2>1, <2>2, <2>3 DEF QuietInv
<1>3. QuietInv(source) => QuietConsistency
  <2> SUFFICES ASSUME QuietInv(source), Undisturbed, NEW r \in Refs
               PROVE  /\ Consistent(r)
                      /\ hold[r] # Nil => /\ <<r, hold[r].state>> \in audit
                                           /\ r \notin emails
                      /\ hold[r] # Nil /\ hold[r].state = "deleted" => raw[r] = Nil
                      /\ row[r] # Nil /\ row[r].life = "active" => raw[r] = row[r].sum.ver
    BY DEF QuietConsistency
  <2>1. PICK p \in Appliers : TRUE
    OBVIOUS
  <2>2. pc[p] = "idle" /\ aborts = 0 /\ Applying(p) /\ Quiet(p)
    BY DEF Undisturbed, AllIdle, QuietInv, RepairInv
  <2>3. Flux(p) = {}
    BY <2>2, FluxOf DEF Applying, Collected, RefsOf
  <2>4. Settled(r) /\ Withdrawn(p)
    BY <2>2, <2>3 DEF Quiet
  <2> QED
    BY <2>2, <2>4 DEF Settled, Withdrawn, HeldHasNoEmails, QuietInv
<1> QED
  BY <1>1, <1>2, <1>3, PTL DEF Spec
=============================================================================
