----------------------------- MODULE ImportProofs -----------------------------
(***************************************************************************)
(* Theorems about how sources are imported: SnapshotImport, Taps and       *)
(* Preparation.  They share no more than Nil.                              *)
(***************************************************************************)
EXTENDS SnapshotImport, Taps, Preparation, FiniteSetTheorems, SequenceTheorems,
        NaturalsInduction, WellFoundedInduction, TLAPS

-----------------------------------------------------------------------------
(* Snapshot imports *)

-----------------------------------------------------------------------------
(* Types *)

\* What a run that ends leaves of its local variables.
LEMMA ForgetTypes ==
    ASSUME TypeOK, NEW i \in Runs, Forget(i)
    PROVE  /\ page' \in [Runs -> 1..(Pages + 1)] /\ got' \in [Runs -> Nat]
           /\ fetched' \in [Runs -> Listing] /\ cleaned' \in [Runs -> BOOLEAN]
           /\ left' \in [Runs -> SUBSET Listable] /\ loaded' \in [Runs -> Listing]
           /\ doomed' \in [Runs -> SUBSET Listable]
           /\ seen' \in [Runs -> [Listable -> SUBSET (Versions \union {Nil})]]
<1>1. Empty \in Listing
  BY DEF Empty, Listing
<1>2. 1 \in 1..(Pages + 1) /\ [r \in Listable |-> {}] \in [Listable -> SUBSET (Versions \union {Nil})]
  BY SnapshotAssumption
<1> QED
  BY <1>1, <1>2 DEF Forget, TypeOK

LEMMA StoreTypes ==
    ASSUME TypeOK, NEW upserted, NEW deleted, NEW version \in Listing,
           Store(upserted, deleted, version)
    PROVE  stored' \in Listing /\ held' \in [Listable -> {Nil, "missing", "restricted", "deleted"}]
BY DEF Store, TypeOK, Listing, Lifted

LEMMA TypeInit == SnapshotInit => TypeOK
<1> SUFFICES ASSUME SnapshotInit PROVE TypeOK
  OBVIOUS
<1>1. Empty \in Listing /\ listing \in Listing
  BY SnapshotAssumption DEF SnapshotInit, Empty, Listing, Versions
<1>2. 1 \in 1..(Pages + 1) /\ 0 \in Versions
  BY SnapshotAssumption DEF Versions
<1>3. held \in [Listable -> {Nil, "missing", "restricted", "deleted"}]
  BY DEF SnapshotInit, Empty
<1> QED
  BY <1>1, <1>2, <1>3, SnapshotAssumption DEF SnapshotInit, TypeOK

LEMMA ExtractTypes ==
    ASSUME TypeOK, NEW i \in Runs, Extract(i) \/ TapFails(i) \/ Die(i)
    PROVE  TypeOK'
<1>1. Empty \in Listing
  BY DEF Empty, Listing
<1>2. CASE Start(i)
  <2>1. [r \in Listable |-> {listing[r]}] \in [Listable -> SUBSET (Versions \union {Nil})]
    BY DEF TypeOK, Listing
  <2> QED
    BY <1>2, <2>1 DEF Start, Goto, TypeOK, provider, index
<1>3. CASE Unlink(i)
  BY <1>1, <1>3 DEF Unlink, TypeOK, provider, index
<1>4. CASE Fetch(i)
  <2> DEFINE r == RefOn[page[i]]
  <2>1. page[i] + 1 \in 1..(Pages + 1) /\ got[i] + 1 \in Nat
    BY <1>4, SnapshotAssumption DEF Fetch, TypeOK
  <2>2. [fetched[i] EXCEPT ![r] = listing[r]] \in Listing
    <3>1. r \in Listable
      BY <1>4, SnapshotAssumption DEF Fetch, TypeOK
    <3> QED
      BY <3>1 DEF TypeOK, Listing
  <2>3. page' \in [Runs -> 1..(Pages + 1)] /\ got' \in [Runs -> Nat]
    BY <1>4, <2>1 DEF Fetch, TypeOK
  <2>4. fetched' \in [Runs -> Listing]
    <3>1. fetched' = fetched \/ fetched' = [fetched EXCEPT ![i] = [fetched[i] EXCEPT ![r] = listing[r]]]
      BY <1>4 DEF Fetch
    <3> HIDE DEF r
    <3> QED
      BY <2>2, <3>1 DEF TypeOK
  <2> QED
    BY <1>4, <2>3, <2>4 DEF Fetch, TypeOK, provider, index
<1>5. CASE Send(i)
  BY <1>5 DEF Send, Goto, TypeOK, provider, index
<1>6. CASE Land(i)
  <2>1. PICK r \in left[i] : landing' = [landing EXCEPT ![r] = fetched[i][r]]
    BY <1>6 DEF Land
  <2>2. landing' \in Listing
    BY <2>1 DEF TypeOK, Listing
  <2>3. left' \in [Runs -> SUBSET Listable]
    BY <1>6 DEF Land, TypeOK
  <2> QED
    BY <1>6, <2>2, <2>3 DEF Land, TypeOK, provider, index
<1>7. CASE TapFails(i)
  BY <1>1, <1>7, ForgetTypes, SnapshotAssumption DEF TapFails, Goto, TypeOK, provider, index
<1>8. CASE Die(i)
  BY <1>8, ForgetTypes, SnapshotAssumption DEF Die, Goto, TypeOK, provider, index
<1> QED
  BY <1>2, <1>3, <1>4, <1>5, <1>6, <1>7, <1>8 DEF Extract

LEMMA ImportTypes ==
    ASSUME TypeOK, NEW i \in Runs, ImportStep(i)
    PROVE  TypeOK'
<1>1. CASE Load(i)
  BY <1>1 DEF Load, Goto, TypeOK, provider, index
<1>2. CASE ReadRows(i)
  <2>1. MissingRefs(loaded[i]) \in SUBSET Listable
    BY DEF MissingRefs
  <2> QED
    BY <1>2, <2>1 DEF ReadRows, Goto, TypeOK, provider, index
<1>3. CASE Apply(i)
  <2>1. loaded[i] \in Listing
    BY DEF TypeOK
  <2>2. stored' \in Listing /\ held' \in [Listable -> {Nil, "missing", "restricted", "deleted"}]
    BY <1>3, <2>1, StoreTypes DEF Apply
  <2> QED
    BY <1>3, <2>2, ForgetTypes DEF Apply, Goto, TypeOK, provider
<1> QED
  BY <1>1, <1>2, <1>3 DEF ImportStep

LEMMA OutsideTypes ==
    ASSUME TypeOK, NEW r \in Listable,
           \/ Edit(r) \/ Notify(r) \/ ApplyEvent(r) \/ Restore(r)
           \/ \E state \in {"restricted", "deleted"} : Withdraw(r, state)
    PROVE  TypeOK'
<1>1. CASE Edit(r)
  <2>1. edits + 1 \in Versions
    BY <1>1, SnapshotAssumption DEF Edit, TypeOK, Versions
  <2>2. listing' \in Listing
    BY <1>1, <2>1 DEF Edit, TypeOK, Listing
  <2>3. seen' \in [Runs -> [Listable -> SUBSET (Versions \union {Nil})]]
    <3>1. listing'[r] \in Versions \union {Nil}
      BY <2>2 DEF Listing
    <3>2. \A i \in Runs : [seen[i] EXCEPT ![r] = @ \union {listing'[r]}]
                            \in [Listable -> SUBSET (Versions \union {Nil})]
      BY <3>1 DEF TypeOK
    <3> QED
      BY <1>1, <3>2 DEF Edit, TypeOK
  <2>4. order' \in [Listable -> {"none", "stands", "excused"}]
    BY <1>1 DEF Edit, TypeOK
  <2> QED
    BY <1>1, <2>1, <2>2, <2>3, <2>4 DEF Edit, TypeOK, index, locals
<1>2. CASE Notify(r)
  BY <1>2 DEF Notify, TypeOK, Listing, index, locals
<1>3. CASE ApplyEvent(r)
  <2>1. event \in Listing
    BY DEF TypeOK
  <2>2. stored' \in Listing /\ held' \in [Listable -> {Nil, "missing", "restricted", "deleted"}]
    BY <1>3, <2>1, StoreTypes DEF ApplyEvent
  <2>3. event' \in Listing
    BY <1>3 DEF ApplyEvent, TypeOK, Listing
  <2> QED
    BY <1>3, <2>2, <2>3 DEF ApplyEvent, TypeOK, locals
<1>4. CASE Restore(r)
  BY <1>4 DEF Restore, TypeOK, provider, locals
<1>5. ASSUME NEW state \in {"restricted", "deleted"}, Withdraw(r, state) PROVE TypeOK'
  <2>1. held' \in [Listable -> {Nil, "missing", "restricted", "deleted"}]
    BY <1>5 DEF Withdraw, TypeOK
  <2>2. order' \in [Listable -> {"none", "stands", "excused"}]
    BY <1>5 DEF Withdraw, TypeOK
  <2> QED
    BY <1>5, <2>1, <2>2, SnapshotAssumption DEF Withdraw, TypeOK, provider, locals
<1> QED
  BY <1>1, <1>2, <1>3, <1>4, <1>5

LEMMA TypeStep == TypeOK /\ [SnapshotNext]_snapshotVars => TypeOK'
<1> SUFFICES ASSUME TypeOK, [SnapshotNext]_snapshotVars PROVE TypeOK'
  OBVIOUS
<1>1. CASE UNCHANGED snapshotVars
  BY <1>1 DEF snapshotVars, provider, index, locals, TypeOK
<1> QED
  BY <1>1, ExtractTypes, ImportTypes, OutsideTypes DEF SnapshotNext

\* The tables, the landing files and the runs' local variables keep their types.
THEOREM SnapshotTypeCorrect == SnapshotSpec => []TypeOK
  BY TypeInit, TypeStep, PTL DEF SnapshotSpec

-----------------------------------------------------------------------------
(* What a run knows *)

\* No two runs are under way at a time.
OneRun == \A i, j \in Runs : i = j

\* The limit is beyond what the provider can list.
NothingCutOff == Pages <= Limit

IdleForgets ==
    \A i \in Runs : pc[i] = "idle" =>
        page[i] = 1 /\ got[i] = 0 /\ fetched[i] = Empty /\ ~ cleaned[i]

ListingIsSeen == \A i \in Active : \A r \in Listable : listing[r] \in seen[i][r]

\* What is fetched so far was listed when it was fetched.
FetchedIsSeen ==
    \A i \in Runs : pc[i] = "fetch" =>
        /\ got[i] < page[i]
        /\ \A k \in 1..Pages : IF k < page[i] THEN fetched[i][RefOn[k]] \in seen[i][RefOn[k]]
                               ELSE fetched[i][RefOn[k]] = Nil
        /\ cleaned[i] => landing = Empty

\* What the target has written is what it was sent.
LandedIsFetched ==
    \A i \in Runs : pc[i] = "land" =>
        \A r \in Listable :
            /\ fetched[i][r] \in seen[i][r]
            /\ r \notin left[i] => landing[r] = fetched[i][r]

SnapshotInv ==
    TypeOK /\ IdleForgets /\ ListingIsSeen /\ FetchedIsSeen /\ LandedIsFetched /\ SnapshotIsRecent

LEMMA StartIsSound == SnapshotInit => SnapshotInv
BY TypeInit DEF SnapshotInit, SnapshotInv, IdleForgets, ListingIsSeen, Active, FetchedIsSeen, LandedIsFetched,
   SnapshotIsRecent

LEMMA ForgetValues ==
    ASSUME TypeOK, NEW i \in Runs, Forget(i)
    PROVE  page'[i] = 1 /\ got'[i] = 0 /\ fetched'[i] = Empty /\ ~ cleaned'[i]
BY DEF Forget, TypeOK

\* A step of the only run.
LEMMA ExtractKeepsSnapshot ==
    ASSUME OneRun, NothingCutOff, SnapshotInv, NEW i \in Runs, Extract(i)
    PROVE  SnapshotInv'
<1> USE DEF OneRun
<1>0. TypeOK /\ TypeOK'
  BY ExtractTypes DEF SnapshotInv
<1>1. CASE Start(i)
  <2>1. pc'[i] = "fetch" /\ \A r \in Listable : listing'[r] \in seen'[i][r]
    BY <1>0, <1>1 DEF Start, Goto, TypeOK, provider
  <2>2. page'[i] = 1 /\ got'[i] = 0 /\ fetched'[i] = Empty /\ ~ cleaned'[i]
    BY <1>1 DEF Start, Goto, SnapshotInv, IdleForgets
  <2>3. FetchedIsSeen'
    BY <2>1, <2>2, SnapshotAssumption DEF FetchedIsSeen, Empty
  <2> QED
    BY <1>0, <2>1, <2>2, <2>3 DEF SnapshotInv, IdleForgets, ListingIsSeen, Active, LandedIsFetched,
       SnapshotIsRecent
<1>2. CASE Unlink(i)
  <2>1. /\ pc[i] = "fetch" /\ pc' = pc /\ landing' = Empty
        /\ UNCHANGED <<listing, page, got, fetched, seen>>
    BY <1>2 DEF Unlink, provider
  <2> QED
    BY <1>0, <2>1 DEF SnapshotInv, IdleForgets, ListingIsSeen, Active, FetchedIsSeen, LandedIsFetched,
       SnapshotIsRecent
<1>3. CASE Fetch(i)
  <2> DEFINE r == RefOn[page[i]]
  <2>1. /\ pc[i] = "fetch" /\ pc' = pc /\ page[i] \in 1..Pages /\ page'[i] = page[i] + 1
        /\ UNCHANGED <<listing, landing, cleaned, seen>>
    BY <1>0, <1>3, SnapshotAssumption DEF Fetch, TypeOK, provider
  <2>2. r \in Listable /\ listing[r] \in seen[i][r] /\ fetched[i][r] = Nil
    BY <2>1, SnapshotAssumption DEF SnapshotInv, ListingIsSeen, Active, FetchedIsSeen
  <2>3. got[i] < Limit /\ got[i] \in Nat
    BY <1>0, <2>1, SnapshotAssumption DEF SnapshotInv, FetchedIsSeen, TypeOK, NothingCutOff
  <2>4. CASE listing[r] # Nil
    <3>1. got' = [got EXCEPT ![i] = @ + 1] /\ fetched' = [fetched EXCEPT ![i][r] = listing[r]]
      BY <1>3, <2>3, <2>4 DEF Fetch
    <3>2. got'[i] = got[i] + 1
      BY <1>0, <3>1 DEF TypeOK
    <3>3. fetched'[i][r] = listing[r] /\ \A q \in Listable \ {r} : fetched'[i][q] = fetched[i][q]
      BY <1>0, <2>2, <3>1 DEF TypeOK, Listing
    <3>4. \A k \in 1..Pages : k # page[i] => RefOn[k] \in Listable \ {r}
      BY <2>1, SnapshotAssumption
    <3>5. got'[i] < page'[i]
      BY <1>0, <2>1, <2>3, <3>2 DEF SnapshotInv, FetchedIsSeen, TypeOK
    <3>6. ASSUME NEW k \in 1..Pages
          PROVE  IF k < page'[i] THEN fetched'[i][RefOn[k]] \in seen'[i][RefOn[k]]
                 ELSE fetched'[i][RefOn[k]] = Nil
      <4>1. CASE k = page[i]
        BY <2>1, <2>2, <3>3, <4>1
      <4>2. CASE k # page[i]
        <5>1. fetched'[i][RefOn[k]] = fetched[i][RefOn[k]]
          BY <3>3, <3>4, <4>2
        <5>2. (k < page'[i]) = (k < page[i])
          BY <2>1, <4>2, SnapshotAssumption
        <5> HIDE DEF r
        <5> QED
          BY <2>1, <5>1, <5>2 DEF SnapshotInv, FetchedIsSeen
      <4> QED
        BY <4>1, <4>2
    <3>7. FetchedIsSeen'
      BY <2>1, <3>5, <3>6 DEF SnapshotInv, FetchedIsSeen
    <3> HIDE DEF r
    <3> QED
      BY <1>0, <2>1, <3>7, <1>3 DEF SnapshotInv, IdleForgets, ListingIsSeen, Active, LandedIsFetched,
         SnapshotIsRecent, Fetch
  <2>5. CASE listing[r] = Nil
    <3>1. UNCHANGED <<got, fetched, loaded>>
      BY <1>3, <2>5 DEF Fetch
    <3>2. got'[i] < page'[i]
      BY <1>0, <2>1, <2>3, <3>1 DEF SnapshotInv, FetchedIsSeen, TypeOK
    <3>3. ASSUME NEW k \in 1..Pages
          PROVE  IF k < page'[i] THEN fetched'[i][RefOn[k]] \in seen'[i][RefOn[k]]
                 ELSE fetched'[i][RefOn[k]] = Nil
      <4>1. CASE k = page[i]
        BY <2>1, <2>2, <2>5, <3>1, <4>1
      <4>2. CASE k # page[i]
        <5>1. (k < page'[i]) = (k < page[i])
          BY <2>1, <4>2, SnapshotAssumption
        <5> HIDE DEF r
        <5> QED
          BY <2>1, <3>1, <5>1 DEF SnapshotInv, FetchedIsSeen
      <4> QED
        BY <4>1, <4>2
    <3>4. FetchedIsSeen'
      BY <2>1, <3>2, <3>3 DEF SnapshotInv, FetchedIsSeen
    <3> HIDE DEF r
    <3> QED
      BY <1>0, <2>1, <3>1, <3>4 DEF SnapshotInv, IdleForgets, ListingIsSeen, Active, LandedIsFetched,
         SnapshotIsRecent
  <2> QED
    BY <2>4, <2>5
<1>4. CASE Send(i)
  <2>1. /\ pc[i] = "fetch" /\ pc'[i] = "land" /\ page[i] > Pages /\ landing = Empty
        /\ left'[i] = {r \in Listable : fetched[i][r] # Nil}
        /\ UNCHANGED <<listing, landing, fetched, seen>>
    BY <1>0, <1>4 DEF Send, Goto, TypeOK, SnapshotInv, FetchedIsSeen, provider
  <2>2. \A r \in Listable : fetched[i][r] \in seen[i][r]
    <3>1. TAKE r \in Listable
    <3>2. PICK k \in 1..Pages : RefOn[k] = r
      BY SnapshotAssumption
    <3>3. k < page[i]
      BY <1>0, <2>1, SnapshotAssumption DEF TypeOK
    <3> QED
      BY <2>1, <3>2, <3>3 DEF SnapshotInv, FetchedIsSeen
  <2>3. LandedIsFetched'
    BY <2>1, <2>2 DEF LandedIsFetched, Empty
  <2> QED
    BY <1>0, <2>1, <2>3 DEF SnapshotInv, IdleForgets, ListingIsSeen, Active, FetchedIsSeen, SnapshotIsRecent
<1>5. CASE Land(i)
  <2>1. PICK r \in left[i] : /\ landing' = [landing EXCEPT ![r] = fetched[i][r]]
                             /\ left' = [left EXCEPT ![i] = @ \ {r}]
    BY <1>5 DEF Land
  <2>2. pc[i] = "land" /\ pc' = pc /\ UNCHANGED <<listing, fetched, seen>>
    BY <1>5 DEF Land, provider
  <2>3. LandedIsFetched'
    BY <1>0, <2>1, <2>2 DEF SnapshotInv, LandedIsFetched, TypeOK, Listing
  <2> QED
    BY <1>0, <2>2, <2>3 DEF SnapshotInv, IdleForgets, ListingIsSeen, Active, FetchedIsSeen, SnapshotIsRecent
<1> QED
  BY <1>1, <1>2, <1>3, <1>4, <1>5 DEF Extract

LEMMA ImportKeepsSnapshot ==
    ASSUME OneRun, SnapshotInv, NEW i \in Runs, ImportStep(i) \/ TapFails(i) \/ Die(i)
    PROVE  SnapshotInv'
<1> USE DEF OneRun
<1>1. TypeOK /\ TypeOK'
  BY ImportTypes, ExtractTypes DEF SnapshotInv
<1>2. CASE Load(i)
  <2>1. /\ pc[i] = "land" /\ pc'[i] = "read" /\ left[i] = {} /\ loaded'[i] = landing
        /\ UNCHANGED <<listing, seen>>
    BY <1>1, <1>2 DEF Load, Goto, TypeOK, provider
  <2>2. \A r \in Listable : loaded'[i][r] \in seen'[i][r]
    BY <2>1 DEF SnapshotInv, LandedIsFetched
  <2> QED
    BY <1>1, <2>1, <2>2 DEF SnapshotInv, IdleForgets, ListingIsSeen, Active, FetchedIsSeen,
       LandedIsFetched, SnapshotIsRecent
<1>3. CASE ReadRows(i)
  <2>1. /\ pc[i] = "read" /\ pc'[i] = "apply"
        /\ UNCHANGED <<listing, seen, loaded>>
    BY <1>1, <1>3 DEF ReadRows, Goto, TypeOK, provider
  <2> QED
    BY <1>1, <2>1 DEF SnapshotInv, IdleForgets, ListingIsSeen, Active, FetchedIsSeen,
       LandedIsFetched, SnapshotIsRecent
<1>4. CASE Apply(i) \/ TapFails(i) \/ Die(i)
  <2>1. pc'[i] = "idle" /\ Forget(i)
    BY <1>1, <1>4 DEF Apply, TapFails, Die, Goto, TypeOK
  <2> QED
    BY <1>1, <2>1, ForgetValues DEF SnapshotInv, IdleForgets, ListingIsSeen, Active, FetchedIsSeen,
       LandedIsFetched, SnapshotIsRecent
<1> QED
  BY <1>2, <1>3, <1>4 DEF ImportStep

LEMMA EditKeepsSnapshot ==
    ASSUME SnapshotInv, NEW r \in Listable, Edit(r)
    PROVE  SnapshotInv'
<1>1. TypeOK /\ TypeOK' /\ pc' = pc
  BY OutsideTypes DEF SnapshotInv, Edit, locals
<1>2. \A q \in Listable \ {r} : listing'[q] = listing[q]
  BY <1>1 DEF Edit, TypeOK, Listing
<1>3. \A i \in Active : listing'[r] \in seen'[i][r]
  BY <1>1 DEF Edit, TypeOK, Active
<1>4. \A i \in Runs, q \in Listable : seen[i][q] \subseteq seen'[i][q]
  BY <1>1 DEF Edit, TypeOK
<1>5. ListingIsSeen'
  BY <1>1, <1>2, <1>3, <1>4 DEF SnapshotInv, ListingIsSeen, Active
<1>6. UNCHANGED <<pc, page, got, fetched, cleaned, left, loaded, landing>>
  BY DEF Edit, locals
<1>7. \A k \in 1..Pages : RefOn[k] \in Listable
  BY SnapshotAssumption
<1>8. FetchedIsSeen'
  BY <1>4, <1>6, <1>7 DEF SnapshotInv, FetchedIsSeen
<1>9. LandedIsFetched' /\ SnapshotIsRecent' /\ IdleForgets'
  BY <1>4, <1>6 DEF SnapshotInv, LandedIsFetched, SnapshotIsRecent, IdleForgets
<1> QED
  BY <1>1, <1>5, <1>8, <1>9 DEF SnapshotInv

LEMMA SnapshotStep == OneRun /\ NothingCutOff /\ SnapshotInv /\ [SnapshotNext]_snapshotVars => SnapshotInv'
<1> SUFFICES ASSUME OneRun, NothingCutOff, SnapshotInv, [SnapshotNext]_snapshotVars PROVE SnapshotInv'
  OBVIOUS
<1>1. TypeOK'
  BY TypeStep DEF SnapshotInv
<1>2. CASE UNCHANGED <<listing, landing, locals, seen>>
  BY <1>1, <1>2 DEF locals, SnapshotInv, IdleForgets, ListingIsSeen, Active, FetchedIsSeen,
     LandedIsFetched, SnapshotIsRecent
<1>3. CASE UNCHANGED snapshotVars
  BY <1>2, <1>3 DEF snapshotVars, provider
<1>4. ASSUME NEW r \in Listable, Notify(r) \/ ApplyEvent(r) \/ Restore(r)
             \/ \E state \in {"restricted", "deleted"} : Withdraw(r, state)
      PROVE  SnapshotInv'
  BY <1>2, <1>4 DEF Notify, ApplyEvent, Restore, Withdraw, provider
<1> QED
  BY <1>3, <1>4, ExtractKeepsSnapshot, ImportKeepsSnapshot, EditKeepsSnapshot DEF SnapshotNext

\* When runs do not overlap and the limit cuts nothing off, what an import is about
\* to apply was true of the provider while the run was under way, wherever earlier
\* runs failed or died.
THEOREM SnapshotsAreRecent == OneRun /\ NothingCutOff => (SnapshotSpec => []SnapshotIsRecent)
<1> SUFFICES ASSUME OneRun, NothingCutOff PROVE SnapshotSpec => []SnapshotIsRecent
  OBVIOUS
<1>1. SnapshotInv /\ [SnapshotNext]_snapshotVars => SnapshotInv'
  BY SnapshotStep
<1>2. SnapshotInv => SnapshotIsRecent
  BY DEF SnapshotInv
<1> QED
  BY <1>1, <1>2, StartIsSound, PTL DEF SnapshotSpec

-----------------------------------------------------------------------------
(* An operator's orders *)

\* A run decides to delete only what its snapshot lacks, and nothing before.
DoomedAreMissing ==
    \A i \in Runs : IF pc[i] = "apply" THEN \A r \in doomed[i] : loaded[i][r] = Nil
                    ELSE doomed[i] = {}

\* No run under way can lift a restriction that stands, or has decided to replace
\* a deletion that stands.
OrdersAreSafe ==
    \A r \in Listable : order[r] = "stands" =>
        \/ /\ held[r] = "restricted" /\ listing[r] # Nil
           /\ \A i \in Active : Nil \notin seen[i][r]
        \/ held[r] = "deleted" /\ \A i \in Runs : r \notin doomed[i]

OrdersInv == SnapshotInv /\ DoomedAreMissing /\ OrdersAreSafe

LEMMA OrdersInit == SnapshotInit => OrdersInv
BY StartIsSound DEF SnapshotInit, OrdersInv, DoomedAreMissing, OrdersAreSafe

LEMMA StoreKeepsOrders ==
    ASSUME TypeOK, NEW upserted, NEW deleted, NEW version, Store(upserted, deleted, version),
           NEW r \in Listable, held[r] \in {"restricted", "deleted"}, r \notin deleted
    PROVE  held'[r] = held[r]
BY DEF Store, Lifted

LEMMA RunKeepsOrders ==
    ASSUME OneRun, NothingCutOff, OrdersInv, NEW i \in Runs,
           Extract(i) \/ ImportStep(i) \/ TapFails(i) \/ Die(i)
    PROVE  OrdersInv'
<1>1. SnapshotInv' /\ TypeOK /\ TypeOK'
  BY ExtractKeepsSnapshot, ImportKeepsSnapshot DEF OrdersInv, SnapshotInv
<1> USE DEF OneRun
<1>2. CASE Start(i)
  <2>1. /\ pc'[i] = "fetch" /\ pc[i] = "idle" /\ seen'[i] = [r \in Listable |-> {listing[r]}]
        /\ UNCHANGED <<listing, held, order, doomed>>
    BY <1>1, <1>2 DEF Start, Goto, TypeOK, provider, index
  <2> QED
    BY <1>1, <2>1 DEF OrdersInv, DoomedAreMissing, OrdersAreSafe, Active
<1>3. CASE Unlink(i) \/ Fetch(i) \/ Send(i) \/ Land(i) \/ Load(i)
  <2>1. /\ pc[i] \in {"fetch", "land"} /\ pc'[i] \in {"fetch", "land", "read"}
        /\ UNCHANGED <<listing, held, order, doomed, seen>>
    BY <1>1, <1>3 DEF Unlink, Fetch, Send, Land, Load, Goto, TypeOK, provider, index
  <2> QED
    BY <1>1, <2>1 DEF OrdersInv, DoomedAreMissing, OrdersAreSafe, Active
<1>4. CASE ReadRows(i)
  <2>1. /\ pc[i] = "read" /\ pc'[i] = "apply" /\ doomed'[i] = MissingRefs(loaded[i])
        /\ UNCHANGED <<listing, held, order, loaded, seen>>
    BY <1>1, <1>4 DEF ReadRows, Goto, TypeOK, provider, index
  <2> QED
    BY <1>1, <2>1 DEF OrdersInv, DoomedAreMissing, OrdersAreSafe, Active, MissingRefs
<1>5. CASE Apply(i)
  <2>1. /\ pc[i] = "apply" /\ pc'[i] = "idle" /\ doomed'[i] = {}
        /\ Store({r \in Listable : loaded[i][r] # Nil}, doomed[i], loaded[i])
        /\ UNCHANGED <<listing, order>>
    BY <1>1, <1>5 DEF Apply, Goto, Forget, TypeOK, provider
  <2>2. ASSUME NEW r \in Listable, order[r] = "stands"
        PROVE  held'[r] = held[r]
    <3>1. held[r] \in {"restricted", "deleted"}
      BY <2>2 DEF OrdersInv, OrdersAreSafe
    <3>2. r \notin doomed[i]
      <4>1. loaded[i][r] \in seen[i][r]
        BY <2>1 DEF OrdersInv, SnapshotInv, SnapshotIsRecent
      <4> QED
        BY <2>1, <2>2, <4>1 DEF OrdersInv, OrdersAreSafe, DoomedAreMissing, Active
    <3> QED
      BY <1>1, <2>1, <3>1, <3>2, StoreKeepsOrders
  <2> QED
    BY <1>1, <2>1, <2>2 DEF OrdersInv, DoomedAreMissing, OrdersAreSafe, Active
<1>6. CASE TapFails(i) \/ Die(i)
  <2>1. pc'[i] = "idle" /\ doomed'[i] = {} /\ UNCHANGED <<listing, held, order>>
    BY <1>1, <1>6 DEF TapFails, Die, Goto, Forget, TypeOK, provider, index
  <2> QED
    BY <1>1, <2>1 DEF OrdersInv, DoomedAreMissing, OrdersAreSafe, Active
<1> QED
  BY <1>2, <1>3, <1>4, <1>5, <1>6 DEF Extract, ImportStep

LEMMA EditKeepsOrders ==
    ASSUME OrdersInv, NEW q \in Listable, Edit(q)
    PROVE  OrdersInv'
<1>1. SnapshotInv' /\ TypeOK
  BY EditKeepsSnapshot DEF OrdersInv, SnapshotInv
<1>2. UNCHANGED <<pc, held, doomed, loaded>>
  BY DEF Edit, locals, index
<1>3. DoomedAreMissing'
  BY <1>2 DEF OrdersInv, DoomedAreMissing
<1>4. ASSUME NEW r \in Listable \ {q}
      PROVE  /\ order'[r] = order[r] /\ listing'[r] = listing[r]
             /\ \A i \in Runs : seen'[i][r] = seen[i][r]
  BY <1>1 DEF Edit, TypeOK, Listing
<1>5. ASSUME order'[q] = "stands"
      PROVE  /\ order[q] = "stands"
             /\ held[q] = "restricted" =>
                    listing'[q] # Nil /\ \A i \in Active : Nil \notin seen[i][q] => Nil \notin seen'[i][q]
  <2>1. order[q] = "stands" /\ (held[q] = "restricted" => listing'[q] # Nil)
    BY <1>1, <1>5 DEF Edit, TypeOK
  <2>2. \A i \in Active : seen'[i][q] = seen[i][q] \union {listing'[q]}
    BY <1>1 DEF Edit, TypeOK, Active
  <2> QED
    BY <2>1, <2>2
<1>6. ASSUME NEW r \in Listable, order'[r] = "stands"
      PROVE  \/ /\ held'[r] = "restricted" /\ listing'[r] # Nil
                /\ \A i \in Active' : Nil \notin seen'[i][r]
             \/ held'[r] = "deleted" /\ \A i \in Runs : r \notin doomed'[i]
  <2>1. Active' = Active
    BY <1>2 DEF Active
  <2>2. CASE r = q
    BY <1>2, <1>5, <1>6, <2>1, <2>2 DEF OrdersInv, OrdersAreSafe
  <2>3. CASE r # q
    BY <1>2, <1>4, <1>6, <2>1, <2>3 DEF OrdersInv, OrdersAreSafe, Active
  <2> QED
    BY <2>2, <2>3
<1> QED
  BY <1>1, <1>3, <1>6 DEF OrdersInv, OrdersAreSafe

LEMMA OutsideKeepsOrders ==
    ASSUME OneRun, NothingCutOff, OrdersInv, [SnapshotNext]_snapshotVars, NEW q \in Listable,
           \/ Notify(q) \/ ApplyEvent(q) \/ Restore(q)
           \/ \E state \in {"restricted", "deleted"} : Withdraw(q, state)
    PROVE  OrdersInv'
<1>1. SnapshotInv' /\ TypeOK
  BY SnapshotStep DEF OrdersInv, SnapshotInv
<1>2. UNCHANGED <<listing, pc, doomed, loaded, seen>>
  BY DEF Notify, ApplyEvent, Restore, Withdraw, provider, locals
<1>3. DoomedAreMissing' /\ Active' = Active
  BY <1>2 DEF OrdersInv, DoomedAreMissing, Active
<1>4. CASE Notify(q)
  BY <1>1, <1>2, <1>3, <1>4 DEF Notify, OrdersInv, OrdersAreSafe, index
<1>5. CASE ApplyEvent(q)
  <2>1. Store({q}, {}, event) /\ order' = order
    BY <1>5 DEF ApplyEvent
  <2>2. \A r \in Listable : order[r] = "stands" => held'[r] = held[r]
    BY <1>1, <2>1, StoreKeepsOrders DEF OrdersInv, OrdersAreSafe
  <2> QED
    BY <1>1, <1>2, <1>3, <2>1, <2>2 DEF OrdersInv, OrdersAreSafe
<1>6. CASE Restore(q)
  <2>1. order'[q] = "none" /\ \A r \in Listable \ {q} : order'[r] = order[r] /\ held'[r] = held[r]
    BY <1>1, <1>6 DEF Restore, TypeOK
  <2> QED
    BY <1>1, <1>2, <1>3, <2>1 DEF OrdersInv, OrdersAreSafe
<1>7. ASSUME NEW state \in {"restricted", "deleted"}, Withdraw(q, state) PROVE OrdersInv'
  <2>1. /\ held'[q] = state
        /\ \A r \in Listable \ {q} : order'[r] = order[r] /\ held'[r] = held[r]
    BY <1>1, <1>7 DEF Withdraw, TypeOK
  <2>2. ASSUME order'[q] = "stands"
        PROVE  /\ state = "restricted" => listing[q] # Nil /\ \A i \in Active : Nil \notin seen[i][q]
               /\ state = "deleted" => \A i \in Active : q \notin doomed[i]
    BY <1>1, <1>7, <2>2 DEF Withdraw, TypeOK
  <2>3. \A i \in Runs \ Active : doomed[i] = {}
    BY DEF OrdersInv, DoomedAreMissing, Active
  <2> QED
    BY <1>1, <1>2, <1>3, <2>1, <2>2, <2>3 DEF OrdersInv, OrdersAreSafe
<1> QED
  BY <1>4, <1>5, <1>6, <1>7

LEMMA OrdersStep == OneRun /\ NothingCutOff /\ OrdersInv /\ [SnapshotNext]_snapshotVars => OrdersInv'
<1> SUFFICES ASSUME OneRun, NothingCutOff, OrdersInv, [SnapshotNext]_snapshotVars PROVE OrdersInv'
  OBVIOUS
<1>1. CASE UNCHANGED snapshotVars
  <2>1. SnapshotInv'
    BY SnapshotStep DEF OrdersInv
  <2> QED
    BY <1>1, <2>1 DEF snapshotVars, provider, index, locals, OrdersInv, DoomedAreMissing, OrdersAreSafe, Active
<1> QED
  BY <1>1, RunKeepsOrders, EditKeepsOrders, OutsideKeepsOrders DEF SnapshotNext

\* When runs do not overlap and the limit cuts nothing off, what an operator withdrew
\* stays withdrawn until the operator restores it, whatever imports and webhooks
\* bring, as long as no snapshot may lack the source and no import had decided on
\* it when the operator came.
THEOREM OrdersAlwaysOutliveImports == OneRun /\ NothingCutOff => (SnapshotSpec => []OrdersOutliveImports)
<1> SUFFICES ASSUME OneRun, NothingCutOff PROVE SnapshotSpec => []OrdersOutliveImports
  OBVIOUS
<1>1. OrdersInv /\ [SnapshotNext]_snapshotVars => OrdersInv'
  BY OrdersStep
<1>2. OrdersInv => OrdersOutliveImports
  BY DEF OrdersInv, OrdersAreSafe, OrdersOutliveImports
<1> QED
  BY <1>1, <1>2, OrdersInit, PTL DEF SnapshotSpec

-----------------------------------------------------------------------------
(* The order of the list *)

Higher(S, x) == {y \in S : stamp[y] > stamp[x]}

Distinct(S) ==
    /\ IsFiniteSet(S)
    /\ \A x \in S : stamp[x] \in Nat
    /\ \A x, y \in S : stamp[x] = stamp[y] => x = y

\* The places of items whose stamps differ are the numbers from zero on.
LEMMA Places ==
    ASSUME NEW S, Distinct(S)
    PROVE  /\ Cardinality(S) \in Nat
           /\ \A x \in S : Cardinality(Higher(S, x)) \in 0..(Cardinality(S) - 1)
           /\ \A x, y \in S : stamp[x] > stamp[y] =>
                Cardinality(Higher(S, x)) < Cardinality(Higher(S, y))
           /\ \A i \in 0..(Cardinality(S) - 1) :
                \E x \in S : Cardinality(Higher(S, x)) = i
<1> DEFINE rank == [x \in S |-> Cardinality(Higher(S, x))]
           size == Cardinality(S)
<1>0. /\ IsFiniteSet(S) /\ \A x \in S : stamp[x] \in Nat
      /\ \A x, y \in S : stamp[x] = stamp[y] => x = y
  BY DEF Distinct
<1>1. size \in Nat
  BY <1>0, FS_CardinalityType
<1>2. ASSUME NEW x \in S
      PROVE  /\ IsFiniteSet(Higher(S, x)) /\ rank[x] \in Nat /\ rank[x] < size
  <2>1. Higher(S, x) \subseteq S /\ x \notin Higher(S, x)
    BY <1>0 DEF Higher
  <2>2. IsFiniteSet(Higher(S, x)) /\ Cardinality(Higher(S, x)) <= size
    BY <1>0, <2>1, FS_Subset
  <2>3. Cardinality(Higher(S, x)) # size
    BY <1>0, <2>1, FS_Subset
  <2>4. Cardinality(Higher(S, x)) \in Nat
    BY <2>2, FS_CardinalityType
  <2> QED
    BY <1>1, <2>2, <2>3, <2>4
<1>3. ASSUME NEW x \in S, NEW y \in S, stamp[x] > stamp[y] PROVE rank[x] < rank[y]
  <2>1. Higher(S, x) \subseteq Higher(S, y)
    BY <1>0, <1>3 DEF Higher
  <2>2. x \in Higher(S, y) /\ x \notin Higher(S, x)
    BY <1>0, <1>3 DEF Higher
  <2>3. /\ Cardinality(Higher(S, x)) <= Cardinality(Higher(S, y))
        /\ Cardinality(Higher(S, x)) # Cardinality(Higher(S, y))
    BY <1>2, <2>1, <2>2, FS_Subset
  <2> QED
    BY <1>2, <2>3
<1>4. \A x \in S : rank[x] \in 0..(size - 1)
  BY <1>1, <1>2
<1> DEFINE taken == {rank[x] : x \in S}
<1>5. rank \in [S -> taken]
  OBVIOUS
<1> HIDE DEF rank, size
<1>6. \A x, y \in S : rank[x] = rank[y] => x = y
  <2> SUFFICES ASSUME NEW x \in S, NEW y \in S, rank[x] = rank[y], x # y PROVE FALSE
    OBVIOUS
  <2>1. stamp[x] > stamp[y] \/ stamp[y] > stamp[x]
    BY <1>0
  <2> QED
    BY <1>3, <1>4, <2>1
<1>7. rank \in Injection(S, taken)
  BY <1>5, <1>6 DEF Injection, IsInjective
<1>8. rank \in Surjection(S, taken)
  BY <1>5 DEF Surjection
<1>9. IsFiniteSet(taken) /\ Cardinality(taken) = size
  BY <1>0, <1>7, <1>8, FS_Surjection DEF size
<1>10. IsFiniteSet(0..(size - 1)) /\ Cardinality(0..(size - 1)) = size
  BY <1>1, FS_Interval
<1>11. taken \subseteq 0..(size - 1)
  BY <1>4
<1>12. taken = 0..(size - 1)
  <2> HIDE DEF taken
  <2> QED
    BY <1>9, <1>10, <1>11, FS_Subset
<1>13. \A i \in 0..(size - 1) : \E x \in S : rank[x] = i
  BY <1>12
<1> QED
  BY <1>1, <1>3, <1>4, <1>13 DEF rank, size

LEMMA ListIsSequence ==
    ASSUME NEW S, NEW n \in Nat, NEW f \in [1..n -> S]
    PROVE  f \in Seq(S) /\ Len(f) = n /\ DOMAIN f = 1..n
<1>1. f \in Seq(S)
  BY SeqDef
<1>2. DOMAIN f = 1..Len(f) /\ Len(f) \in Nat
  BY <1>1, LenProperties
<1>3. 1..Len(f) = 1..n
  BY <1>2
<1>4. Len(f) = n
  BY <1>2, <1>3
<1> QED
  BY <1>1, <1>4

\* What the provider lists of a set is each item of it once, by falling stamps.
LEMMA InOrderIs ==
    ASSUME NEW S, Distinct(S)
    PROVE  /\ InOrder(S) \in Seq(S) /\ Len(InOrder(S)) = Cardinality(S)
           /\ \A x \in S : \E i \in 1..Len(InOrder(S)) : InOrder(S)[i] = x
           /\ \A i, j \in 1..Len(InOrder(S)) :
                i < j => stamp[InOrder(S)[j]] < stamp[InOrder(S)[i]]
<1> DEFINE rank(x) == Cardinality(Higher(S, x))
           size == Cardinality(S)
           list == InOrder(S)
<1>0. \A x \in S : stamp[x] \in Nat
  BY DEF Distinct
<1>1. /\ size \in Nat /\ \A x \in S : rank(x) \in 0..(size - 1)
      /\ \A x, y \in S : stamp[x] > stamp[y] => rank(x) < rank(y)
      /\ \A i \in 0..(size - 1) : \E x \in S : rank(x) = i
  BY Places
<1>2. ASSUME NEW i \in 1..size PROVE list[i] \in S /\ rank(list[i]) = i - 1
  <2>1. list[i] = CHOOSE x \in S : rank(x) = i - 1
    BY <1>2 DEF InOrder, Higher
  <2>2. i - 1 \in 0..(size - 1)
    BY <1>1
  <2>3. \E x \in S : rank(x) = i - 1
    BY <1>1, <2>2
  <2> QED
    BY <2>1, <2>3
<1>3. list \in [1..size -> S]
  <2> DEFINE ranked(i) == CHOOSE x \in S : rank(x) = i - 1
  <2>1. list = [i \in 1..size |-> ranked(i)]
    BY DEF InOrder, Higher
  <2>2. \A i \in 1..size : list[i] = ranked(i)
    BY <2>1
  <2> HIDE DEF list, ranked
  <2> QED
    BY <1>2, <2>1, <2>2
<1>4. \A x, y \in S : rank(x) = rank(y) => x = y
  <2> SUFFICES ASSUME NEW x \in S, NEW y \in S, rank(x) = rank(y), x # y PROVE FALSE
    OBVIOUS
  <2>1. stamp[x] > stamp[y] \/ stamp[y] > stamp[x]
    BY <1>0 DEF Distinct
  <2>2. rank(x) \in Nat /\ rank(y) \in Nat /\ (rank(x) < rank(y) \/ rank(y) < rank(x))
    BY <1>1, <2>1
  <2> QED
    BY <2>2
<1> HIDE DEF rank, size, list
<1>6. ASSUME NEW x \in S PROVE \E i \in 1..size : list[i] = x
  <2>1. rank(x) + 1 \in 1..size
    BY <1>1
  <2>2. list[rank(x) + 1] \in S /\ rank(list[rank(x) + 1]) = rank(x)
    BY <1>1, <1>2, <2>1
  <2> QED
    BY <1>4, <2>1, <2>2
<1>7. ASSUME NEW i \in 1..size, NEW j \in 1..size, i < j
      PROVE  stamp[list[j]] < stamp[list[i]]
  <2>1. /\ rank(list[i]) < rank(list[j]) /\ list[i] \in S /\ list[j] \in S
        /\ rank(list[i]) \in Nat /\ rank(list[j]) \in Nat
    BY <1>1, <1>2, <1>7
  <2>2. list[i] # list[j]
    BY <2>1
  <2>3. stamp[list[i]] # stamp[list[j]] /\ stamp[list[i]] \in Nat /\ stamp[list[j]] \in Nat
    BY <2>1, <2>2 DEF Distinct
  <2>4. ~ (rank(list[j]) < rank(list[i]))
    BY <2>1
  <2> QED
    BY <1>1, <2>1, <2>3, <2>4
<1>8. list \in Seq(S) /\ Len(list) = size
  BY <1>1, <1>3, ListIsSequence
<1> QED
  BY <1>6, <1>7, <1>8 DEF size, list

-----------------------------------------------------------------------------
(* Pages *)

Rest(S, c) == {x \in S : Listed(x) /\ (c = Nil \/ stamp[x] < c)}

\* No item is in a sequence twice but for some.
Once(s, but) == \A i, j \in DOMAIN s : s[i] = s[j] /\ i # j => s[i] \in but

LEMMA EntriesOf ==
    ASSUME NEW T, NEW s \in Seq(T)
    PROVE  /\ Entries(s) = {s[i] : i \in 1..Len(s)} /\ Entries(s) \subseteq T
           /\ s = <<>> <=> Entries(s) = {}
<1>1. Len(s) \in Nat /\ s \in [1..Len(s) -> T] /\ DOMAIN s = 1..Len(s)
  BY LenProperties
<1>2. s = <<>> <=> Len(s) = 0
  BY EmptySeq
<1>3. Len(s) # 0 => 1 \in 1..Len(s)
  BY <1>1
<1>4. Entries(s) = {s[i] : i \in 1..Len(s)}
  BY <1>1 DEF Entries
<1>5. Entries(s) \subseteq T
  BY <1>1, <1>4
<1>6. Len(s) # 0 => Entries(s) # {}
  BY <1>3, <1>4
<1>7. Len(s) = 0 => Entries(s) = {}
  BY <1>1, <1>4
<1> QED
  BY <1>2, <1>4, <1>5, <1>6, <1>7

LEMMA Joined ==
    ASSUME NEW T, NEW s \in Seq(T), NEW t \in Seq(T)
    PROVE  /\ s \o t \in Seq(T) /\ Entries(s \o t) = Entries(s) \union Entries(t)
           /\ \A but : Once(s, but) /\ Once(t, but) /\ Entries(s) \intersect Entries(t) \subseteq but
                => Once(s \o t, but)
<1>1. /\ Len(s) \in Nat /\ Len(t) \in Nat /\ DOMAIN s = 1..Len(s) /\ DOMAIN t = 1..Len(t)
      /\ s \o t \in Seq(T) /\ Len(s \o t) = Len(s) + Len(t) /\ DOMAIN (s \o t) = 1..(Len(s) + Len(t))
  OBVIOUS
<1>2. /\ \A i \in 1..Len(s) : i \in 1..(Len(s) + Len(t)) /\ (s \o t)[i] = s[i]
      /\ \A i \in 1..Len(t) : i + Len(s) \in 1..(Len(s) + Len(t)) /\ (s \o t)[i + Len(s)] = t[i]
  OBVIOUS
<1>3. \A i \in 1..(Len(s) + Len(t)) :
         \/ i \in 1..Len(s) /\ (s \o t)[i] = s[i]
         \/ i - Len(s) \in 1..Len(t) /\ (s \o t)[i] = t[i - Len(s)]
  OBVIOUS
<1>4. Entries(s \o t) = Entries(s) \union Entries(t)
  <2>1. /\ Entries(s) = {s[i] : i \in 1..Len(s)} /\ Entries(t) = {t[i] : i \in 1..Len(t)}
        /\ Entries(s \o t) = {(s \o t)[i] : i \in 1..(Len(s) + Len(t))}
    BY <1>1 DEF Entries
  <2>2. Entries(s \o t) \subseteq Entries(s) \union Entries(t)
    BY <1>3, <2>1
  <2>3. Entries(s) \subseteq Entries(s \o t) /\ Entries(t) \subseteq Entries(s \o t)
    BY <1>2, <2>1
  <2> QED
    BY <2>2, <2>3
<1>5. ASSUME NEW but, Once(s, but), Once(t, but), Entries(s) \intersect Entries(t) \subseteq but
      PROVE  Once(s \o t, but)
  <2> SUFFICES ASSUME NEW i \in 1..(Len(s) + Len(t)), NEW j \in 1..(Len(s) + Len(t)),
                      (s \o t)[i] = (s \o t)[j], i # j
               PROVE  (s \o t)[i] \in but
    BY <1>1 DEF Once
  <2>1. CASE i \in 1..Len(s) /\ j \in 1..Len(s)
    BY <1>1, <1>2, <1>5, <2>1 DEF Once
  <2>2. CASE i - Len(s) \in 1..Len(t) /\ j - Len(s) \in 1..Len(t)
    <3>1. (s \o t)[i] = t[i - Len(s)] /\ (s \o t)[j] = t[j - Len(s)]
      BY <1>1, <2>2
    <3>2. i - Len(s) # j - Len(s)
      BY <1>1
    <3> QED
      BY <1>1, <1>5, <2>2, <3>1, <3>2 DEF Once
  <2>3. CASE i \in 1..Len(s) /\ j - Len(s) \in 1..Len(t)
    <3>1. (s \o t)[i] = s[i] /\ (s \o t)[j] = t[j - Len(s)]
      BY <1>1, <2>3
    <3> QED
      BY <1>1, <1>5, <2>3, <3>1 DEF Entries
  <2>4. CASE i - Len(s) \in 1..Len(t) /\ j \in 1..Len(s)
    <3>1. (s \o t)[j] = s[j] /\ (s \o t)[i] = t[i - Len(s)]
      BY <1>1, <2>4
    <3> QED
      BY <1>1, <1>5, <2>4, <3>1 DEF Entries
  <2> QED
    BY <1>3, <2>1, <2>2, <2>3, <2>4
<1> QED
  BY <1>1, <1>4, <1>5

\* A list by falling stamps has each item once.
LEMMA FallingIsOnce ==
    ASSUME NEW S, Distinct(S)
    PROVE  /\ InOrder(S) \in Seq(S) /\ Entries(InOrder(S)) = S
           /\ \A but : Once(InOrder(S), but)
<1> DEFINE list == InOrder(S)
<1>1. /\ list \in Seq(S)
      /\ \A x \in S : \E i \in 1..Len(list) : list[i] = x
      /\ \A i, j \in 1..Len(list) : i < j => stamp[list[j]] < stamp[list[i]]
  BY InOrderIs
<1>2. Len(list) \in Nat /\ DOMAIN list = 1..Len(list) /\ \A i \in 1..Len(list) : list[i] \in S
  BY <1>1, LenProperties
<1>3. \A x \in S : stamp[x] \in Nat
  BY DEF Distinct
<1> HIDE DEF list
<1>4. Entries(list) = S
  BY <1>1, <1>2 DEF Entries
<1>5. \A i, j \in 1..Len(list) : list[i] = list[j] => i = j
  <2> SUFFICES ASSUME NEW i \in 1..Len(list), NEW j \in 1..Len(list), list[i] = list[j], i # j
               PROVE  FALSE
    OBVIOUS
  <2>1. i < j \/ j < i
    BY <1>2
  <2>2. stamp[list[i]] \in Nat /\ stamp[list[j]] \in Nat
    BY <1>2, <1>3
  <2> QED
    BY <1>1, <2>1, <2>2
<1>6. \A but : Once(list, but)
  BY <1>2, <1>5 DEF Once
<1> QED
  BY <1>1, <1>4, <1>6 DEF list

\* What a page of n items beyond a cursor has, and what it leaves.
PageIsSound(S, c, n, batch, last) ==
    /\ batch \in Seq(S) /\ Entries(batch) \subseteq Rest(S, c) /\ \A but : Once(batch, but)
    /\ last \in Nat \union {Nil} /\ (c # Nil => last # Nil /\ last <= c)
    /\ \A x \in Rest(S, c) \ Entries(batch) : last # Nil /\ stamp[x] < last
    /\ \A x \in Entries(batch) : last # Nil /\ stamp[x] >= last
    /\ last = c \/ \E x \in S : last = stamp[x]
    /\ batch = <<>> => Rest(S, c) = {}
    /\ ~ HasNext(S, c, n) => Entries(batch) = Rest(S, c)

LEMMA PageIs ==
    ASSUME TapsAssumption, NEW S, NEW c \in Nat \union {Nil}, NEW n \in Nat \ {0},
           Distinct(Rest(S, c))
    PROVE  PageIsSound(S, c, n, Page(S, c, n), EndCursor(Page(S, c, n), c))
<1> DEFINE list == Beyond(S, c)
           R == Rest(S, c)
           len == AtMost(n, Len(list))
           batch == Page(S, c, n)
           last == EndCursor(batch, c)
<1>1. list = InOrder(R)
  BY DEF Beyond, Rest
<1>2. /\ list \in Seq(R)
      /\ \A x \in R : \E i \in 1..Len(list) : list[i] = x
      /\ \A i, j \in 1..Len(list) : i < j => stamp[list[j]] < stamp[list[i]]
  BY <1>1, InOrderIs
<1>3. \A but : Once(list, but)
  BY <1>1, FallingIsOnce
<1>4. /\ R \subseteq S /\ \A x \in R : stamp[x] \in Nat
      /\ \A x \in R : Listed(x) /\ (c = Nil \/ stamp[x] < c)
  BY DEF Rest, Distinct
<1>5. Nil \notin Nat
  BY DEF TapsAssumption
<1>6. HasNext(S, c, n) <=> Len(list) > n
  BY DEF HasNext
<1>7. batch = SubSeq(list, 1, len)
  BY DEF Page
<1> HIDE DEF list, R, batch
<1>8. /\ Len(list) \in Nat /\ DOMAIN list = 1..Len(list) /\ \A i \in 1..Len(list) : list[i] \in R
  BY <1>2, LenProperties
<1>9. /\ len \in Nat /\ len <= Len(list) /\ len <= n /\ (~ HasNext(S, c, n) => len = Len(list))
      /\ (len = 0 => Len(list) = 0)
  <2>1. len = IF n < Len(list) THEN n ELSE Len(list)
    BY DEF AtMost
  <2>2. len \in Nat /\ len <= Len(list) /\ len <= n /\ (len = 0 => Len(list) = 0)
    BY <1>8, <2>1
  <2>3. ~ (Len(list) > n) => len = Len(list)
    BY <1>8, <2>1
  <2> QED
    BY <1>6, <2>2, <2>3
<1> HIDE DEF len
<1>10. /\ batch \in Seq(R) /\ Len(batch) = len /\ DOMAIN batch = 1..len
       /\ \A i \in 1..len : batch[i] = list[i] /\ i \in 1..Len(list)
  <2>0. len \in Nat /\ Len(list) \in Nat /\ len <= Len(list)
    BY <1>8, <1>9
  <2>4. \A i \in 1..len : i \in 1..Len(list)
    BY <2>0
  <2>1. len \in Int /\ \A i \in 1..len : i \in 1..Len(list) /\ list[i] \in R
    BY <1>8, <2>0, <2>4
  <2>2. /\ batch \in Seq(R) /\ Len(batch) = IF 1 <= len THEN len - 1 + 1 ELSE 0
        /\ \A i \in 1..(len - 1 + 1) : batch[i] = list[1 + i - 1]
    BY <1>7, <2>1, SubSeqProperties
  <2>3. /\ len - 1 + 1 = len /\ len = IF 1 <= len THEN len - 1 + 1 ELSE 0
        /\ \A i \in 1..len : 1 + i - 1 = i /\ i \in 1..Len(list)
    BY <1>9, <2>1
  <2>5. DOMAIN batch = 1..len
    BY <2>2, <2>3, LenProperties
  <2> QED
    BY <2>2, <2>3, <2>5
<1>11. batch \in Seq(S)
  BY <1>4, <1>10
<1>12. Entries(batch) = {list[i] : i \in 1..len}
  BY <1>10 DEF Entries
<1>13. Entries(batch) \subseteq R
  BY <1>8, <1>10, <1>12
<1>14. \A but : Once(batch, but)
  <2> SUFFICES ASSUME NEW but, NEW i \in 1..len, NEW j \in 1..len, batch[i] = batch[j], i # j
               PROVE  batch[i] \in but
    BY <1>10 DEF Once
  <2>1. list[i] = list[j] /\ i \in DOMAIN list /\ j \in DOMAIN list
    BY <1>8, <1>10
  <2> QED
    BY <1>3, <1>10, <2>1 DEF Once
<1>15. batch = <<>> <=> len = 0
  BY <1>9, <1>10
<1>16. len # 0 => last = stamp[list[len]] /\ list[len] \in R /\ len \in 1..Len(list)
  <2>1. len # 0 => len \in 1..len /\ len \in 1..Len(list)
    BY <1>8, <1>9
  <2> QED
    BY <1>8, <1>10, <1>15, <2>1 DEF EndCursor
<1>17. len = 0 => last = c /\ R = {} /\ Entries(batch) = {}
  <2>1. len = 0 => 1..Len(list) = {} /\ 1..len = {}
    BY <1>8, <1>9
  <2> QED
    BY <1>2, <1>12, <1>15, <2>1 DEF EndCursor
<1> HIDE DEF last
<1>18. last \in Nat \union {Nil} /\ (len # 0 => last \in Nat /\ last # Nil)
  BY <1>4, <1>5, <1>16, <1>17
<1>19. c # Nil => last # Nil /\ last <= c
  BY <1>4, <1>5, <1>16, <1>17
<1>20. ASSUME NEW x \in R, x \notin Entries(batch) PROVE last # Nil /\ stamp[x] < last
  <2>1. PICK i \in 1..Len(list) : list[i] = x
    BY <1>2
  <2>2. i \notin 1..len
    BY <1>12, <1>20, <2>1
  <2>3. len # 0
    BY <1>17
  <2>4. i \in Nat /\ len \in Nat /\ len < i
    BY <1>9, <2>2
  <2>5. len \in 1..Len(list) /\ last = stamp[list[len]] /\ last # Nil
    BY <1>16, <1>18, <2>3
  <2> QED
    BY <1>2, <2>1, <2>4, <2>5
<1>21. ASSUME NEW x \in Entries(batch) PROVE last # Nil /\ stamp[x] >= last
  <2>1. PICK i \in 1..len : list[i] = x
    BY <1>12
  <2>2. len # 0 /\ i \in 1..Len(list) /\ (i = len \/ i < len)
    BY <1>9, <1>10, <2>1
  <2>4. len \in 1..Len(list) /\ last = stamp[list[len]]
    BY <1>16, <2>2
  <2>3. stamp[x] \in Nat /\ last \in Nat /\ (x = list[len] \/ last < stamp[x])
    BY <1>2, <1>4, <1>13, <1>18, <2>1, <2>2, <2>4
  <2> QED
    BY <1>16, <1>18, <2>2, <2>3
<1>22. last = c \/ \E x \in S : last = stamp[x]
  BY <1>4, <1>16, <1>17
<1>23. ~ HasNext(S, c, n) => Entries(batch) = R
  BY <1>2, <1>9, <1>12, <1>13
<1> QED
  BY <1>11, <1>13, <1>14, <1>15, <1>17, <1>18, <1>19, <1>20, <1>21, <1>22, <1>23
     DEF PageIsSound, batch, last, R

-----------------------------------------------------------------------------
(* Folders *)

\* The ancestors of an item are closed: they hold the folder of each of them.
LEMMA AncestorsAre ==
    ASSUME TapsAssumption, NEW par \in [Items -> Parents], parent = par, NEW x \in Items
    PROVE  /\ x \in Ancestors(x) /\ Ancestors(x) \subseteq Folders \union {x}
           /\ \A y \in Ancestors(x) : par[y] \in Ancestors(x) \union {Root}
<1> DEFINE closed == {S \in SUBSET (Folders \union {x}) :
                         x \in S /\ \A y \in S : par[y] \in S \union {Root}}
<1>1. Ancestors(x) = {a \in Folders \union {x} : \A S \in closed : a \in S}
  BY DEF Ancestors
<1>2. Folders \union {x} \subseteq Items
  BY DEF TapsAssumption
<1>3. x \in Ancestors(x) /\ Ancestors(x) \subseteq Folders \union {x}
  BY <1>1
<1>4. ASSUME NEW y \in Ancestors(x), par[y] # Root PROVE par[y] \in Ancestors(x)
  <2>1. par[y] \in Folders
    BY <1>2, <1>3, <1>4 DEF Parents
  <2>2. \A S \in closed : par[y] \in S
    BY <1>1, <1>4
  <2> QED
    BY <1>1, <2>1, <2>2
<1> QED
  BY <1>3, <1>4

\* A folder may be moved to any that it is not above of.
LEMMA ForestMoves ==
    ASSUME TapsAssumption, parent \in [Items -> Parents], Forest(parent),
           NEW x \in Items, NEW f \in Parents, f \in Folders => x \notin Ancestors(f)
    PROVE  Forest([parent EXCEPT ![x] = f])
<1> SUFFICES ASSUME NEW S \in SUBSET Folders, S # {},
                    \A g \in S : [parent EXCEPT ![x] = f][g] \in S
             PROVE  FALSE
  BY DEF Forest
<1>0. Folders \subseteq Items /\ Root \notin Folders
  BY DEF TapsAssumption
<1>1. \A g \in S \ {x} : parent[g] \in S
  BY <1>0
<1>2. x \in S
  BY <1>1 DEF Forest
<1>3. f \in S
  BY <1>2
<1>4. /\ f \in Ancestors(f) /\ Ancestors(f) \subseteq Folders \union {f}
      /\ \A y \in Ancestors(f) : parent[y] \in Ancestors(f) \union {Root}
  BY <1>0, <1>3, AncestorsAre
<1> DEFINE T == S \intersect Ancestors(f)
<1>5. T \in SUBSET Folders /\ T # {} /\ x \notin T
  BY <1>3, <1>4
<1>6. PICK g \in T : parent[g] \notin T
  BY <1>5 DEF Forest
<1>7. parent[g] \in S
  BY <1>1, <1>5, <1>6
<1> QED
  BY <1>0, <1>4, <1>6, <1>7

-----------------------------------------------------------------------------
(* The invariant *)

StampsAreSound ==
    /\ stamp \in [Items -> Nat] /\ changes \in Nat
    /\ \A x \in Items : stamp[x] < Now
    /\ \A x, y \in Items : Listed(x) /\ stamp[x] = stamp[y] => x = y

TapTypes ==
    /\ parent \in [Items -> Parents] /\ Forest(parent) /\ moved \subseteq Items
    /\ tap \in Taps /\ phase \in {"read", "sent", "failed"}
    /\ received \in [Streams -> Seq(Items)] /\ more \in [Streams -> BOOLEAN]
    /\ cursor \in [Streams -> Nat \union {Nil}]
    /\ \A s \in Streams : cursor[s] # Nil => cursor[s] < Now
    /\ pending \in Seq(Parents) /\ visited \subseteq Parents
    /\ turn \in Parents \union {"companies", "people", Nil}

\* A stream that is read page by page lacks of what nobody changed only what its
\* cursor has still to come to; what it has is behind the cursor, once.
IsPaged(s) ==
    /\ \A x \in InStream(s) \ moved :
          Listed(x) => \/ x \in Entries(received[s])
                       \/ more[s] /\ (cursor[s] = Nil \/ stamp[x] < cursor[s])
    /\ \A x \in Entries(received[s]) : cursor[s] # Nil /\ (stamp[x] = 0 \/ stamp[x] >= cursor[s])
    /\ Once(received[s], {})

LinearInv == \A s \in LinearStreams : IsPaged(s)

TwentyInv ==
    /\ IsPaged("companies") /\ IsPaged("people")
    /\ turn \in {"companies", "people"}
    /\ turn = "people" => Len(received["companies"]) >= StreamLimit \/ ~ more["companies"]

\* A folder is taken when it is to be visited, a file when it is sent.
Taken(x) ==
    IF x \in Folders THEN x \in visited \union Entries(pending) ELSE x \in Entries(received["files"])

DriveInv ==
    /\ Root \in visited \union Entries(pending)
    /\ turn \in visited \union {Nil}
    /\ \A x \in InStream("files") \ moved :
          Listed(x) /\ parent[x] \in visited =>
             \/ Taken(x)
             \/ parent[x] = turn /\ (cursor["files"] = Nil \/ stamp[x] < cursor["files"])
    /\ \A x \in Entries(received["files"]) \ moved :
          /\ parent[x] \in visited
          /\ parent[x] = turn => cursor["files"] # Nil /\ stamp[x] >= cursor["files"]
    /\ Once(received["files"], moved)

OnlyOfTap ==
    /\ \A x \in Items : Listed(x) => StreamOf[x] \in OfTap(tap)
    /\ \A s \in Streams \ OfTap(tap) : received[s] = <<>>

TapsInv ==
    /\ StampsAreSound /\ TapTypes /\ OnlyOfTap
    /\ tap = "linear" => LinearInv
    /\ tap = "twenty" => TwentyInv
    /\ tap = "drive" => DriveInv
    /\ LacksOnlyTheMoved

LEMMA NowIs == ASSUME TapsAssumption, changes \in Nat PROVE Now \in Nat /\ Cardinality(Items) < Now
<1>1. Cardinality(Items) \in Nat
  BY FS_CardinalityType DEF TapsAssumption
<1> QED
  BY <1>1 DEF Now

LEMMA TapsInvInit == ASSUME TapsAssumption, TapInit PROVE TapsInv
<1>0. /\ Folders \subseteq Items /\ Root \notin Items /\ Cardinality(Items) \in Nat
      /\ Place \in [Items -> 1..Cardinality(Items)]
      /\ \A x, y \in Items : Place[x] = Place[y] => x = y
      /\ Nil \notin Items \union Streams \union {Root} /\ Nil \notin Nat
  BY FS_CardinalityType DEF TapsAssumption
<1>1. PICK there \in SUBSET {x \in Items : StreamOf[x] \in OfTap(tap)} :
          stamp = [x \in Items |-> IF x \in there THEN Place[x] ELSE 0]
  BY DEF TapInit
<1>2. changes = 0 /\ changes \in Nat
  BY DEF TapInit
<1>3. StampsAreSound
  <2>1. \A x \in Items : stamp[x] \in Nat /\ stamp[x] <= Cardinality(Items)
    BY <1>0, <1>1
  <2>2. \A x \in Items : Listed(x) => stamp[x] = Place[x] /\ x \in there
    BY <1>1 DEF Listed
  <2>3. \A x, y \in Items : Listed(x) /\ stamp[x] = stamp[y] => Listed(y)
    BY DEF Listed
  <2>4. \A x, y \in Items : Listed(x) /\ stamp[x] = stamp[y] => x = y
    BY <1>0, <2>2, <2>3
  <2>5. stamp \in [Items -> Nat]
    BY <1>1, <2>1
  <2>6. Now \in Nat /\ Cardinality(Items) < Now
    BY <1>2, NowIs
  <2>7. \A x \in Items : stamp[x] < Now
    BY <1>0, <2>1, <2>6
  <2> QED
    BY <1>2, <2>4, <2>5, <2>7 DEF StampsAreSound
<1>4. parent \in [Items -> Parents]
  <2>1. PICK f \in [IF tap = "drive" THEN InStream("files") ELSE {} -> Parents] :
            parent = [x \in Items |-> IF x \in DOMAIN f THEN f[x] ELSE Root]
    BY DEF TapInit
  <2>2. \A x \in DOMAIN f : f[x] \in Parents
    OBVIOUS
  <2> QED
    BY <2>1, <2>2 DEF Parents
<1>5. /\ \A s \in Streams : received[s] = <<>> /\ more[s] = TRUE /\ cursor[s] = Nil
      /\ received \in [Streams -> Seq(Items)] /\ more \in [Streams -> BOOLEAN]
      /\ cursor \in [Streams -> Nat \union {Nil}]
  BY DEF TapInit
<1>6. turn \in Parents \union {"companies", "people", Nil}
  BY DEF TapInit
<1>7. pending = <<Root>> /\ visited = {} /\ pending \in Seq(Parents) /\ Entries(pending) = {Root}
  BY DEF TapInit, Parents, Entries
<1>8. TapTypes
  BY <1>4, <1>5, <1>6, <1>7 DEF TapInit, TapTypes, Taps
<1>9. Entries(<<>>) = {} /\ \A but : Once(<<>>, but)
  BY DEF Entries, Once
<1>10. \A s \in Streams : IsPaged(s)
  BY <1>5, <1>9 DEF IsPaged
<1>11. LinearStreams \subseteq Streams /\ {"companies", "people", "files"} \subseteq Streams
  BY DEF Streams
<1>12. tap = "twenty" => TwentyInv
  BY <1>10, <1>11 DEF TwentyInv, TapInit
<1>13. tap = "drive" => DriveInv
  BY <1>5, <1>7, <1>9, <1>11 DEF DriveInv, TapInit
<1>14. LacksOnlyTheMoved
  BY DEF LacksOnlyTheMoved, TapInit
<1>15. OnlyOfTap
  BY <1>1, <1>5 DEF OnlyOfTap, Listed
<1> QED
  BY <1>15, <1>3, <1>8, <1>10, <1>11, <1>12, <1>13, <1>14 DEF TapsInv, LinearInv

LEMMA RestIsDistinct ==
    ASSUME TapsAssumption, StampsAreSound, NEW S \in SUBSET Items, NEW c
    PROVE  Distinct(Rest(S, c)) /\ Rest(S, c) \subseteq S
<1>1. IsFiniteSet(Items) /\ Rest(S, c) \subseteq S /\ Rest(S, c) \subseteq Items
  BY DEF TapsAssumption, Rest
<1>2. IsFiniteSet(Rest(S, c))
  BY <1>1, FS_Subset
<1> QED
  BY <1>1, <1>2 DEF Distinct, Rest, StampsAreSound

LEMMA ItemsOfStreams == ASSUME NEW s PROVE InStream(s) \subseteq Items
BY DEF InStream

\* A page more keeps what is read page by page as it should be.
LEMMA PageKeepsStream ==
    ASSUME TapsAssumption, StampsAreSound, TapTypes, UNCHANGED lists,
           NEW s \in Streams, IsPaged(s), NEW n \in Nat \ {0},
           NEW batch, batch = Page(InStream(s), cursor[s], n),
           received'[s] = received[s] \o batch, cursor'[s] = EndCursor(batch, cursor[s]),
           more'[s] = HasNext(InStream(s), cursor[s], n)
             \/ more'[s] = (batch # <<>> /\ HasNext(InStream(s), cursor[s], n))
    PROVE  /\ IsPaged(s)' /\ received'[s] \in Seq(Items) /\ cursor'[s] \in Nat \union {Nil}
           /\ cursor'[s] # Nil => cursor'[s] < Now
<1> DEFINE S == InStream(s)
           c == cursor[s]
           last == cursor'[s]
<1>1. S \in SUBSET Items /\ c \in Nat \union {Nil} /\ received[s] \in Seq(Items) /\ (c # Nil => c < Now)
  BY ItemsOfStreams DEF TapTypes
<1>2. Distinct(Rest(S, c))
  BY <1>1, RestIsDistinct
<1> HIDE DEF S, c
<1>3. PageIsSound(S, c, n, batch, last)
  <2>1. PageIsSound(S, c, n, Page(S, c, n), EndCursor(Page(S, c, n), c))
    BY <1>1, <1>2, PageIs
  <2>2. batch = Page(S, c, n) /\ last = EndCursor(batch, c)
    BY DEF S, c
  <2> HIDE DEF last
  <2> QED
    BY <2>1, <2>2
<1>4. /\ batch \in Seq(Items) /\ Entries(batch) \subseteq Rest(S, c) /\ Once(batch, {})
      /\ last \in Nat \union {Nil} /\ (c # Nil => last # Nil /\ last <= c)
      /\ \A x \in Rest(S, c) \ Entries(batch) : last # Nil /\ stamp[x] < last
      /\ \A x \in Entries(batch) : last # Nil /\ stamp[x] >= last
      /\ last = c \/ \E x \in S : last = stamp[x]
      /\ batch = <<>> => Rest(S, c) = {}
      /\ ~ HasNext(S, c, n) => Entries(batch) = Rest(S, c)
  <2>1. batch \in Seq(S)
    BY <1>3 DEF PageIsSound
  <2>2. batch \in Seq(Items)
    BY <1>1, <2>1
  <2>3. Once(batch, {})
    <3>1. \A but : Once(batch, but)
      BY <1>3 DEF PageIsSound
    <3> QED
      BY <3>1
  <2> HIDE DEF last
  <2>4. /\ Entries(batch) \subseteq Rest(S, c)
        /\ last \in Nat \union {Nil} /\ (c # Nil => last # Nil /\ last <= c)
        /\ \A x \in Rest(S, c) \ Entries(batch) : last # Nil /\ stamp[x] < last
        /\ \A x \in Entries(batch) : last # Nil /\ stamp[x] >= last
        /\ last = c \/ \E x \in S : last = stamp[x]
        /\ batch = <<>> => Rest(S, c) = {}
        /\ ~ HasNext(S, c, n) => Entries(batch) = Rest(S, c)
    BY <1>3 DEF PageIsSound
  <2> QED
    BY <2>2, <2>3, <2>4
<1>5. /\ received'[s] = received[s] \o batch /\ received'[s] \in Seq(Items)
      /\ Entries(received'[s]) = Entries(received[s]) \union Entries(batch)
  BY <1>1, <1>4, Joined
<1>6. /\ \A x \in S \ moved :
            Listed(x) => x \in Entries(received[s]) \/ (more[s] /\ (c = Nil \/ stamp[x] < c))
      /\ \A x \in Entries(received[s]) : c # Nil /\ (stamp[x] = 0 \/ stamp[x] >= c)
      /\ Once(received[s], {})
  BY DEF IsPaged, S, c
<1>7. /\ \A x \in Rest(S, c) : x \in S /\ Listed(x) /\ (c = Nil \/ stamp[x] < c)
      /\ \A x \in S : Listed(x) /\ (c = Nil \/ stamp[x] < c) => x \in Rest(S, c)
  BY DEF Rest
<1>8. /\ stamp' = stamp /\ moved' = moved /\ changes' = changes
      /\ \A x \in Items : stamp[x] \in Nat /\ stamp[x] < Now /\ (Listed(x)' <=> Listed(x))
  BY DEF lists, StampsAreSound, Listed
<1>9. more'[s] \/ Entries(batch) = Rest(S, c)
  <2>1. \/ more'[s] = HasNext(S, c, n)
        \/ more'[s] = (batch # <<>> /\ HasNext(S, c, n))
    BY DEF S, c
  <2>2. batch = <<>> => Entries(batch) = Rest(S, c)
    BY <1>4, EntriesOf
  <2>3. ~ HasNext(S, c, n) => Entries(batch) = Rest(S, c)
    BY <1>4
  <2> QED
    BY <2>1, <2>2, <2>3
<1>10. ASSUME NEW x \in S \ moved, Listed(x)
       PROVE  x \in Entries(received'[s]) \/ (more'[s] /\ (last = Nil \/ stamp[x] < last))
  <2>1. x \in Entries(received[s]) \/ x \in Rest(S, c)
    BY <1>6, <1>7, <1>10
  <2> QED
    BY <1>4, <1>5, <1>9, <2>1
<1>11. ASSUME NEW x \in Entries(received'[s]) PROVE last # Nil /\ (stamp[x] = 0 \/ stamp[x] >= last)
  <2>1. CASE x \in Entries(batch)
    BY <1>4, <2>1
  <2>2. CASE x \in Entries(received[s])
    <3>1. x \in Items
      BY <1>1, <2>2, EntriesOf
    <3>2. c # Nil /\ c \in Nat /\ stamp[x] \in Nat /\ last # Nil /\ last \in Nat /\ last <= c
      BY <1>1, <1>4, <1>6, <1>8, <2>2, <3>1
    <3> QED
      BY <1>6, <2>2, <3>2
  <2> QED
    BY <1>5, <2>1, <2>2
<1>12. Once(received'[s], {})
  <2>1. \A x \in Entries(batch) : x \in Items /\ stamp[x] \in Nat /\ stamp[x] # 0
                                 /\ (c = Nil \/ stamp[x] < c)
    BY <1>1, <1>4, <1>7, <1>8 DEF Listed
  <2>2. \A x \in Entries(received[s]) : c # Nil /\ c \in Nat /\ (stamp[x] = 0 \/ stamp[x] >= c)
    BY <1>1, <1>6
  <2>3. Entries(received[s]) \intersect Entries(batch) = {}
    BY <2>1, <2>2
  <2> QED
    BY <1>1, <1>4, <1>5, <1>6, <2>3, Joined
<1>13. IsPaged(s)'
  BY <1>8, <1>10, <1>11, <1>12 DEF IsPaged, S, InStream, Listed
<1>14. last # Nil => last < Now
  BY <1>1, <1>4, <1>8
<1> QED
  BY <1>4, <1>5, <1>13, <1>14

\* What users do to an item leaves the invariant: it asks for less of what was
\* changed.
LEMMA ChangeKeeps ==
    ASSUME TapsAssumption, TapsInv, NEW x \in Items, Change(x),
           NEW t \in {stamp[x], 0, Now}, stamp' = [stamp EXCEPT ![x] = t],
           NEW f \in Parents, parent' = [parent EXCEPT ![x] = f], Forest(parent')
    PROVE  TapsInv'
<1>1. /\ phase = "read" /\ changes' = changes + 1 /\ moved' = moved \union {x}
      /\ tap' = tap /\ phase' = phase /\ received' = received /\ more' = more /\ cursor' = cursor
      /\ turn' = turn /\ pending' = pending /\ visited' = visited
  BY DEF Change, reading
<1>2. /\ StampsAreSound /\ TapTypes /\ (tap = "linear" => LinearInv)
      /\ (tap = "twenty" => TwentyInv) /\ (tap = "drive" => DriveInv)
  BY DEF TapsInv
<1>3. /\ stamp \in [Items -> Nat] /\ changes \in Nat /\ \A y \in Items : stamp[y] < Now
      /\ \A y, z \in Items : Listed(y) /\ stamp[y] = stamp[z] => y = z
  BY <1>2 DEF StampsAreSound
<1>4. Now \in Nat /\ Now' = Now + 1 /\ Now # 0
  <2>1. Cardinality(Items) \in Nat
    BY FS_CardinalityType DEF TapsAssumption
  <2> QED
    BY <1>1, <1>3, <2>1 DEF Now
<1>5. t \in Nat /\ t <= Now
  BY <1>3, <1>4
<1>6. \A y \in Items : y # x => stamp'[y] = stamp[y] /\ parent'[y] = parent[y]
  BY <1>2, <1>3 DEF TapTypes
<1>7. stamp'[x] = t
  BY <1>3
<1>8. StampsAreSound'
  <2>1. stamp' \in [Items -> Nat] /\ changes' \in Nat
    BY <1>1, <1>3, <1>5
  <2>2. \A y \in Items : stamp'[y] < Now'
    BY <1>3, <1>4, <1>5, <1>6, <1>7
  <2>3. ASSUME NEW y \in Items, NEW z \in Items, stamp'[y] # 0, stamp'[y] = stamp'[z], y # z
        PROVE  FALSE
    BY <1>3, <1>4, <1>6, <1>7, <2>3 DEF Listed
  <2> QED
    BY <2>1, <2>2, <2>3 DEF StampsAreSound, Listed
<1>9. TapTypes'
  <2>1. \A s \in Streams : cursor[s] # Nil => cursor[s] < Now'
    <3>1. \A s \in Streams : cursor[s] # Nil => cursor[s] < Now /\ cursor[s] \in Nat
      BY <1>2 DEF TapTypes
    <3> QED
      BY <1>4, <3>1
  <2>2. parent' \in [Items -> Parents]
    BY <1>2 DEF TapTypes
  <2> QED
    BY <1>1, <1>2, <2>1, <2>2 DEF TapTypes
<1>10. ASSUME NEW s \in Streams, IsPaged(s) PROVE IsPaged(s)'
  <2>1. \A y \in InStream(s) : y \in Items
    BY ItemsOfStreams
  <2>2. ASSUME NEW y \in InStream(s) \ moved', stamp'[y] # 0
        PROVE  y \in Entries(received[s]) \/ (more[s] /\ (cursor[s] = Nil \/ stamp'[y] < cursor[s]))
    BY <1>1, <1>6, <1>10, <2>1, <2>2 DEF IsPaged, Listed
  <2>3. ASSUME NEW y \in Entries(received[s])
        PROVE  cursor[s] # Nil /\ (stamp'[y] = 0 \/ stamp'[y] >= cursor[s])
    <3>1. received[s] \in Seq(Items) /\ cursor[s] \in Nat \union {Nil} /\ (cursor[s] # Nil => cursor[s] < Now)
      BY <1>2 DEF TapTypes
    <3>2. y \in Items
      BY <3>1, EntriesOf
    <3>3. cursor[s] # Nil /\ cursor[s] \in Nat /\ (stamp[y] = 0 \/ stamp[y] >= cursor[s])
      BY <1>10, <3>1 DEF IsPaged
    <3> QED
      BY <1>3, <1>4, <1>6, <1>7, <3>1, <3>2, <3>3
  <2>4. Once(received[s], {})
    BY <1>10 DEF IsPaged
  <2> QED
    BY <1>1, <2>2, <2>3, <2>4 DEF IsPaged, InStream, Listed
<1>11. LinearStreams \subseteq Streams /\ {"companies", "people", "files"} \subseteq Streams
  BY DEF Streams
<1>12. (tap = "linear" => LinearInv)'
  BY <1>1, <1>2, <1>10, <1>11 DEF LinearInv
<1>13. (tap = "twenty" => TwentyInv)'
  BY <1>1, <1>2, <1>10, <1>11 DEF TwentyInv
<1>14. (tap = "drive" => DriveInv)'
  <2> SUFFICES ASSUME DriveInv PROVE DriveInv'
    BY <1>1, <1>2
  <2>1. \A y \in InStream("files") : y \in Items
    BY ItemsOfStreams
  <2>2. received["files"] \in Seq(Items)
    BY <1>2, <1>11 DEF TapTypes
  <2>3. \A y \in Entries(received["files"]) : y \in Items
    BY <2>2, EntriesOf
  <2>4. ASSUME NEW y \in InStream("files") \ moved', stamp'[y] # 0, parent'[y] \in visited
        PROVE  \/ Taken(y)
               \/ parent'[y] = turn /\ (cursor["files"] = Nil \/ stamp'[y] < cursor["files"])
    BY <1>1, <1>6, <2>1, <2>4 DEF DriveInv, Listed
  <2>5. ASSUME NEW y \in Entries(received["files"]) \ moved'
        PROVE  /\ parent'[y] \in visited
               /\ parent'[y] = turn => cursor["files"] # Nil /\ stamp'[y] >= cursor["files"]
    BY <1>1, <1>6, <2>3, <2>5 DEF DriveInv
  <2>6. Once(received["files"], moved')
    BY <1>1 DEF DriveInv, Once
  <2>7. \A y : Taken(y)' <=> Taken(y)
    BY <1>1 DEF Taken
  <2>8. Root \in visited \union Entries(pending) /\ turn \in visited \union {Nil}
    BY DEF DriveInv
  <2> QED
    BY <1>1, <2>4, <2>5, <2>6, <2>7, <2>8 DEF DriveInv, InStream, Listed
<1>15. LacksOnlyTheMoved'
  BY <1>1 DEF LacksOnlyTheMoved
<1>16. OnlyOfTap'
  <2>1. OnlyOfTap /\ StreamOf[x] \in OfTap(tap)
    BY DEF TapsInv, Change
  <2>2. ASSUME NEW y \in Items, stamp'[y] # 0 PROVE StreamOf[y] \in OfTap(tap)
    BY <1>6, <2>1, <2>2 DEF OnlyOfTap, Listed
  <2>3. \A s \in Streams \ OfTap(tap) : received[s] = <<>>
    BY <2>1 DEF OnlyOfTap
  <2>4. OfTap(tap)' = OfTap(tap)
    BY <1>1 DEF OfTap
  <2> QED
    BY <1>1, <2>2, <2>3, <2>4 DEF OnlyOfTap, Listed
<1> QED
  BY <1>8, <1>16, <1>9, <1>12, <1>13, <1>14, <1>15 DEF TapsInv

LEMMA UsersKeep ==
    ASSUME TapsAssumption, TapsInv, NEW x \in Items, Add(x) \/ Unlist(x) \/ Update(x) \/ Move(x)
    PROVE  TapsInv'
<1>1. /\ stamp \in [Items -> Nat] /\ parent \in [Items -> Parents] /\ Forest(parent)
  BY DEF TapsInv, StampsAreSound, TapTypes
<1>2. stamp = [stamp EXCEPT ![x] = stamp[x]] /\ parent = [parent EXCEPT ![x] = parent[x]]
      /\ parent[x] \in Parents
  BY <1>1
<1>3. CASE Add(x)
  <2>1. Change(x) /\ stamp' = [stamp EXCEPT ![x] = Now] /\ parent' = parent
    BY <1>3 DEF Add
  <2> QED
    BY <1>1, <1>2, <2>1, ChangeKeeps
<1>4. CASE Unlist(x)
  <2>1. Change(x) /\ stamp' = [stamp EXCEPT ![x] = 0] /\ parent' = parent
    BY <1>4 DEF Unlist
  <2> QED
    BY <1>1, <1>2, <2>1, ChangeKeeps
<1>5. CASE Update(x)
  <2>1. Change(x) /\ (stamp' = [stamp EXCEPT ![x] = Now] \/ stamp' = stamp) /\ parent' = parent
    BY <1>5 DEF Update
  <2> QED
    BY <1>1, <1>2, <2>1, ChangeKeeps
<1>6. CASE Move(x)
  <2>1. PICK f \in Parents : /\ f \in Folders => x \notin Ancestors(f)
                             /\ parent' = [parent EXCEPT ![x] = f]
    BY <1>6 DEF Move
  <2>2. Change(x) /\ stamp' = stamp
    BY <1>6 DEF Move
  <2>3. Forest(parent')
    BY <1>1, <2>1, ForestMoves
  <2> QED
    BY <1>2, <2>1, <2>2, <2>3, ChangeKeeps
<1> QED
  BY <1>3, <1>4, <1>5, <1>6

-----------------------------------------------------------------------------
(* Linear and Twenty *)

LEMMA ProviderKeeps == ASSUME StampsAreSound, UNCHANGED lists PROVE StampsAreSound'
BY DEF StampsAreSound, lists, Listed, Now

LEMMA LongestIs ==
    ASSUME TapTypes
    PROVE  Longest \in Nat /\ \A s \in LinearStreams : Len(received[s]) <= Longest
<1> DEFINE lens == {Len(received[s]) : s \in LinearStreams}
<1>1. /\ Len(received["users"]) \in Nat /\ Len(received["issues"]) \in Nat /\ Len(received["comments"]) \in Nat
  BY LenProperties DEF TapTypes, Streams, LinearStreams
<1>2. \E n \in lens : \A s \in LinearStreams : Len(received[s]) <= n
  <2>1. \E t \in LinearStreams : \A s \in LinearStreams : Len(received[s]) <= Len(received[t])
    BY <1>1 DEF LinearStreams
  <2> QED
    BY <2>1
<1>3. lens \subseteq Nat
  BY <1>1 DEF LinearStreams
<1> QED
  BY <1>2, <1>3 DEF Longest

LEMMA LeftToRead ==
    ASSUME TapsAssumption, NEW k \in Nat, k < StreamLimit
    PROVE  AtMost(PageSize, StreamLimit - k) \in Nat \ {0}
BY DEF TapsAssumption, AtMost

LEMMA LinearRequestKeeps == ASSUME TapsAssumption, TapsInv, LinearRequest PROVE TapsInv'
<1>1. StampsAreSound /\ TapTypes /\ tap = "linear" /\ LinearInv
  BY DEF TapsInv, LinearRequest
<1>2. /\ UNCHANGED lists /\ UNCHANGED <<tap, phase, turn, pending, visited>>
      /\ Longest < StreamLimit /\ phase = "read"
  BY DEF LinearRequest, LinearGoesOn
<1> DEFINE n == AtMost(PageSize, StreamLimit - Longest)
<1>3. n \in Nat \ {0}
  BY <1>1, <1>2, LongestIs, LeftToRead
<1> HIDE DEF n
<1>4. /\ received' = [s \in Streams |-> IF s \in LinearStreams
                    THEN received[s] \o Page(InStream(s), cursor[s], n) ELSE <<>>]
      /\ more' = [s \in Streams |-> s \in LinearStreams => HasNext(InStream(s), cursor[s], n)]
      /\ cursor' = [s \in Streams |-> IF s \in LinearStreams
                       THEN EndCursor(Page(InStream(s), cursor[s], n), cursor[s]) ELSE Nil]
  BY DEF LinearRequest, n
<1>5. LinearStreams \subseteq Streams
  BY DEF Streams
<1>6. ASSUME NEW s \in LinearStreams
      PROVE  /\ IsPaged(s)' /\ received'[s] \in Seq(Items) /\ cursor'[s] \in Nat \union {Nil}
             /\ cursor'[s] # Nil => cursor'[s] < Now
  <2> DEFINE batch == Page(InStream(s), cursor[s], n)
  <2>1. s \in Streams /\ IsPaged(s)
    BY <1>1, <1>5, <1>6 DEF LinearInv
  <2>2. /\ received'[s] = received[s] \o batch /\ cursor'[s] = EndCursor(batch, cursor[s])
        /\ more'[s] = (s \in LinearStreams => HasNext(InStream(s), cursor[s], n))
    BY <1>4, <1>6, <2>1
  <2>3. more'[s] = HasNext(InStream(s), cursor[s], n)
    BY <1>6, <2>2 DEF HasNext
  <2> HIDE DEF batch
  <2>4. batch = Page(InStream(s), cursor[s], n)
    BY DEF batch
  <2> QED
    BY <1>1, <1>2, <1>3, <2>1, <2>2, <2>3, <2>4, PageKeepsStream
<1>7. StampsAreSound' /\ Now' = Now
  BY <1>1, <1>2, ProviderKeeps DEF lists, Now
<1>8. ASSUME NEW s \in Streams
      PROVE  /\ received'[s] \in Seq(Items) /\ more'[s] \in BOOLEAN /\ cursor'[s] \in Nat \union {Nil}
             /\ cursor'[s] # Nil => cursor'[s] < Now
  <2>1. more'[s] \in BOOLEAN
    BY <1>4
  <2>2. CASE s \in LinearStreams
    BY <1>6, <2>1, <2>2
  <2>3. CASE s \notin LinearStreams
    <3>1. received'[s] = <<>> /\ cursor'[s] = Nil
      BY <1>4, <2>3
    <3> QED
      BY <2>1, <3>1
  <2> QED
    BY <2>2, <2>3
<1>9. /\ received' \in [Streams -> Seq(Items)] /\ more' \in [Streams -> BOOLEAN]
      /\ cursor' \in [Streams -> Nat \union {Nil}]
  <2>1. DOMAIN received' = Streams /\ DOMAIN more' = Streams /\ DOMAIN cursor' = Streams
        /\ received' = [s \in Streams |-> received'[s]] /\ more' = [s \in Streams |-> more'[s]]
        /\ cursor' = [s \in Streams |-> cursor'[s]]
    BY <1>4
  <2> QED
    BY <1>8, <2>1
<1>10. TapTypes'
  BY <1>1, <1>2, <1>7, <1>8, <1>9 DEF TapTypes, lists
<1>11. OnlyOfTap'
  <2>1. /\ OfTap(tap) = LinearStreams /\ OfTap(tap)' = LinearStreams /\ OnlyOfTap
    BY <1>1, <1>2 DEF OfTap, TapsInv
  <2>2. \A s \in Streams \ LinearStreams : received'[s] = <<>>
    BY <1>4
  <2> QED
    BY <1>2, <2>1, <2>2 DEF OnlyOfTap, lists, Listed
<1> QED
  BY <1>1, <1>2, <1>6, <1>7, <1>10, <1>11 DEF TapsInv, LinearInv, LacksOnlyTheMoved

LEMMA TwentyRequestKeeps == ASSUME TapsAssumption, TapsInv, TwentyRequest PROVE TapsInv'
<1>1. StampsAreSound /\ TapTypes /\ tap = "twenty" /\ TwentyInv
  BY DEF TapsInv, TwentyRequest
<1>2. /\ UNCHANGED lists /\ UNCHANGED <<tap, phase, turn, pending, visited>>
      /\ Len(received[turn]) < StreamLimit /\ phase = "read" /\ more[turn]
  BY DEF TwentyRequest, TwentyGoesOn
<1>3. turn \in {"companies", "people"} /\ turn \in Streams /\ IsPaged(turn)
  BY <1>1 DEF TwentyInv, Streams
<1> DEFINE n == AtMost(PageSize, StreamLimit - Len(received[turn]))
           batch == Page(InStream(turn), cursor[turn], n)
<1>4. received[turn] \in Seq(Items) /\ Len(received[turn]) \in Nat
  BY <1>1, <1>3, LenProperties DEF TapTypes
<1>5. n \in Nat \ {0}
  BY <1>2, <1>4, LeftToRead
<1> HIDE DEF n
<1>6. /\ received' = [received EXCEPT ![turn] = @ \o batch]
      /\ more' = [more EXCEPT ![turn] = batch # <<>> /\ HasNext(InStream(turn), cursor[turn], n)]
      /\ cursor' = [cursor EXCEPT ![turn] = EndCursor(batch, @)]
  BY DEF TwentyRequest, n
<1>7. batch = Page(InStream(turn), cursor[turn], n)
  OBVIOUS
<1> HIDE DEF batch
<1>8. /\ received'[turn] = received[turn] \o batch /\ cursor'[turn] = EndCursor(batch, cursor[turn])
      /\ more'[turn] = (batch # <<>> /\ HasNext(InStream(turn), cursor[turn], n))
  BY <1>1, <1>3, <1>6 DEF TapTypes
<1>9. /\ IsPaged(turn)' /\ received'[turn] \in Seq(Items) /\ cursor'[turn] \in Nat \union {Nil}
      /\ cursor'[turn] # Nil => cursor'[turn] < Now
  <2> DEFINE s == turn
  <2>1. s \in Streams /\ IsPaged(s) /\ batch = Page(InStream(s), cursor[s], n)
        /\ received'[s] = received[s] \o batch /\ cursor'[s] = EndCursor(batch, cursor[s])
        /\ more'[s] = (batch # <<>> /\ HasNext(InStream(s), cursor[s], n))
    BY <1>3, <1>7, <1>8
  <2>2. \A u \in Streams : u = turn => /\ IsPaged(u)' /\ received'[u] \in Seq(Items)
                                       /\ cursor'[u] \in Nat \union {Nil}
                                       /\ (cursor'[u] # Nil => cursor'[u] < Now)
    <3> SUFFICES ASSUME NEW u \in Streams, u = turn
                 PROVE  /\ IsPaged(u)' /\ received'[u] \in Seq(Items)
                        /\ cursor'[u] \in Nat \union {Nil}
                        /\ (cursor'[u] # Nil => cursor'[u] < Now)
      OBVIOUS
    <3>1. /\ IsPaged(u) /\ batch = Page(InStream(u), cursor[u], n)
          /\ received'[u] = received[u] \o batch /\ cursor'[u] = EndCursor(batch, cursor[u])
          /\ more'[u] = (batch # <<>> /\ HasNext(InStream(u), cursor[u], n))
      BY <2>1
    <3> QED
      BY <1>1, <1>2, <1>5, <3>1, PageKeepsStream
  <2>3. turn' = turn
    BY <1>2
  <2> QED
    BY <1>3, <2>2, <2>3 DEF IsPaged
<1>10. StampsAreSound' /\ Now' = Now
  BY <1>1, <1>2, ProviderKeeps DEF lists, Now
<1>11. \A s \in Streams : s # turn => received'[s] = received[s] /\ more'[s] = more[s] /\ cursor'[s] = cursor[s]
  BY <1>1, <1>6 DEF TapTypes
<1>12. TapTypes'
  <2>1. more'[turn] \in BOOLEAN
    BY <1>8
  <2>2. \A s \in Streams : cursor'[s] # Nil => cursor'[s] < Now'
    BY <1>1, <1>9, <1>10, <1>11 DEF TapTypes
  <2>3. /\ received' \in [Streams -> Seq(Items)] /\ more' \in [Streams -> BOOLEAN]
        /\ cursor' \in [Streams -> Nat \union {Nil}]
    BY <1>1, <1>3, <1>6, <1>8, <1>9, <2>1 DEF TapTypes
  <2> QED
    BY <1>1, <1>2, <2>2, <2>3 DEF TapTypes, lists
<1>13. ASSUME NEW s \in Streams, s # turn, IsPaged(s) PROVE IsPaged(s)'
  BY <1>2, <1>11, <1>13 DEF IsPaged, lists, Listed, InStream
<1>14. IsPaged("companies")' /\ IsPaged("people")'
  <2>1. "companies" \in Streams /\ "people" \in Streams /\ turn' = turn
    BY <1>2 DEF Streams
  <2>2. CASE turn = "companies"
    <3>1. IsPaged("companies")'
      BY <1>2, <1>9, <2>2 DEF IsPaged
    <3> QED
      BY <1>1, <1>13, <2>1, <2>2, <3>1 DEF TwentyInv
  <2>3. CASE turn = "people"
    <3>1. IsPaged("people")'
      BY <1>2, <1>9, <2>3 DEF IsPaged
    <3> QED
      BY <1>1, <1>13, <2>1, <2>3, <3>1 DEF TwentyInv
  <2> QED
    BY <1>3, <2>2, <2>3
<1>15. TwentyInv'
  <2>1. turn = "people" => received'["companies"] = received["companies"] /\ more'["companies"] = more["companies"]
    BY <1>11 DEF Streams
  <2> QED
    BY <1>1, <1>2, <1>14, <2>1 DEF TwentyInv
<1>16. OnlyOfTap'
  <2>1. /\ turn \in OfTap(tap) /\ OfTap(tap)' = OfTap(tap) /\ OnlyOfTap
    BY <1>1, <1>2, <1>3 DEF OfTap, TapsInv
  <2>2. \A s \in Streams \ OfTap(tap) : received'[s] = <<>>
    BY <1>11, <2>1 DEF OnlyOfTap
  <2> QED
    BY <1>2, <2>1, <2>2 DEF OnlyOfTap, lists, Listed
<1> QED
  BY <1>1, <1>2, <1>10, <1>12, <1>15, <1>16 DEF TapsInv, LacksOnlyTheMoved

LEMMA StreamStays ==
    ASSUME NEW s, IsPaged(s), UNCHANGED <<lists, received, more, cursor>>
    PROVE  IsPaged(s)'
BY DEF IsPaged, lists, Listed, InStream

LEMMA TwentyNextKeeps == ASSUME TapsAssumption, TapsInv, TwentyNext PROVE TapsInv'
<1>1. StampsAreSound /\ TapTypes /\ tap = "twenty" /\ TwentyInv /\ turn = "companies" /\ phase = "read"
  BY DEF TapsInv, TwentyNext
<1>2. /\ turn' = "people" /\ UNCHANGED <<lists, tap, phase, received, more, cursor, pending, visited>>
      /\ UNCHANGED <<lists, received, more, cursor>>
  BY DEF TwentyNext
<1>3. StampsAreSound' /\ Now' = Now
  BY <1>1, <1>2, ProviderKeeps DEF lists, Now
<1>4. TapTypes'
  <2>1. UNCHANGED <<stamp, parent, changes, moved>>
    BY <1>2 DEF lists
  <2>2. \A s \in Streams : cursor'[s] # Nil => cursor'[s] < Now'
    BY <1>1, <1>2, <1>3 DEF TapTypes
  <2> QED
    BY <1>1, <1>2, <2>1, <2>2 DEF TapTypes
<1>5. IsPaged("companies")' /\ IsPaged("people")'
  BY <1>1, <1>2, StreamStays DEF TwentyInv
<1>6. Len(received["companies"]) >= StreamLimit \/ ~ more["companies"]
  <2>1. received["companies"] \in Seq(Items) /\ Nil # "companies"
    BY <1>1 DEF TapTypes, TapsAssumption, Streams
  <2>2. Len(received["companies"]) \in Nat /\ StreamLimit \in Nat
    BY <2>1, LenProperties DEF TapsAssumption
  <2> QED
    BY <1>1, <2>1, <2>2 DEF TwentyNext, TwentyGoesOn
<1>7. TwentyInv'
  BY <1>2, <1>5, <1>6 DEF TwentyInv
<1>8. OnlyOfTap'
  BY <1>2 DEF TapsInv, OnlyOfTap, OfTap, lists, Listed
<1> QED
  BY <1>1, <1>2, <1>3, <1>4, <1>7, <1>8 DEF TapsInv, LacksOnlyTheMoved

-----------------------------------------------------------------------------
(* Google Drive *)

LEMMA TailIs ==
    ASSUME NEW T, NEW s \in Seq(T), s # <<>>
    PROVE  /\ Head(s) \in T /\ Tail(s) \in Seq(T)
           /\ Entries(s) = {Head(s)} \union Entries(Tail(s))
<1>1. Len(s) \in Nat /\ Len(s) # 0 /\ \A i \in 1..Len(s) : s[i] \in T
  BY LenProperties, EmptySeq
<1>2. /\ Tail(s) \in Seq(T) /\ Len(Tail(s)) = Len(s) - 1
      /\ \A i \in 1..(Len(s) - 1) : Tail(s)[i] = s[i + 1]
  BY <1>1
<1>3. Head(s) = s[1] /\ 1 \in 1..Len(s)
  BY <1>1
<1>4. Entries(s) = {s[i] : i \in 1..Len(s)} /\ Entries(Tail(s)) = {Tail(s)[i] : i \in 1..(Len(s) - 1)}
  <2>1. Entries(s) = {s[i] : i \in 1..Len(s)}
    BY EntriesOf
  <2>2. Entries(Tail(s)) = {Tail(s)[i] : i \in 1..Len(Tail(s))}
    BY <1>2, EntriesOf
  <2> QED
    BY <1>2, <2>1, <2>2
<1>5. ASSUME NEW i \in 1..Len(s) PROVE s[i] = Head(s) \/ s[i] \in Entries(Tail(s))
  <2>1. i # 1 => i - 1 \in 1..(Len(s) - 1) /\ i - 1 + 1 = i
    BY <1>1
  <2>2. i # 1 => Tail(s)[i - 1] = s[i]
    BY <1>2, <2>1
  <2> QED
    BY <1>3, <1>4, <2>1, <2>2
<1>6. ASSUME NEW i \in 1..(Len(s) - 1) PROVE Tail(s)[i] \in Entries(s)
  <2>1. i + 1 \in 1..Len(s) /\ Tail(s)[i] = s[i + 1]
    BY <1>1, <1>2
  <2> QED
    BY <1>4, <2>1
<1> QED
  BY <1>1, <1>2, <1>3, <1>4, <1>5, <1>6

LEMMA DriveVisitKeeps == ASSUME TapsAssumption, TapsInv, DriveVisit PROVE TapsInv'
<1>1. /\ StampsAreSound /\ TapTypes /\ tap = "drive" /\ DriveInv /\ phase = "read"
      /\ turn = Nil /\ pending # <<>>
  BY DEF TapsInv, DriveVisit
<1>2. /\ pending' = Tail(pending) /\ UNCHANGED <<lists, tap, phase, received, more>>
  BY DEF DriveVisit
<1> DEFINE f == Head(pending)
<1>3. /\ f \in Parents /\ Tail(pending) \in Seq(Parents)
      /\ Entries(pending) = {f} \union Entries(pending')
  BY <1>1, <1>2, TailIs DEF TapTypes
<1>4. \/ /\ f \notin visited /\ turn' = f /\ visited' = visited \union {f}
         /\ cursor' = [cursor EXCEPT !["files"] = Nil]
      \/ f \in visited /\ turn' = turn /\ visited' = visited /\ cursor' = cursor
  BY DEF DriveVisit, Fresh
<1> HIDE DEF f
<1>5. StampsAreSound' /\ Now' = Now
  BY <1>1, <1>2, ProviderKeeps DEF lists, Now
<1>6. "files" \in Streams
  BY DEF Streams
<1>7. cursor' \in [Streams -> Nat \union {Nil}] /\ \A s \in Streams : cursor'[s] # Nil => cursor'[s] < Now
  BY <1>1, <1>4, <1>6 DEF TapTypes
<1>8. TapTypes'
  BY <1>1, <1>2, <1>3, <1>4, <1>5, <1>7 DEF TapTypes, lists
<1>9. visited' \union Entries(pending') = visited \union Entries(pending)
  BY <1>3, <1>4
<1>10. \A x : Taken(x)' <=> Taken(x)
  <2>1. \A x : x \in visited' \union Entries(pending') <=> x \in visited \union Entries(pending)
    BY <1>9
  <2> QED
    BY <1>2, <2>1 DEF Taken
<1>11. /\ stamp' = stamp /\ parent' = parent /\ moved' = moved
       /\ \A x : (Listed(x)' <=> Listed(x))
  BY <1>2 DEF lists, Listed
<1>12. Root \notin Items /\ Nil \notin Items \union {Root} /\ Nil \notin Nat /\ Folders \subseteq Items
  BY DEF TapsAssumption
<1>13. \A x \in InStream("files") : x \in Items /\ parent[x] \in Parents /\ parent[x] # Nil
  BY <1>1, <1>12, ItemsOfStreams DEF TapTypes, Parents
<1>14. \A x \in Entries(received["files"]) : x \in Items
  BY <1>1, <1>6, EntriesOf DEF TapTypes
<1>15. ASSUME NEW x \in InStream("files") \ moved, Listed(x), parent[x] \in visited'
       PROVE  \/ Taken(x)
              \/ parent[x] = turn' /\ (cursor'["files"] = Nil \/ stamp[x] < cursor'["files"])
  BY <1>1, <1>4, <1>6, <1>13, <1>15 DEF DriveInv, TapTypes
<1>16. ASSUME NEW x \in Entries(received["files"]) \ moved
       PROVE  /\ parent[x] \in visited'
              /\ parent[x] = turn' => cursor'["files"] # Nil /\ stamp[x] >= cursor'["files"]
  BY <1>1, <1>4, <1>12, <1>16 DEF DriveInv
<1>17. turn' \in visited' \union {Nil}
  BY <1>1, <1>4
<1>18. Root \in visited' \union Entries(pending')
  BY <1>1, <1>9 DEF DriveInv
<1>19. DriveInv'
  BY <1>1, <1>2, <1>10, <1>11, <1>15, <1>16, <1>17, <1>18 DEF DriveInv, InStream, lists
<1>20. OnlyOfTap'
  BY <1>2, <1>11 DEF TapsInv, OnlyOfTap, OfTap
<1> QED
  BY <1>1, <1>2, <1>5, <1>8, <1>19, <1>20 DEF TapsInv, LacksOnlyTheMoved

LEMMA DriveRequestKeeps == ASSUME TapsAssumption, TapsInv, DriveRequest PROVE TapsInv'
<1>1. StampsAreSound /\ TapTypes /\ tap = "drive" /\ DriveInv /\ phase = "read" /\ turn # Nil
  BY DEF TapsInv, DriveRequest
<1> DEFINE S == Children(turn)
           c == cursor["files"]
           batch == Page(S, c, PageSize)
           files == InOrder(Entries(batch) \ Folders)
           subfolders == InOrder(Entries(batch) \intersect Folders)
           last == EndCursor(batch, c)
<1>2. /\ received' = [received EXCEPT !["files"] = @ \o files]
      /\ pending' = pending \o subfolders
      /\ cursor' = [cursor EXCEPT !["files"] = last]
      /\ turn' = IF HasNext(S, c, PageSize) THEN turn ELSE Nil
      /\ UNCHANGED <<lists, tap, phase, more, visited>>
  BY DEF DriveRequest
<1>3. "files" \in Streams
  BY DEF Streams
<1>4. /\ c \in Nat \union {Nil} /\ (c # Nil => c < Now) /\ received["files"] \in Seq(Items)
      /\ pending \in Seq(Parents) /\ PageSize \in Nat \ {0}
  BY <1>1, <1>3 DEF TapTypes, TapsAssumption
<1>5. /\ Root \notin Items /\ Nil \notin Items \union {Root} /\ Nil \notin Nat
      /\ Folders \subseteq Items /\ Folders \subseteq Parents
  BY DEF TapsAssumption, Parents
<1>6. S \subseteq Items /\ \A x \in S : x \in InStream("files") /\ parent[x] = turn
  BY DEF Children, InStream
<1>7. \A x \in InStream("files") : parent[x] = turn => x \in S
  BY DEF Children, InStream
<1>8. turn \in visited
  BY <1>1 DEF DriveInv
<1> HIDE DEF S, c
<1>9. Distinct(Rest(S, c))
  BY <1>1, <1>6, RestIsDistinct
<1>10. PageIsSound(S, c, PageSize, batch, last)
  BY <1>4, <1>9, PageIs
<1> HIDE DEF batch, last
<1>11. /\ Entries(batch) \subseteq Rest(S, c)
       /\ last \in Nat \union {Nil} /\ (c # Nil => last # Nil /\ last <= c)
       /\ \A x \in Rest(S, c) \ Entries(batch) : last # Nil /\ stamp[x] < last
       /\ \A x \in Entries(batch) : last # Nil /\ stamp[x] >= last
       /\ last = c \/ \E x \in S : last = stamp[x]
       /\ ~ HasNext(S, c, PageSize) => Entries(batch) = Rest(S, c)
  BY <1>10 DEF PageIsSound
<1>12. /\ \A x \in Rest(S, c) : x \in S /\ Listed(x) /\ (c = Nil \/ stamp[x] < c)
       /\ \A x \in S : Listed(x) /\ (c = Nil \/ stamp[x] < c) => x \in Rest(S, c)
  BY DEF Rest
<1>13. Distinct(Entries(batch) \ Folders) /\ Distinct(Entries(batch) \intersect Folders)
  <2>1. /\ IsFiniteSet(Rest(S, c)) /\ \A x \in Rest(S, c) : stamp[x] \in Nat
        /\ \A x, y \in Rest(S, c) : stamp[x] = stamp[y] => x = y
    BY <1>9 DEF Distinct
  <2>2. Entries(batch) \ Folders \subseteq Rest(S, c) /\ Entries(batch) \intersect Folders \subseteq Rest(S, c)
    BY <1>11
  <2>3. IsFiniteSet(Entries(batch) \ Folders) /\ IsFiniteSet(Entries(batch) \intersect Folders)
    BY <2>1, <2>2, FS_Subset
  <2> QED
    BY <2>1, <2>2, <2>3 DEF Distinct
<1> HIDE DEF files, subfolders
<1>14. /\ files \in Seq(Items) /\ Entries(files) = Entries(batch) \ Folders /\ Once(files, moved)
  <2>1. /\ files \in Seq(Entries(batch) \ Folders) /\ Entries(files) = Entries(batch) \ Folders
        /\ \A but : Once(files, but)
    BY <1>13, FallingIsOnce DEF files
  <2>2. Entries(batch) \ Folders \subseteq Items
    BY <1>6, <1>11, <1>12
  <2> QED
    BY <2>1, <2>2
<1>15. subfolders \in Seq(Parents) /\ Entries(subfolders) = Entries(batch) \intersect Folders
  <2>1. /\ subfolders \in Seq(Entries(batch) \intersect Folders)
        /\ Entries(subfolders) = Entries(batch) \intersect Folders
    BY <1>13, FallingIsOnce DEF subfolders
  <2>2. Entries(batch) \intersect Folders \subseteq Parents
    BY <1>5
  <2> QED
    BY <2>1, <2>2
<1>16. /\ received'["files"] = received["files"] \o files /\ received'["files"] \in Seq(Items)
       /\ Entries(received'["files"]) = Entries(received["files"]) \union (Entries(batch) \ Folders)
  <2>1. received'["files"] = received["files"] \o files
    BY <1>1, <1>2, <1>3 DEF TapTypes
  <2> QED
    BY <1>4, <1>14, <2>1, Joined
<1>17. /\ pending' \in Seq(Parents)
       /\ Entries(pending') = Entries(pending) \union (Entries(batch) \intersect Folders)
  BY <1>2, <1>4, <1>15, Joined
<1>18. cursor'["files"] = last /\ (last # Nil => last < Now)
  <2>1. cursor'["files"] = last
    BY <1>1, <1>2, <1>3 DEF TapTypes
  <2>2. \A x \in S : stamp[x] < Now
    BY <1>1, <1>6 DEF StampsAreSound
  <2> QED
    BY <1>4, <1>11, <2>1, <2>2
<1>19. StampsAreSound' /\ Now' = Now
  BY <1>1, <1>2, ProviderKeeps DEF lists, Now
<1>20. TapTypes'
  <2>1. \A s \in Streams : s # "files" => received'[s] = received[s] /\ cursor'[s] = cursor[s]
    BY <1>1, <1>2 DEF TapTypes
  <2>2. \A s \in Streams : cursor'[s] # Nil => cursor'[s] < Now'
    BY <1>1, <1>18, <1>19, <2>1 DEF TapTypes
  <2>3. received' \in [Streams -> Seq(Items)] /\ cursor' \in [Streams -> Nat \union {Nil}]
    BY <1>1, <1>2, <1>11, <1>16, <1>18, <2>1 DEF TapTypes
  <2>4. turn' \in Parents \union {"companies", "people", Nil}
    BY <1>1, <1>2 DEF TapTypes
  <2> QED
    BY <1>1, <1>2, <1>17, <2>2, <2>3, <2>4 DEF TapTypes, lists
<1>21. \A x : Taken(x) => Taken(x)'
  BY <1>2, <1>16, <1>17 DEF Taken
<1>22. \A x \in Entries(batch) : Taken(x)'
  BY <1>2, <1>16, <1>17 DEF Taken
<1>23. \A x \in Items : stamp[x] \in Nat
  BY <1>1 DEF StampsAreSound
<1>24. ASSUME NEW x \in InStream("files") \ moved, Listed(x), parent[x] \in visited
       PROVE  \/ Taken(x)'
              \/ parent[x] = turn' /\ (last = Nil \/ stamp[x] < last)
  <2>1. Taken(x) \/ (parent[x] = turn /\ (c = Nil \/ stamp[x] < c))
    BY <1>1, <1>24 DEF DriveInv, c
  <2>2. CASE Taken(x)
    BY <1>21, <2>2
  <2>3. CASE parent[x] = turn /\ (c = Nil \/ stamp[x] < c)
    <3>1. x \in Rest(S, c)
      BY <1>7, <1>12, <1>24, <2>3
    <3>2. CASE x \in Entries(batch)
      BY <1>22, <3>2
    <3>3. CASE x \notin Entries(batch)
      <4>1. stamp[x] < last
        BY <1>11, <3>1, <3>3
      <4>2. HasNext(S, c, PageSize)
        BY <1>11, <3>1, <3>3
      <4> QED
        BY <1>2, <2>3, <4>1, <4>2
    <3> QED
      BY <3>2, <3>3
  <2> QED
    BY <2>1, <2>2, <2>3
<1>25. \A x \in Entries(received["files"]) \ moved :
          parent[x] \in visited /\ (parent[x] = turn => c # Nil /\ stamp[x] >= c)
  BY <1>1 DEF DriveInv, c
<1>26. ASSUME NEW x \in Entries(received'["files"]) \ moved
       PROVE  /\ parent[x] \in visited
              /\ parent[x] = turn' => last # Nil /\ stamp[x] >= last
  <2>1. CASE x \in Entries(batch)
    BY <1>6, <1>8, <1>11, <1>12, <2>1
  <2>2. CASE x \in Entries(received["files"])
    <3>1. turn' = Nil \/ turn' = turn
      BY <1>2
    <3>2. parent[x] # Nil /\ x \in Items
      <4>1. x \in Items
        BY <1>4, <2>2, EntriesOf
      <4> QED
        BY <1>1, <1>5, <4>1 DEF TapTypes, Parents
    <3>3. stamp[x] \in Nat
      BY <1>23, <3>2
    <3>4. parent[x] = turn => last # Nil /\ stamp[x] >= last
      BY <1>4, <1>5, <1>11, <1>25, <1>26, <2>2, <3>3
    <3> QED
      BY <1>25, <1>26, <2>2, <3>1, <3>2, <3>4
  <2> QED
    BY <1>16, <1>26, <2>1, <2>2
<1>27. Once(received'["files"], moved)
  <2>1. Once(received["files"], moved)
    BY <1>1 DEF DriveInv
  <2>2. Entries(received["files"]) \intersect Entries(files) \subseteq moved
    <3> SUFFICES ASSUME NEW x \in Entries(received["files"]) \ moved, x \in Entries(batch) PROVE FALSE
      BY <1>14
    <3>1. /\ x \in S /\ x \in Items /\ parent[x] = turn /\ (c = Nil \/ stamp[x] < c)
      BY <1>6, <1>11, <1>12
    <3>2. c # Nil /\ stamp[x] >= c /\ c \in Nat /\ stamp[x] \in Nat
      BY <1>4, <1>23, <1>25, <3>1
    <3> QED
      BY <3>1, <3>2
  <2> QED
    BY <1>4, <1>14, <1>16, <2>1, <2>2, Joined
<1>28. /\ stamp' = stamp /\ parent' = parent /\ moved' = moved /\ visited' = visited
       /\ \A x : (Listed(x)' <=> Listed(x))
  BY <1>2 DEF lists, Listed
<1>29. Root \in visited \union Entries(pending') /\ turn' \in visited \union {Nil}
  BY <1>1, <1>2, <1>8, <1>17 DEF DriveInv
<1>30. DriveInv'
  BY <1>18, <1>24, <1>26, <1>27, <1>28, <1>29 DEF DriveInv, InStream
<1>31. OnlyOfTap'
  <2>1. "files" \in OfTap(tap) /\ OfTap(tap)' = OfTap(tap) /\ OnlyOfTap
    BY <1>1, <1>2 DEF OfTap, TapsInv
  <2>2. \A s \in Streams \ OfTap(tap) : received'[s] = <<>>
    BY <1>1, <1>2, <2>1 DEF OnlyOfTap, TapTypes
  <2> QED
    BY <1>28, <2>1, <2>2 DEF OnlyOfTap
<1> QED
  BY <1>1, <1>2, <1>19, <1>20, <1>30, <1>31 DEF TapsInv, LacksOnlyTheMoved

-----------------------------------------------------------------------------
(* What is sent *)

LEMMA ReadStays ==
    ASSUME UNCHANGED <<stamp, parent, tap, received>>
    PROVE  /\ Cut' = Cut /\ ReadItems' = ReadItems
           /\ \A x : Ancestors(x)' = Ancestors(x) /\ (Listed(x)' <=> Listed(x))
<1>1. Cut' = Cut
  BY DEF Cut, Longest, OfTap
<1>2. ReadItems' = ReadItems
  BY DEF ReadItems, Entries
<1>3. \A x : Ancestors(x)' = Ancestors(x)
  BY DEF Ancestors
<1> QED
  BY <1>1, <1>2, <1>3 DEF Listed

\* What is read by the end of the run is all that is asked for.
LEMMA SentKeeps ==
    ASSUME TapsAssumption, TapsInv, Printed,
           \A x \in Items \ Folders :
              Listed(x) /\ StreamOf[x] \notin Cut /\ Ancestors(x) \intersect moved = {}
              => x \in ReadItems \/ \E f \in Ancestors(x) : ~ Listed(f)
    PROVE  TapsInv'
<1>1. /\ StampsAreSound /\ TapTypes /\ OnlyOfTap /\ (tap = "linear" => LinearInv)
      /\ (tap = "twenty" => TwentyInv) /\ (tap = "drive" => DriveInv)
  BY DEF TapsInv
<1>2. /\ phase' = "sent" /\ UNCHANGED <<lists, tap, reading>>
      /\ UNCHANGED <<lists, received, more, cursor>>
      /\ UNCHANGED <<stamp, parent, changes, moved, tap, received, more, cursor, turn, pending, visited>>
  BY DEF Printed, lists, reading
<1>3. StampsAreSound' /\ Now' = Now
  BY <1>1, <1>2, ProviderKeeps DEF Now
<1>4. TapTypes' /\ OnlyOfTap'
  BY <1>1, <1>2, <1>3 DEF TapTypes, OnlyOfTap, Listed, OfTap
<1>5. \A s : IsPaged(s) => IsPaged(s)'
  BY <1>2, StreamStays
<1>6. /\ (tap = "linear" => LinearInv)' /\ (tap = "twenty" => TwentyInv)'
      /\ (tap = "drive" => DriveInv)'
  <2>1. (tap = "linear" => LinearInv)'
    BY <1>1, <1>2, <1>5 DEF LinearInv
  <2>2. (tap = "twenty" => TwentyInv)'
    BY <1>1, <1>2, <1>5 DEF TwentyInv
  <2>3. (tap = "drive" => DriveInv)'
    BY <1>1, <1>2 DEF DriveInv, Taken, Listed, InStream
  <2> QED
    BY <2>1, <2>2, <2>3
<1>7. LacksOnlyTheMoved'
  <2>1. Cut' = Cut /\ ReadItems' = ReadItems /\ moved' = moved
    BY <1>2, ReadStays
  <2>2. \A x : Ancestors(x)' = Ancestors(x) /\ (Listed(x)' <=> Listed(x))
    BY <1>2, ReadStays
  <2> QED
    BY <2>1, <2>2 DEF LacksOnlyTheMoved
<1> QED
  BY <1>3, <1>4, <1>6, <1>7 DEF TapsInv

LEMMA ReadIs == ASSUME NEW s \in Streams, NEW x \in Entries(received[s]) PROVE x \in ReadItems
BY DEF ReadItems

LEMMA UnmovedItself ==
    ASSUME TapsAssumption, TapsInv, NEW x \in Items, Ancestors(x) \intersect moved = {}
    PROVE  x \notin moved /\ x \in InStream(StreamOf[x])
<1>1. parent \in [Items -> Parents]
  BY DEF TapsInv, TapTypes
<1>2. x \in Ancestors(x)
  BY <1>1, AncestorsAre
<1> QED
  BY <1>2 DEF InStream

LEMMA LinearEndKeeps == ASSUME TapsAssumption, TapsInv, LinearEnd PROVE TapsInv'
<1>1. /\ TapTypes /\ OnlyOfTap /\ LinearInv /\ tap = "linear" /\ ~ LinearGoesOn /\ Printed
  BY DEF TapsInv, LinearEnd
<1> SUFFICES ASSUME NEW x \in Items \ Folders, Listed(x), StreamOf[x] \notin Cut,
                    Ancestors(x) \intersect moved = {}
             PROVE  x \in ReadItems
  BY <1>1, SentKeeps
<1>2. StreamOf[x] \in LinearStreams /\ x \in InStream(StreamOf[x]) \ moved
  BY <1>1, UnmovedItself DEF OnlyOfTap, OfTap
<1>3. Longest \in Nat /\ StreamLimit \in Nat
  BY <1>1, LongestIs DEF TapsAssumption
<1>4. ~ (Longest >= StreamLimit)
  BY <1>1, <1>2 DEF Cut
<1>5. ~ more[StreamOf[x]]
  BY <1>1, <1>2, <1>3, <1>4 DEF LinearGoesOn
<1>6. x \in Entries(received[StreamOf[x]])
  BY <1>1, <1>2, <1>5 DEF LinearInv, IsPaged
<1> QED
  BY <1>2, <1>6, ReadIs DEF Streams

LEMMA TwentyEndKeeps == ASSUME TapsAssumption, TapsInv, TwentyEnd PROVE TapsInv'
<1>1. /\ TapTypes /\ OnlyOfTap /\ TwentyInv /\ tap = "twenty" /\ ~ TwentyGoesOn /\ turn = "people"
      /\ Printed
  BY DEF TapsInv, TwentyEnd
<1> SUFFICES ASSUME NEW x \in Items \ Folders, Listed(x), StreamOf[x] \notin Cut,
                    Ancestors(x) \intersect moved = {}
             PROVE  x \in ReadItems
  BY <1>1, SentKeeps
<1>2. StreamOf[x] \in {"companies", "people"} /\ x \in InStream(StreamOf[x]) \ moved
  BY <1>1, UnmovedItself DEF OnlyOfTap, OfTap
<1>3. /\ Len(received["companies"]) \in Nat /\ Len(received["people"]) \in Nat /\ StreamLimit \in Nat
      /\ Nil # "people"
  BY <1>1, LenProperties DEF TapTypes, Streams, TapsAssumption
<1>4. ~ (Len(received[StreamOf[x]]) >= StreamLimit)
  BY <1>1, <1>2 DEF Cut, OfTap
<1>5. ~ more[StreamOf[x]]
  BY <1>1, <1>2, <1>3, <1>4 DEF TwentyGoesOn, TwentyInv
<1>6. x \in Entries(received[StreamOf[x]])
  BY <1>1, <1>2, <1>5 DEF TwentyInv, IsPaged
<1> QED
  BY <1>2, <1>6, ReadIs DEF Streams

\* Where no folder is left to visit, a file whose ancestors nobody changed was
\* read: the first of them that was not visited would be in one that was.
LEMMA DriveEndKeeps == ASSUME TapsAssumption, TapsInv, DriveEnd PROVE TapsInv'
<1>1. /\ TapTypes /\ OnlyOfTap /\ DriveInv /\ tap = "drive" /\ turn = Nil /\ pending = <<>> /\ Printed
  BY DEF TapsInv, DriveEnd
<1> SUFFICES ASSUME NEW x \in Items \ Folders, Listed(x), Ancestors(x) \intersect moved = {},
                    \A f \in Ancestors(x) : Listed(f), x \notin ReadItems
             PROVE  FALSE
  BY <1>1, SentKeeps
<1>2. /\ Root \notin Items /\ Nil \notin Items \union {Root} /\ Folders \subseteq Items
      /\ Folders \subseteq InStream("files") /\ "files" \in Streams
  BY DEF TapsAssumption, InStream, Streams
<1>3. parent \in [Items -> Parents] /\ Forest(parent)
  BY <1>1 DEF TapTypes
<1>4. /\ x \in Ancestors(x) /\ Ancestors(x) \subseteq Folders \union {x}
      /\ \A y \in Ancestors(x) : parent[y] \in Ancestors(x) \union {Root}
  BY <1>3, AncestorsAre
<1>5. Entries(pending) = {} /\ Root \in visited
  <2>1. Entries(pending) = {}
    BY <1>1 DEF Entries
  <2> QED
    BY <1>1, <2>1 DEF DriveInv
<1>6. x \in InStream("files")
  BY <1>1, UnmovedItself DEF OnlyOfTap, OfTap
<1>7. ASSUME NEW y \in Ancestors(x), parent[y] \in visited PROVE Taken(y)
  <2>1. y \in InStream("files") \ moved /\ Listed(y)
    BY <1>2, <1>4, <1>6
  <2>2. parent[y] # turn
    <3>1. y \in Items /\ parent[y] \in Parents
      BY <1>2, <1>3, <1>4
    <3> QED
      BY <1>1, <1>2, <3>1 DEF Parents
  <2> QED
    BY <1>1, <1>7, <2>1, <2>2 DEF DriveInv
<1>8. ~ Taken(x)
  BY <1>2, ReadIs DEF Taken
<1>9. parent[x] \notin visited
  BY <1>4, <1>7, <1>8
<1> DEFINE S == {f \in Ancestors(x) \intersect Folders : f \notin visited}
<1>10. parent[x] \in S
  <2>1. parent[x] \in Ancestors(x) /\ parent[x] # Root
    BY <1>4, <1>5, <1>9
  <2>2. parent[x] \in Folders
    BY <1>3, <2>1 DEF Parents
  <2> QED
    BY <1>9, <2>1, <2>2
<1>11. S \in SUBSET Folders /\ S # {}
  BY <1>10
<1>12. PICK f \in S : parent[f] \notin S
  BY <1>3, <1>11 DEF Forest
<1>13. parent[f] \in visited
  <2>1. f \in Items /\ f \in Ancestors(x) /\ f \in Folders
    BY <1>2, <1>12
  <2>2. parent[f] = Root \/ (parent[f] \in Ancestors(x) /\ parent[f] \in Folders)
    BY <1>3, <1>4, <2>1 DEF Parents
  <2> QED
    BY <1>5, <1>12, <2>2
<1>14. f \in visited
  BY <1>5, <1>7, <1>12, <1>13 DEF Taken
<1> QED
  BY <1>12, <1>14

LEMMA FailKeeps == ASSUME TapsAssumption, TapsInv, Fail PROVE TapsInv'
<1>1. /\ StampsAreSound /\ TapTypes /\ OnlyOfTap /\ (tap = "linear" => LinearInv)
      /\ (tap = "twenty" => TwentyInv) /\ (tap = "drive" => DriveInv)
  BY DEF TapsInv
<1>2. /\ phase' = "failed" /\ UNCHANGED lists /\ UNCHANGED <<lists, received, more, cursor>>
      /\ UNCHANGED <<stamp, parent, changes, moved, tap, received, more, cursor, turn, pending, visited>>
  BY DEF Fail, lists, reading
<1>3. StampsAreSound' /\ Now' = Now
  BY <1>1, <1>2, ProviderKeeps DEF Now
<1>4. TapTypes' /\ OnlyOfTap'
  BY <1>1, <1>2, <1>3 DEF TapTypes, OnlyOfTap, Listed, OfTap
<1>5. \A s : IsPaged(s) => IsPaged(s)'
  BY <1>2, StreamStays
<1>6. (tap = "linear" => LinearInv)' /\ (tap = "twenty" => TwentyInv)'
  BY <1>1, <1>2, <1>5 DEF LinearInv, TwentyInv
<1>7. (tap = "drive" => DriveInv)'
  BY <1>1, <1>2 DEF DriveInv, Taken, Listed, InStream
<1>8. LacksOnlyTheMoved'
  BY <1>2 DEF LacksOnlyTheMoved
<1> QED
  BY <1>3, <1>4, <1>6, <1>7, <1>8 DEF TapsInv

LEMMA TapsInvStep == ASSUME TapsAssumption, TapsInv, [TapNext]_tapVars PROVE TapsInv'
<1>1. CASE \E x \in Items : Add(x) \/ Unlist(x) \/ Update(x) \/ Move(x)
  BY <1>1, UsersKeep
<1>2. CASE Read
  BY <1>2, LinearRequestKeeps, LinearEndKeeps, TwentyRequestKeeps, TwentyNextKeeps,
     TwentyEndKeeps, DriveVisitKeeps, DriveRequestKeeps, DriveEndKeeps DEF Read
<1>3. CASE Fail
  BY <1>3, FailKeeps
<1>4. CASE UNCHANGED tapVars
  <2>1. /\ UNCHANGED <<lists, phase>> /\ UNCHANGED <<lists, received, more, cursor>>
        /\ UNCHANGED <<stamp, parent, tap, received>> /\ UNCHANGED <<moved, phase>>
        /\ UNCHANGED <<stamp, parent, changes, moved, tap, received, more, cursor, turn, pending, visited>>
    BY <1>4 DEF tapVars, lists, reading
  <2>2. /\ StampsAreSound /\ TapTypes /\ OnlyOfTap /\ (tap = "linear" => LinearInv)
        /\ (tap = "twenty" => TwentyInv) /\ (tap = "drive" => DriveInv) /\ LacksOnlyTheMoved
    BY DEF TapsInv
  <2>3. StampsAreSound' /\ Now' = Now
    BY <2>1, <2>2, ProviderKeeps DEF Now
  <2>4. TapTypes' /\ OnlyOfTap'
    BY <2>1, <2>2, <2>3 DEF TapTypes, OnlyOfTap, Listed, OfTap
  <2>5. \A s : IsPaged(s) => IsPaged(s)'
    BY <2>1, StreamStays
  <2>6. (tap = "linear" => LinearInv)' /\ (tap = "twenty" => TwentyInv)'
    BY <2>1, <2>2, <2>5 DEF LinearInv, TwentyInv
  <2>7. (tap = "drive" => DriveInv)'
    BY <2>1, <2>2 DEF DriveInv, Taken, Listed, InStream
  <2>8. /\ Cut' = Cut /\ ReadItems' = ReadItems
        /\ \A x : Ancestors(x)' = Ancestors(x) /\ (Listed(x)' <=> Listed(x))
    BY <2>1, ReadStays
  <2>9. LacksOnlyTheMoved'
    BY <2>1, <2>2, <2>8 DEF LacksOnlyTheMoved
  <2> QED
    BY <2>3, <2>4, <2>6, <2>7, <2>9 DEF TapsInv
<1> QED
  BY <1>1, <1>2, <1>3, <1>4 DEF TapNext

LEMMA TapsInvIsWhole == ASSUME TapsAssumption, TapsInv PROVE StreamsAreWhole
<1>1. TapTypes /\ OnlyOfTap /\ LacksOnlyTheMoved
  BY DEF TapsInv
<1>2. TwiceOnlyIfMoved
  <2> SUFFICES ASSUME NEW s \in Streams, NEW i \in DOMAIN received[s], NEW j \in DOMAIN received[s],
                      received[s][i] = received[s][j], i # j
               PROVE  tap = "drive" /\ received[s][i] \in moved
    BY DEF TwiceOnlyIfMoved
  <2>1. s \in OfTap(tap)
    BY <1>1 DEF OnlyOfTap
  <2>2. CASE tap = "linear"
    BY <2>1, <2>2 DEF TapsInv, LinearInv, IsPaged, Once, OfTap
  <2>3. CASE tap = "twenty"
    BY <2>1, <2>3 DEF TapsInv, TwentyInv, IsPaged, Once, OfTap
  <2>4. CASE tap = "drive"
    BY <2>1, <2>4 DEF TapsInv, DriveInv, Once, OfTap
  <2> QED
    BY <1>1, <2>2, <2>3, <2>4 DEF TapTypes, Taps
<1> QED
  BY <1>1, <1>2 DEF StreamsAreWhole

\* What a tap sends is what the provider lists, each item once, but for the limit
\* and what is changed while it reads; for any number of items, folders in folders
\* to any depth, any page size and limit.
THEOREM TapsSendTheWhole == ASSUME TapsAssumption PROVE TapSpec => []StreamsAreWhole
<1>1. TapInit => TapsInv
  BY TapsInvInit
<1>2. TapsInv /\ [TapNext]_tapVars => TapsInv'
  BY TapsInvStep
<1>3. TapsInv => StreamsAreWhole
  BY TapsInvIsWhole
<1> QED
  BY <1>1, <1>2, <1>3, PTL DEF TapSpec


-----------------------------------------------------------------------------
(* Numbers of words *)

\* A set of natural numbers has a least one.
LEMMA LeastNatural ==
    ASSUME NEW S \in SUBSET Nat, S # {}
    PROVE  \E m \in S : \A n \in S : m <= n
<1> DEFINE less == {ss \in Nat \X Nat : ss[1] < ss[2]}
<1>1. IsWellFoundedOn(less, Nat)
  BY NatLessThanWellFounded DEF OpToRel
<1>2. PICK m \in S : \A n \in S : ~ (<<n, m>> \in less)
  BY <1>1, WFMin
<1>3. \A n \in S : ~ (n < m)
  BY <1>2
<1> QED
  BY <1>3

\* What holds of 0 and, up to N, of a number if of the one before it, holds of
\* all of them.
LEMMA BoundedInduction ==
    ASSUME NEW N \in Nat, NEW G, 0 \in G, \A n \in 1..N : n - 1 \in G => n \in G
    PROVE  \A n \in 0..N : n \in G
<1> SUFFICES ASSUME NEW bad \in 0..N, bad \notin G PROVE FALSE
  OBVIOUS
<1> DEFINE less == {ss \in Nat \X Nat : ss[1] < ss[2]}
           missing == {n \in 0..N : n \notin G}
<1>1. IsWellFoundedOn(less, Nat)
  BY NatLessThanWellFounded DEF OpToRel
<1>2. missing \subseteq Nat /\ bad \in missing
  OBVIOUS
<1>3. PICK m \in missing : \A n \in missing : ~ (<<n, m>> \in less)
  BY <1>1, <1>2, WFMin
<1>4. \A n \in missing : ~ (n < m)
  BY <1>2, <1>3
<1>5. m \in 1..N /\ m - 1 \in 0..N /\ m - 1 < m
  BY <1>3
<1> QED
  BY <1>3, <1>4, <1>5

\* f begins with s0 and goes on by the step function F.
Follows(f, N, S, s0, F) ==
    /\ f \in [0..N -> S] /\ f[0] = s0
    /\ \A n \in 1..N : f[n] = F[n][f[n - 1]]

LEMMA RecursiveSequence ==
    ASSUME NEW N \in Nat, NEW S, NEW s0 \in S, NEW F \in [1..N -> [S -> S]]
    PROVE  \E f : Follows(f, N, S, s0, F)
<1> DEFINE G == {n \in 0..N : \E f : Follows(f, n, S, s0, F)}
<1>1. 0 \in G
  <2>1. Follows([m \in 0..0 |-> s0], 0, S, s0, F)
    BY DEF Follows
  <2>2. \E f : Follows(f, 0, S, s0, F)
    BY <2>1
  <2> QED
    BY <2>2
<1>2. ASSUME NEW n \in 1..N, n - 1 \in G PROVE n \in G
  <2>1. PICK f : Follows(f, n - 1, S, s0, F)
    BY <1>2
  <2> DEFINE g == [m \in 0..n |-> IF m = n THEN F[n][f[n - 1]] ELSE f[m]]
  <2>2. n - 1 \in 0..(n - 1) /\ f[n - 1] \in S
    BY <2>1 DEF Follows
  <2>3. F[n][f[n - 1]] \in S
    BY <2>2
  <2>4. \A m \in 0..(n - 1) : g[m] = f[m]
    OBVIOUS
  <2>5. g \in [0..n -> S]
    <3>1. ASSUME NEW m \in 0..n PROVE g[m] \in S
      <4>1. CASE m = n
        BY <2>3, <4>1
      <4>2. CASE m # n
        BY <2>1, <4>2 DEF Follows
      <4> QED
        BY <4>1, <4>2
    <3> QED
      BY <3>1
  <2>6. g[0] = s0
    BY <2>1 DEF Follows
  <2>7. ASSUME NEW m \in 1..n PROVE g[m] = F[m][g[m - 1]]
    <3>1. g[m - 1] = f[m - 1]
      BY <2>4
    <3>2. CASE m = n
      BY <3>1, <3>2
    <3>3. CASE m # n
      <4>1. m \in 1..(n - 1) /\ m \in 0..(n - 1)
        BY <3>3
      <4>2. g[m] = f[m] /\ f[m] = F[m][f[m - 1]]
        BY <2>1, <2>4, <4>1 DEF Follows
      <4> QED
        BY <3>1, <4>2
    <3> QED
      BY <3>2, <3>3
  <2> HIDE DEF g
  <2>8. Follows(g, n, S, s0, F)
    BY <2>5, <2>6, <2>7 DEF Follows
  <2> QED
    BY <2>8
<1>3. N \in G
  <2>1. \A n \in 1..N : n - 1 \in G => n \in G
    BY <1>2
  <2> HIDE DEF G
  <2>2. \A n \in 0..N : n \in G
    BY <1>1, <2>1, BoundedInduction
  <2> QED
    BY <2>2
<1> QED
  BY <1>3 DEF G


LEMMA TotalIsNatural == ASSUME NEW s \in Seq(Nat) PROVE Total(s) \in Nat
<1> DEFINE N == Len(s)
           add == [n \in 1..N |-> [m \in Nat |-> m + s[n]]]
           IsSum(f) == f = [n \in 0..N |-> IF n = 0 THEN 0 ELSE f[n - 1] + s[n]]
<1>1. N \in Nat /\ \A n \in 1..N : s[n] \in Nat
  BY LenProperties
<1>2. add \in [1..N -> [Nat -> Nat]]
  BY <1>1
<1>3. PICK f : Follows(f, N, Nat, 0, add)
  <2> HIDE DEF N, add
  <2> QED
    BY <1>1, <1>2, RecursiveSequence
<1>4. f \in [0..N -> Nat] /\ f[0] = 0 /\ \A n \in 1..N : f[n] = add[n][f[n - 1]]
  BY <1>3 DEF Follows
<1>5. \A n \in 1..N : f[n - 1] \in Nat /\ f[n] = f[n - 1] + s[n]
  <2> SUFFICES ASSUME NEW n \in 1..N PROVE f[n - 1] \in Nat /\ f[n] = f[n - 1] + s[n]
    OBVIOUS
  <2>1. n - 1 \in 0..N
    BY <1>1
  <2>2. f[n - 1] \in Nat
    BY <1>4, <2>1
  <2>3. add[n][f[n - 1]] = f[n - 1] + s[n]
    BY <2>2
  <2> HIDE DEF add
  <2> QED
    BY <1>4, <2>2, <2>3
<1>6. IsSum(f)
  <2> HIDE DEF add
  <2>1. f = [n \in 0..N |-> f[n]]
    BY <1>4
  <2>2. \A n \in 0..N : f[n] = IF n = 0 THEN 0 ELSE f[n - 1] + s[n]
    BY <1>1, <1>4, <1>5
  <2> QED
    BY <2>1, <2>2
<1> DEFINE total == CHOOSE g : IsSum(g)
           G == {n \in 0..N : total[n] \in Nat}
<1>7. IsSum(total)
  <2> HIDE DEF IsSum
  <2> QED
    BY <1>6
<1>12. total[0] = 0 /\ \A n \in 1..N : total[n] = total[n - 1] + s[n]
  <2> HIDE DEF total
  <2> QED
    BY <1>1, <1>7
<1>8. 0 \in G
  <2> HIDE DEF total
  <2> QED
    BY <1>1, <1>12
<1>9. \A n \in 1..N : n - 1 \in G => n \in G
  <2> SUFFICES ASSUME NEW n \in 1..N, n - 1 \in G PROVE n \in G
    OBVIOUS
  <2> HIDE DEF total
  <2> QED
    BY <1>1, <1>12
<1>10. N \in G
  <2> HIDE DEF G
  <2>1. \A n \in 0..N : n \in G
    BY <1>1, <1>8, <1>9, BoundedInduction
  <2> QED
    BY <1>1, <2>1
<1>11. Total(s) = total[N]
  BY DEF Total
<1> QED
  BY <1>10, <1>11

LEMMA TextsAreNatural ==
    ASSUME NEW p, IsPayload(p)
    PROVE  /\ p.words \in Nat /\ SourceAttachments(p) \in Nat /\ SlackText(p) \in Nat
           /\ DriveText(p) \in Nat /\ FirstText(p) \in Nat /\ GmailText(p) \in Nat
           /\ EmailBody(p) \in Nat
<1>1. p.words \in Nat /\ p.fallback \in Nat /\ p.attachments \in Seq(Nat) /\ DescribedWords \in Nat
      /\ (p.data = Nil \/ p.data \in Nat)
  BY PreparationAssumption DEF IsPayload
<1>2. p.parts # Nil => /\ p.parts \in Seq(STRING \X Nat) /\ Len(p.parts) \in Nat
                       /\ DOMAIN p.parts = 1..Len(p.parts)
                       /\ \A i \in DOMAIN p.parts : p.parts[i][2] \in Nat
  BY LenProperties DEF IsPayload
<1>3. SourceAttachments(p) \in Nat
  BY <1>1, TotalIsNatural DEF SourceAttachments
<1>4. SlackText(p) \in Nat /\ DriveText(p) \in Nat /\ FirstText(p) \in Nat
  BY <1>1 DEF SlackText, DriveText, FirstText, Text
<1>5. PlainTextBody(p) \in Nat
  <2> DEFINE plain == {i \in PartsOfKind(p, "plain") : p.parts[i][2] > 0}
  <2>1. CASE plain # {}
    <3>1. p.parts # Nil /\ plain \subseteq DOMAIN p.parts
      BY <2>1 DEF PartsOfKind
    <3>2. plain \in SUBSET Nat
      BY <1>2, <3>1
    <3>3. \E m \in plain : \A n \in plain : m <= n
      <4> HIDE DEF plain
      <4> QED
        BY <2>1, <3>2, LeastNatural
    <3>4. Min(plain) \in plain
      BY <3>3 DEF Min
    <3>5. PlainTextBody(p) = p.parts[Min(plain)][2]
      BY <2>1 DEF PlainTextBody
    <3> QED
      BY <1>2, <3>1, <3>4, <3>5
  <2>2. CASE plain = {}
    <3>1. PlainTextBody(p) = IF p.data # Nil THEN p.data ELSE 0
      BY <2>2 DEF PlainTextBody
    <3> QED
      BY <1>1, <3>1
  <2> QED
    BY <2>1, <2>2
<1>6. GmailText(p) \in Nat
  BY <1>1, <1>5 DEF GmailText
<1>7. ASSUME NEW kind PROVE Total(WordsOfKind(p, kind)) \in Nat
  <2>1. WordsOfKind(p, kind) \in Seq(Nat)
    <3>1. CASE p.parts = Nil
      BY <3>1 DEF WordsOfKind
    <3>2. CASE p.parts # Nil
      <4> DEFINE w == [i \in 1..Len(p.parts) |-> IF i \in PartsOfKind(p, kind) THEN p.parts[i][2] ELSE 0]
      <4>1. w \in [1..Len(p.parts) -> Nat]
        BY <1>2, <3>2
      <4>2. w \in Seq(Nat)
        BY <1>2, <3>2, <4>1, SeqDef
      <4>3. WordsOfKind(p, kind) = w
        BY <1>2, <3>2 DEF WordsOfKind
      <4> QED
        BY <4>2, <4>3
    <3> QED
      BY <3>1, <3>2
  <2> QED
    BY <2>1, TotalIsNatural
<1>8. EmailBody(p) \in Nat
  BY <1>7 DEF EmailBody
<1> QED
  BY <1>1, <1>3, <1>4, <1>6, <1>8


-----------------------------------------------------------------------------
(* Windows *)

CoversText(U, n) ==
    /\ UNION {u.from..u.to : u \in U} = 1..n
    /\ \A u \in U : u.to - u.from < MaxWords
    /\ \A u \in U : u.from = 1
          \/ \E v \in U : v.from < u.from /\ v.to - u.from + 1 = OverlapWords
    /\ \A u, v \in U : u # v => ~ (u.from >= v.from /\ u.to <= v.to)

Stride == MaxWords - OverlapWords

\* Where the windows begin.
LEMMA Strides ==
    /\ Stride \in Nat \ {0} /\ Stride <= MaxWords
    /\ \A k \in Nat : k * Stride \in Nat /\ k <= k * Stride /\ (k + 1) * Stride = k * Stride + Stride
    /\ \A j, k \in Nat : j < k => j * Stride + Stride <= k * Stride
<1>1. Stride \in Nat \ {0} /\ Stride <= MaxWords
  BY PreparationAssumption DEF Stride
<1>2. ASSUME NEW d \in Nat \ {0}, NEW k \in Nat
      PROVE  k * d \in Nat /\ k <= k * d /\ (k + 1) * d = k * d + d
  <2>1. k * d \in Nat
    OBVIOUS
  <2>2. (k + 1) * d = k * d + d
    OBVIOUS
  <2>3. k * (d - 1) \in Nat /\ k * d = k * (d - 1) + k
    OBVIOUS
  <2> QED
    BY <2>1, <2>2, <2>3
<1>3. ASSUME NEW d \in Nat \ {0}, NEW j \in Nat, NEW k \in Nat, j < k
      PROVE  j * d + d <= k * d
  <2>1. PICK m \in Nat : k = j + 1 + m
    <3>1. k - j - 1 \in Nat /\ k = j + 1 + (k - j - 1)
      BY <1>3
    <3> QED
      BY <3>1
  <2>2. m * d \in Nat
    BY <1>2
  <2>3. k * d = j * d + d + m * d
    BY <2>1
  <2> QED
    BY <2>2, <2>3
<1> QED
  BY <1>1, <1>2, <1>3

\* The windows of a text are those that begin before its end, up to the first
\* that reaches it.
LEMMA WindowsCover == ASSUME NEW n \in Nat PROVE CoversText(Windows(n), n)
<1> DEFINE at(k) == k * Stride
           last(k) == at(k) + MaxWords >= n
           K == {k \in 0..n : at(k) < n /\ \A j \in 0..(k - 1) : ~ last(j)}
           to(k) == IF last(k) THEN n ELSE at(k) + MaxWords
           window(k) == [from |-> at(k) + 1, to |-> to(k)]
<1>1. /\ Stride \in Nat \ {0} /\ Stride <= MaxWords /\ MaxWords \in Nat
      /\ Stride = MaxWords - OverlapWords /\ OverlapWords \in Nat
      /\ \A k \in Nat : at(k) \in Nat /\ k <= at(k) /\ at(k + 1) = at(k) + Stride
      /\ \A j, k \in Nat : j < k => at(j) + Stride <= at(k)
  BY Strides, PreparationAssumption DEF Stride
<1>2. Windows(n) = {window(k) : k \in K}
  <2>1. \A k \in 0..n : LastWindow(n, k) <=> last(k)
    BY DEF LastWindow, Stride
  <2>2. K = {k \in 0..n : k * (MaxWords - OverlapWords) < n
                            /\ \A j \in 0..(k - 1) : ~ LastWindow(n, j)}
    <3>1. \A k \in 0..n : \A j \in 0..(k - 1) : LastWindow(n, j) <=> last(j)
      BY <2>1
    <3> QED
      BY <3>1 DEF Stride
  <2>3. \A k \in 0..n : window(k) =
          [from |-> k * (MaxWords - OverlapWords) + 1,
           to |-> IF LastWindow(n, k) /\ k * (MaxWords - OverlapWords) + MaxWords > n THEN n
                  ELSE k * (MaxWords - OverlapWords) + MaxWords]
    <3> SUFFICES ASSUME NEW k \in 0..n PROVE
          to(k) = IF LastWindow(n, k) /\ k * (MaxWords - OverlapWords) + MaxWords > n THEN n
                  ELSE k * (MaxWords - OverlapWords) + MaxWords
      BY DEF Stride
    <3>1. at(k) \in Nat /\ at(k) = k * (MaxWords - OverlapWords) /\ (LastWindow(n, k) <=> last(k))
      BY <1>1, <2>1 DEF Stride
    <3>2. ASSUME NEW a \in Nat, NEW L, L <=> a + MaxWords >= n
          PROVE  (IF a + MaxWords >= n THEN n ELSE a + MaxWords)
                   = IF L /\ a + MaxWords > n THEN n ELSE a + MaxWords
      <4>1. MaxWords \in Nat
        BY <1>1
      <4>2. CASE a + MaxWords > n
        BY <3>2, <4>1, <4>2
      <4>3. CASE a + MaxWords = n
        BY <3>2, <4>1, <4>3
      <4>4. CASE a + MaxWords < n
        BY <3>2, <4>1, <4>4
      <4> QED
        BY <4>1, <4>2, <4>3, <4>4
    <3> HIDE DEF at
    <3> QED
      BY <3>1, <3>2
  <2> HIDE DEF K, window
  <2> QED
    BY <2>2, <2>3 DEF Windows
<1> HIDE DEF at
<1>3. \A k \in K : /\ k \in 0..n /\ k \in Nat /\ at(k) \in Nat /\ at(k) < n /\ to(k) \in Nat /\ to(k) <= n
                   /\ to(k) <= at(k) + MaxWords /\ \A j \in 0..(k - 1) : ~ last(j)
  <2> SUFFICES ASSUME NEW k \in K
               PROVE  /\ k \in 0..n /\ k \in Nat /\ at(k) \in Nat /\ at(k) < n /\ to(k) \in Nat /\ to(k) <= n
                      /\ to(k) <= at(k) + MaxWords /\ \A j \in 0..(k - 1) : ~ last(j)
    OBVIOUS
  <2>1. k \in 0..n /\ k \in Nat /\ at(k) < n /\ \A j \in 0..(k - 1) : ~ last(j)
    OBVIOUS
  <2>2. at(k) \in Nat /\ MaxWords \in Nat
    BY <1>1, <2>1
  <2>3. to(k) \in Nat /\ to(k) <= n /\ to(k) <= at(k) + MaxWords
    <3> HIDE DEF K
    <3>1. CASE at(k) + MaxWords >= n
      BY <2>2, <3>1
    <3>2. CASE at(k) + MaxWords < n
      BY <2>2, <3>2
    <3> QED
      BY <2>2, <3>1, <3>2
  <2> QED
    BY <2>1, <2>2, <2>3
<1>4. \A k \in K : k > 0 => k - 1 \in K /\ to(k - 1) = at(k - 1) + MaxWords /\ at(k) = at(k - 1) + Stride
  <2> SUFFICES ASSUME NEW k \in K, k > 0
               PROVE  k - 1 \in K /\ to(k - 1) = at(k - 1) + MaxWords /\ at(k) = at(k - 1) + Stride
    OBVIOUS
  <2>1. k - 1 \in Nat /\ k - 1 \in 0..(k - 1) /\ (k - 1) + 1 = k /\ k - 1 \in 0..n
    BY <1>3
  <2>2. at(k) = at(k - 1) + Stride /\ at(k - 1) \in Nat
    BY <1>1, <2>1
  <2>3. ~ last(k - 1) /\ \A j \in 0..((k - 1) - 1) : ~ last(j)
    BY <1>3, <2>1
  <2>4. at(k - 1) < n
    <3>1. at(k) \in Nat /\ at(k) < n /\ Stride \in Nat
      BY <1>1, <1>3
    <3> QED
      BY <2>2, <3>1
  <2> QED
    BY <2>1, <2>2, <2>3, <2>4
<1>5. \A i \in 1..n : \E k \in K : at(k) + 1 <= i /\ i <= to(k)
  <2> SUFFICES ASSUME NEW i \in 1..n PROVE \E k \in K : at(k) + 1 <= i /\ i <= to(k)
    OBVIOUS
  <2> DEFINE reach == {k \in Nat : at(k) + MaxWords >= i}
  <2>1. i \in reach
    BY <1>1
  <2>2. PICK k \in reach : \A j \in reach : k <= j
    <3> HIDE DEF reach
    <3>1. reach \in SUBSET Nat
      BY DEF reach
    <3> QED
      BY <2>1, <3>1, LeastNatural
  <2>3. k \in Nat /\ at(k) \in Nat /\ at(k) + MaxWords >= i /\ k <= at(k)
    BY <1>1, <2>2
  <2>4. \A j \in 0..(k - 1) : at(j) \in Nat /\ ~ (at(j) + MaxWords >= i)
    <3> SUFFICES ASSUME NEW j \in 0..(k - 1)
                 PROVE  at(j) \in Nat /\ ~ (at(j) + MaxWords >= i)
      OBVIOUS
    <3>1. j \in Nat /\ ~ (k <= j)
      BY <2>3
    <3>2. at(j) \in Nat
      BY <1>1, <3>1
    <3>3. j \notin reach
      BY <2>2, <3>1
    <3> QED
      BY <3>1, <3>2, <3>3
  <2>5. at(k) + 1 <= i
    <3>1. CASE k = 0
      <4>1. at(0) = 0
        BY <1>1 DEF at
      <4> QED
        BY <3>1, <4>1
    <3>2. CASE k # 0
      <4>1. k - 1 \in Nat /\ k - 1 \in 0..(k - 1) /\ (k - 1) + 1 = k
        BY <2>3, <3>2
      <4>2. at(k) = at(k - 1) + Stride /\ at(k - 1) \in Nat
        BY <1>1, <4>1
      <4>3. ~ (at(k - 1) + MaxWords >= i)
        BY <2>4, <4>1
      <4>4. Stride \in Nat /\ Stride <= MaxWords /\ MaxWords \in Nat
        BY <1>1
      <4> QED
        BY <4>2, <4>3, <4>4
    <3> QED
      BY <3>1, <3>2
  <2>6. k \in K
    <3>1. at(k) < n /\ k \in 0..n
      BY <2>3, <2>5
    <3>2. ASSUME NEW j \in 0..(k - 1) PROVE ~ last(j)
      <4>1. at(j) \in Nat /\ ~ (at(j) + MaxWords >= i) /\ MaxWords \in Nat
        BY <1>1, <2>4
      <4> QED
        BY <4>1
    <3> QED
      BY <3>1, <3>2
  <2>7. i <= to(k)
    <3> HIDE DEF K
    <3>1. MaxWords \in Nat
      BY <1>1
    <3> QED
      BY <2>3, <3>1
  <2> QED
    BY <2>5, <2>6, <2>7
<1>6. \A k \in K : k = 0 => at(k) = 0
  BY <1>1 DEF at
<1> DEFINE U == {window(k) : k \in K}
<1>7. \A k \in K : window(k).from = at(k) + 1 /\ window(k).to = to(k) /\ window(k) \in U
  OBVIOUS
<1>8. \A u \in U : \E k \in K : u = window(k)
  OBVIOUS
<1> HIDE DEF K, to, last
<1>9. UNION {u.from..u.to : u \in U} = 1..n
  <2>1. ASSUME NEW i \in 1..n PROVE \E u \in U : i \in u.from..u.to
    <3>1. PICK k \in K : at(k) + 1 <= i /\ i <= to(k)
      BY <1>5
    <3>2. i \in (at(k) + 1)..to(k)
      BY <1>3, <3>1
    <3> QED
      BY <1>7, <3>2
  <2>2. ASSUME NEW u \in U, NEW i \in u.from..u.to PROVE i \in 1..n
    <3>1. PICK k \in K : u = window(k)
      BY <1>8
    <3>2. i \in (at(k) + 1)..to(k)
      BY <1>7, <2>2, <3>1
    <3> QED
      BY <1>3, <3>2
  <2> HIDE DEF U
  <2> QED
    BY <2>1, <2>2
<1>10. \A u \in U : u.to - u.from < MaxWords
  <2> SUFFICES ASSUME NEW k \in K PROVE to(k) - (at(k) + 1) < MaxWords
    BY <1>7, <1>8
  <2> QED
    BY <1>1, <1>3
<1>11. \A u \in U : u.from = 1 \/ \E v \in U : v.from < u.from /\ v.to - u.from + 1 = OverlapWords
  <2> SUFFICES ASSUME NEW k \in K
               PROVE  \/ at(k) + 1 = 1
                      \/ \E v \in U : v.from < at(k) + 1 /\ v.to - (at(k) + 1) + 1 = OverlapWords
    BY <1>7, <1>8
  <2>1. CASE k = 0
    BY <1>6, <2>1
  <2>2. CASE k # 0
    <3>1. k - 1 \in K /\ to(k - 1) = at(k - 1) + MaxWords /\ at(k) = at(k - 1) + Stride
      BY <1>3, <1>4, <2>2
    <3>2. at(k - 1) \in Nat
      BY <1>3, <3>1
    <3>3. at(k - 1) + 1 < at(k) + 1 /\ to(k - 1) - (at(k) + 1) + 1 = OverlapWords
      <4>1. /\ Stride \in Nat \ {0} /\ MaxWords \in Nat
            /\ Stride = MaxWords - OverlapWords /\ OverlapWords \in Nat
        BY <1>1
      <4>2. ASSUME NEW a \in Nat, NEW b, NEW c, b = a + Stride, c = a + MaxWords
            PROVE  a + 1 < b + 1 /\ c - (b + 1) + 1 = OverlapWords
        BY <4>1, <4>2
      <4> QED
        BY <3>1, <3>2, <4>2
    <3> QED
      BY <1>7, <3>1, <3>3
  <2> QED
    BY <2>1, <2>2
<1>12. \A u, v \in U : u # v => ~ (u.from >= v.from /\ u.to <= v.to)
  <2> SUFFICES ASSUME NEW k \in K, NEW j \in K, k # j, at(k) + 1 >= at(j) + 1
               PROVE  ~ (to(k) <= to(j))
    BY <1>7, <1>8
  <2>1. j < k
    <3>1. k \in Nat /\ j \in Nat /\ at(k) \in Nat /\ at(j) \in Nat /\ Stride \in Nat \ {0}
      BY <1>1, <1>3
    <3>2. k < j => at(k) + Stride <= at(j)
      BY <1>1, <3>1
    <3> QED
      BY <3>1, <3>2
  <2>2. ~ last(j) /\ at(j) + Stride <= at(k)
    BY <1>1, <1>3, <2>1
  <2>3. to(j) = at(j) + MaxWords /\ to(j) < n
    BY <1>1, <1>3, <2>2 DEF last, to
  <2>4. to(k) = n \/ to(k) = at(k) + MaxWords
    BY DEF to
  <2>5. /\ at(k) \in Nat /\ at(j) \in Nat /\ Stride \in Nat \ {0} /\ MaxWords \in Nat
        /\ to(k) \in Nat /\ to(j) \in Nat
    BY <1>1, <1>3
  <2>6. at(j) + Stride <= at(k)
    BY <2>2
  <2> QED
    BY <2>3, <2>4, <2>5, <2>6
<1> HIDE DEF U
<1>13. Windows(n) = U
  BY <1>2 DEF U
<1> QED
  BY <1>9, <1>10, <1>11, <1>12, <1>13 DEF CoversText

-----------------------------------------------------------------------------
(* The records that adapters make of payloads *)

\* The fields of a record.
RecordFields ==
    {"ref", "system", "id", "type", "author", "thread", "assignee", "user", "name", "mentions",
     "identities", "may", "life", "perms", "words", "attached"}

\* The id of the source that a ref names.
IdOf(ref) ==
    IF ref[1] = "local_email" THEN <<ref[2]>>
    ELSE IF ref[1] = "slack" /\ ref[2] = "message" THEN <<ref[3], ref[4]>> ELSE <<ref[3]>>

\* x says of p what p says of itself: its ref tells its system and id, it is active only
\* if p is not gone, and open to all only if p is.
SpeaksFor(p, x) ==
    /\ DOMAIN x = RecordFields
    /\ x.words \in Nat /\ x.attached \in Nat
    /\ x.ref # <<>> /\ x.system = x.ref[1] /\ x.id = IdOf(x.ref)
    /\ Gone(p) /\ ~ LeftOut(p) => Effective(x) # "active"
    /\ x.may = {} => ForAll(p)

Has(x, ref, id, may, life, perms, words, attached) ==
    /\ DOMAIN x = RecordFields /\ x.ref = ref /\ x.system = ref[1] /\ x.id = id
    /\ x.may = may /\ x.life = life /\ x.perms = perms /\ x.words = words /\ x.attached = attached

LEMMA HasAndSpeaks ==
    ASSUME NEW p, NEW x, NEW ref, NEW may, NEW life, NEW perms, NEW words \in Nat, NEW attached \in Nat,
           ref # <<>>, Has(x, ref, IdOf(ref), may, life, perms, words, attached),
           Gone(p) /\ ~ LeftOut(p) => life # "active" \/ perms \in Restricting,
           may = {} => ForAll(p)
    PROVE  SpeaksFor(p, x)
BY DEF Has, SpeaksFor, Effective

LEMMA LinearUserSpeaks ==
    ASSUME NEW p, IsPayload(p), p.stream = "linear_users"
    PROVE  SpeaksFor(p, LinearUser(p))
<1> DEFINE ref == <<"linear", "user", p.id>>
<1>1. Has(LinearUser(p), ref, <<p.id>>, {}, DeletedIf("inactive" \in p.marks),
          "current", p.words, 0)
  BY DEF Has, LinearUser, Person, SourceRecord, RecordFields
<1>2. <<p.id>> = IdOf(ref) /\ ref # <<>>
  BY DEF IdOf
<1>3. p.words \in Nat /\ 0 \in Nat
  BY TextsAreNatural
<1>4. Gone(p) /\ ~ LeftOut(p) => DeletedIf("inactive" \in p.marks) # "active" \/ "current" \in Restricting
  BY PreparationAssumption DEF Gone, LeftOut, IsPayload, Flags, MessageStreams, WithLifecycle,
     WithPermissionStatus, DeletedIf, Restricting
<1>5. {} = {} => ForAll(p)
  BY DEF ForAll, IsPayload, MessageStreams, WithPermissions, Explicit
<1> QED
  BY <1>1, <1>2, <1>3, <1>4, <1>5, HasAndSpeaks

LEMMA LinearIssueSpeaks ==
    ASSUME NEW p, IsPayload(p), p.stream = "linear_issues"
    PROVE  SpeaksFor(p, LinearIssue(p))
<1> DEFINE ref == <<"linear", "issue", p.id>>
<1>1. Has(LinearIssue(p), ref, <<p.id>>, LinearPermissions(p), LinearLifecycle(p),
          "current", p.words, 0)
  BY DEF Has, LinearIssue, SourceRecord, RecordFields
<1>2. <<p.id>> = IdOf(ref) /\ ref # <<>>
  BY DEF IdOf
<1>3. p.words \in Nat /\ 0 \in Nat
  BY TextsAreNatural
<1>4. Gone(p) /\ ~ LeftOut(p) => LinearLifecycle(p) # "active" \/ "current" \in Restricting
  BY PreparationAssumption DEF Gone, LeftOut, IsPayload, Flags, MessageStreams, WithLifecycle,
     WithPermissionStatus, LinearLifecycle, Marked, Said, Restricting
<1>5. LinearPermissions(p) = {} => ForAll(p)
  BY DEF ForAll, IsPayload, MessageStreams, WithPermissions, LinearPermissions, Explicit
<1> QED
  BY <1>1, <1>2, <1>3, <1>4, <1>5, HasAndSpeaks

LEMMA LinearCommentSpeaks ==
    ASSUME NEW p, IsPayload(p), p.stream = "linear_comments"
    PROVE  SpeaksFor(p, LinearComment(p))
<1> DEFINE ref == <<"linear", "comment", p.id>>
<1>1. Has(LinearComment(p), ref, <<p.id>>, LinearPermissions(p), LinearLifecycle(p),
          "current", p.words, 0)
  BY DEF Has, LinearComment, SourceRecord, RecordFields
<1>2. <<p.id>> = IdOf(ref) /\ ref # <<>>
  BY DEF IdOf
<1>3. p.words \in Nat /\ 0 \in Nat
  BY TextsAreNatural
<1>4. Gone(p) /\ ~ LeftOut(p) => LinearLifecycle(p) # "active" \/ "current" \in Restricting
  BY PreparationAssumption DEF Gone, LeftOut, IsPayload, Flags, MessageStreams, WithLifecycle,
     WithPermissionStatus, LinearLifecycle, Marked, Said, Restricting
<1>5. LinearPermissions(p) = {} => ForAll(p)
  BY DEF ForAll, IsPayload, MessageStreams, WithPermissions, LinearPermissions, Explicit
<1> QED
  BY <1>1, <1>2, <1>3, <1>4, <1>5, HasAndSpeaks

LEMMA TwentyCompanySpeaks ==
    ASSUME NEW p, IsPayload(p), p.stream = "twenty_companies"
    PROVE  SpeaksFor(p, TwentyCompany(p))
<1> DEFINE ref == <<"twenty", "company", p.id>>
<1>1. Has(TwentyCompany(p), ref, <<p.id>>, {}, "active",
          "current", p.words, 0)
  BY DEF Has, TwentyCompany, SourceRecord, RecordFields
<1>2. <<p.id>> = IdOf(ref) /\ ref # <<>>
  BY DEF IdOf
<1>3. p.words \in Nat /\ 0 \in Nat
  BY TextsAreNatural
<1>4. Gone(p) /\ ~ LeftOut(p) => "active" # "active" \/ "current" \in Restricting
  BY PreparationAssumption DEF Gone, LeftOut, IsPayload, Flags, MessageStreams, WithLifecycle,
     WithPermissionStatus, Restricting
<1>5. {} = {} => ForAll(p)
  BY DEF ForAll, IsPayload, MessageStreams, WithPermissions, Explicit
<1> QED
  BY <1>1, <1>2, <1>3, <1>4, <1>5, HasAndSpeaks

LEMMA TwentyPersonSpeaks ==
    ASSUME NEW p, IsPayload(p), p.stream = "twenty_people"
    PROVE  SpeaksFor(p, TwentyPerson(p))
<1> DEFINE ref == <<"twenty", "person", p.id>>
<1>1. Has(TwentyPerson(p), ref, <<p.id>>, {}, "active",
          "current", p.words, 0)
  BY DEF Has, TwentyPerson, Person, SourceRecord, RecordFields
<1>2. <<p.id>> = IdOf(ref) /\ ref # <<>>
  BY DEF IdOf
<1>3. p.words \in Nat /\ 0 \in Nat
  BY TextsAreNatural
<1>4. Gone(p) /\ ~ LeftOut(p) => "active" # "active" \/ "current" \in Restricting
  BY PreparationAssumption DEF Gone, LeftOut, IsPayload, Flags, MessageStreams, WithLifecycle,
     WithPermissionStatus, Restricting
<1>5. {} = {} => ForAll(p)
  BY DEF ForAll, IsPayload, MessageStreams, WithPermissions, Explicit
<1> QED
  BY <1>1, <1>2, <1>3, <1>4, <1>5, HasAndSpeaks

LEMMA SlackMessageSpeaks ==
    ASSUME NEW p, IsPayload(p), p.stream \in MessageStreams
    PROVE  SpeaksFor(p, SlackMessage(p))
<1> DEFINE ref == <<"slack", "message", p.in, p.id>>
<1>1. Has(SlackMessage(p), ref, <<p.in, p.id>>, SlackPermissions(p, p.in), DeletedIf("deleted" \in p.marks),
          "current", SlackText(p), 0)
  BY DEF Has, SlackMessage, SlackId, SourceRecord, RecordFields
<1>2. <<p.in, p.id>> = IdOf(ref) /\ ref # <<>>
  BY DEF IdOf
<1>3. SlackText(p) \in Nat /\ 0 \in Nat
  BY TextsAreNatural
<1>4. Gone(p) /\ ~ LeftOut(p) => DeletedIf("deleted" \in p.marks) # "active" \/ "current" \in Restricting
  BY PreparationAssumption DEF Gone, LeftOut, IsPayload, Flags, MessageStreams, WithLifecycle,
     WithPermissionStatus, DeletedIf, Restricting
<1>5. SlackPermissions(p, p.in) = {} => ForAll(p)
  BY DEF ForAll, IsPayload, MessageStreams, WithPermissions, SlackPermissions, Explicit
<1> QED
  BY <1>1, <1>2, <1>3, <1>4, <1>5, HasAndSpeaks

LEMMA SlackUserSpeaks ==
    ASSUME NEW p, IsPayload(p), p.stream = "users"
    PROVE  SpeaksFor(p, SlackUser(p))
<1> DEFINE ref == <<"slack", "user", p.id>>
<1>1. Has(SlackUser(p), ref, <<p.id>>, SlackTeam(p), DeletedIf("deleted" \in p.marks),
          "current", p.words, 0)
  BY DEF Has, SlackUser, Person, SourceRecord, RecordFields
<1>2. <<p.id>> = IdOf(ref) /\ ref # <<>>
  BY DEF IdOf
<1>3. p.words \in Nat /\ 0 \in Nat
  BY TextsAreNatural
<1>4. Gone(p) /\ ~ LeftOut(p) => DeletedIf("deleted" \in p.marks) # "active" \/ "current" \in Restricting
  BY PreparationAssumption DEF Gone, LeftOut, IsPayload, Flags, MessageStreams, WithLifecycle,
     WithPermissionStatus, DeletedIf, Restricting
<1>5. SlackTeam(p) = {} => ForAll(p)
  BY DEF ForAll, IsPayload, MessageStreams, WithPermissions, SlackTeam, Explicit
<1> QED
  BY <1>1, <1>2, <1>3, <1>4, <1>5, HasAndSpeaks

LEMMA SlackChannelSpeaks ==
    ASSUME NEW p, IsPayload(p), p.stream = "channels"
    PROVE  SpeaksFor(p, SlackChannel(p))
<1> DEFINE ref == <<"slack", "channel", p.id>>
<1>1. Has(SlackChannel(p), ref, <<p.id>>, SlackPermissions(p, p.id), DeletedIf("is_archived" \in p.marks),
          "current", p.words, 0)
  BY DEF Has, SlackChannel, SourceRecord, RecordFields
<1>2. <<p.id>> = IdOf(ref) /\ ref # <<>>
  BY DEF IdOf
<1>3. p.words \in Nat /\ 0 \in Nat
  BY TextsAreNatural
<1>4. Gone(p) /\ ~ LeftOut(p) => DeletedIf("is_archived" \in p.marks) # "active" \/ "current" \in Restricting
  BY PreparationAssumption DEF Gone, LeftOut, IsPayload, Flags, MessageStreams, WithLifecycle,
     WithPermissionStatus, DeletedIf, Restricting
<1>5. SlackPermissions(p, p.id) = {} => ForAll(p)
  BY DEF ForAll, IsPayload, MessageStreams, WithPermissions, SlackPermissions, Explicit
<1> QED
  BY <1>1, <1>2, <1>3, <1>4, <1>5, HasAndSpeaks

LEMMA GoogleDriveFileSpeaks ==
    ASSUME NEW p, IsPayload(p), p.stream = "google_drive_files"
    PROVE  SpeaksFor(p, GoogleDriveFile(p))
<1> DEFINE ref == <<"google_drive", "file", p.id>>
<1>1. Has(GoogleDriveFile(p), ref, <<p.id>>, OperatorsOwn(DrivePermissions(p)),
          DeletedIf("trashed" \in p.marks),
          "current", DriveText(p), 0)
  BY DEF Has, GoogleDriveFile, SourceRecord, RecordFields
<1>2. <<p.id>> = IdOf(ref) /\ ref # <<>>
  BY DEF IdOf
<1>3. DriveText(p) \in Nat /\ 0 \in Nat
  BY TextsAreNatural
<1>4. Gone(p) /\ ~ LeftOut(p) => DeletedIf("trashed" \in p.marks) # "active" \/ "current" \in Restricting
  BY PreparationAssumption DEF Gone, LeftOut, IsPayload, Flags, MessageStreams, WithLifecycle,
     WithPermissionStatus, DeletedIf, Restricting
<1>5. OperatorsOwn(DrivePermissions(p)) = {} => ForAll(p)
  BY DEF ForAll, IsPayload, MessageStreams, WithPermissions, OperatorsOwn, Explicit
<1> QED
  BY <1>1, <1>2, <1>3, <1>4, <1>5, HasAndSpeaks

LEMMA GmailMessageSpeaks ==
    ASSUME NEW p, IsPayload(p), p.stream = "gmail", LooksLikeGmailMessage(p)
    PROVE  SpeaksFor(p, GmailMessage(p))
<1> DEFINE ref == <<"gmail", "message", p.id>>
<1>1. Has(GmailMessage(p), ref, <<p.id>>, Explicit(p), GmailLifecycle(p),
          GmailPermissionStatus(p), GmailText(p), 0)
  BY DEF Has, GmailMessage, SourceRecord, RecordFields
<1>2. <<p.id>> = IdOf(ref) /\ ref # <<>>
  BY DEF IdOf
<1>3. GmailText(p) \in Nat /\ 0 \in Nat
  BY TextsAreNatural
<1>4. Gone(p) /\ ~ LeftOut(p) => GmailLifecycle(p) # "active" \/ GmailPermissionStatus(p) \in Restricting
  BY PreparationAssumption DEF Gone, LeftOut, IsPayload, Flags, MessageStreams, WithLifecycle,
     WithPermissionStatus, GmailLifecycle, GmailPermissionStatus, Trash, DeletedIf, Restricting
<1>5. Explicit(p) = {} => ForAll(p)
  BY DEF ForAll, IsPayload, MessageStreams, WithPermissions, Explicit
<1> QED
  BY <1>1, <1>2, <1>3, <1>4, <1>5, HasAndSpeaks

LEMMA GmailRecordSpeaks ==
    ASSUME NEW p, IsPayload(p), p.stream = "gmail", ~ LooksLikeGmailMessage(p)
    PROVE  SpeaksFor(p, GmailRecord(p))
<1> DEFINE ref == <<"gmail", "messages", p.id>>
<1>1. Has(GmailRecord(p), ref, <<p.id>>, Explicit(p), GmailRecordLifecycle(p),
          Said(p.perms, "missing"), FirstText(p), SourceAttachments(p))
  BY DEF Has, GmailRecord, SourceRecord, RecordFields
<1>2. <<p.id>> = IdOf(ref) /\ ref # <<>>
  BY DEF IdOf
<1>3. FirstText(p) \in Nat /\ SourceAttachments(p) \in Nat
  BY TextsAreNatural
<1>4. Gone(p) /\ ~ LeftOut(p) =>
        GmailRecordLifecycle(p) # "active" \/ Said(p.perms, "missing") \in Restricting
  BY PreparationAssumption DEF Gone, LeftOut, IsPayload, Flags, MessageStreams, WithLifecycle,
     WithPermissionStatus, GmailRecordLifecycle, Said, Trash, DeletedIf, Restricting
<1>5. Explicit(p) = {} => ForAll(p)
  BY DEF ForAll, IsPayload, MessageStreams, WithPermissions, Explicit
<1> QED
  BY <1>1, <1>2, <1>3, <1>4, <1>5, HasAndSpeaks

LEMMA EmailFileSpeaks ==
    ASSUME NEW p, IsPayload(p), p.stream = "email_files"
    PROVE  SpeaksFor(p, EmailFile(p))
<1> DEFINE ref == <<"local_email", p.id>>
<1>1. Has(EmailFile(p), ref, <<p.id>>, {}, "active",
          "current", EmailBody(p), 0)
  BY DEF Has, EmailFile, SourceRecord, RecordFields
<1>2. <<p.id>> = IdOf(ref) /\ ref # <<>>
  BY DEF IdOf
<1>3. EmailBody(p) \in Nat /\ 0 \in Nat
  BY TextsAreNatural
<1>4. Gone(p) /\ ~ LeftOut(p) => "active" # "active" \/ "current" \in Restricting
  BY PreparationAssumption DEF Gone, LeftOut, IsPayload, Flags, MessageStreams, WithLifecycle,
     WithPermissionStatus, Restricting
<1>5. {} = {} => ForAll(p)
  BY DEF ForAll, IsPayload, MessageStreams, WithPermissions, Explicit
<1> QED
  BY <1>1, <1>2, <1>3, <1>4, <1>5, HasAndSpeaks

LEMMA PdfDocumentSpeaks ==
    ASSUME NEW p, IsPayload(p), p.stream = "pdf"
    PROVE  SpeaksFor(p, PdfDocument(p))
<1> DEFINE ref == <<"pdf", "document", p.id>>
<1>1. Has(PdfDocument(p), ref, <<p.id>>, Explicit(p), "active",
          "current", p.words, 0)
  BY DEF Has, PdfDocument, SourceRecord, RecordFields
<1>2. <<p.id>> = IdOf(ref) /\ ref # <<>>
  BY DEF IdOf
<1>3. p.words \in Nat /\ 0 \in Nat
  BY TextsAreNatural
<1>4. Gone(p) /\ ~ LeftOut(p) => "active" # "active" \/ "current" \in Restricting
  BY PreparationAssumption DEF Gone, LeftOut, IsPayload, Flags, MessageStreams, WithLifecycle,
     WithPermissionStatus, Restricting
<1>5. Explicit(p) = {} => ForAll(p)
  BY DEF ForAll, IsPayload, MessageStreams, WithPermissions, Explicit
<1> QED
  BY <1>1, <1>2, <1>3, <1>4, <1>5, HasAndSpeaks

LEMMA SingerRecordSpeaks ==
    ASSUME NEW p, IsPayload(p), p.stream = "email_messages"
    PROVE  SpeaksFor(p, SingerRecord(p))
<1> DEFINE ref == <<"singer", p.stream, p.id>>
<1>1. Has(SingerRecord(p), ref, <<p.id>>, Explicit(p), Said(p.life, "active"),
          Said(p.perms, "current"), p.words, SourceAttachments(p))
  BY DEF Has, SingerRecord, SourceRecord, RecordFields
<1>2. <<p.id>> = IdOf(ref) /\ ref # <<>>
  BY DEF IdOf
<1>3. p.words \in Nat /\ SourceAttachments(p) \in Nat
  BY TextsAreNatural
<1>4. Gone(p) /\ ~ LeftOut(p) => Said(p.life, "active") # "active" \/ Said(p.perms, "current") \in Restricting
  BY PreparationAssumption DEF Gone, LeftOut, IsPayload, Flags, MessageStreams, WithLifecycle,
     WithPermissionStatus, Said, Restricting
<1>5. Explicit(p) = {} => ForAll(p)
  BY DEF ForAll, IsPayload, MessageStreams, WithPermissions, Explicit
<1> QED
  BY <1>1, <1>2, <1>3, <1>4, <1>5, HasAndSpeaks

LEMMA SnapshotMemberSpeaks ==
    ASSUME NEW p, IsPayload(p), p.stream = "snapshot_members"
    PROVE  SpeaksFor(p, SnapshotMember(p))
<1> DEFINE ref == <<"twenty", "workspaceMember", p.id>>
<1>1. Has(SnapshotMember(p), ref, <<p.id>>, {}, "active",
          "current", p.words, 0)
  BY DEF Has, SnapshotMember, Person, SourceRecord, RecordFields
<1>2. <<p.id>> = IdOf(ref) /\ ref # <<>>
  BY DEF IdOf
<1>3. p.words \in Nat /\ 0 \in Nat
  BY TextsAreNatural
<1>4. Gone(p) /\ ~ LeftOut(p) => "active" # "active" \/ "current" \in Restricting
  BY PreparationAssumption DEF Gone, LeftOut, IsPayload, Flags, MessageStreams, WithLifecycle,
     WithPermissionStatus, Restricting
<1>5. {} = {} => ForAll(p)
  BY DEF ForAll, IsPayload, MessageStreams, WithPermissions, Explicit
<1> QED
  BY <1>1, <1>2, <1>3, <1>4, <1>5, HasAndSpeaks

LEMMA SnapshotSlackUserSpeaks ==
    ASSUME NEW p, IsPayload(p), p.stream = "snapshot_slack_users"
    PROVE  SpeaksFor(p, SnapshotSlackUser(p))
<1> DEFINE ref == <<"slack", "user", p.id>>
<1>1. Has(SnapshotSlackUser(p), ref, <<p.id>>, {}, DeletedIf("deleted" \in p.marks),
          "current", p.words, 0)
  BY DEF Has, SnapshotSlackUser, Person, SourceRecord, RecordFields
<1>2. <<p.id>> = IdOf(ref) /\ ref # <<>>
  BY DEF IdOf
<1>3. p.words \in Nat /\ 0 \in Nat
  BY TextsAreNatural
<1>4. Gone(p) /\ ~ LeftOut(p) => DeletedIf("deleted" \in p.marks) # "active" \/ "current" \in Restricting
  BY PreparationAssumption DEF Gone, LeftOut, IsPayload, Flags, MessageStreams, WithLifecycle,
     WithPermissionStatus, DeletedIf, Restricting
<1>5. {} = {} => ForAll(p)
  BY DEF ForAll, IsPayload, MessageStreams, WithPermissions, Explicit
<1> QED
  BY <1>1, <1>2, <1>3, <1>4, <1>5, HasAndSpeaks

LEMMA SnapshotUserSpeaks ==
    ASSUME NEW p, IsPayload(p), p.stream = "snapshot_users"
    PROVE  SpeaksFor(p, SnapshotUser(p))
<1> DEFINE ref == <<"linear", "user", p.id>>
<1>1. Has(SnapshotUser(p), ref, <<p.id>>, {}, "active",
          "current", p.words, 0)
  BY DEF Has, SnapshotUser, Person, SourceRecord, RecordFields
<1>2. <<p.id>> = IdOf(ref) /\ ref # <<>>
  BY DEF IdOf
<1>3. p.words \in Nat /\ 0 \in Nat
  BY TextsAreNatural
<1>4. Gone(p) /\ ~ LeftOut(p) => "active" # "active" \/ "current" \in Restricting
  BY PreparationAssumption DEF Gone, LeftOut, IsPayload, Flags, MessageStreams, WithLifecycle,
     WithPermissionStatus, Restricting
<1>5. {} = {} => ForAll(p)
  BY DEF ForAll, IsPayload, MessageStreams, WithPermissions, Explicit
<1> QED
  BY <1>1, <1>2, <1>3, <1>4, <1>5, HasAndSpeaks

LEMMA SnapshotTeamSpeaks ==
    ASSUME NEW p, IsPayload(p), p.stream = "snapshot_teams"
    PROVE  SpeaksFor(p, SnapshotTeam(p))
<1> DEFINE ref == <<"linear", "team", p.id>>
<1>1. Has(SnapshotTeam(p), ref, <<p.id>>, {}, "active",
          "current", p.words, 0)
  BY DEF Has, SnapshotTeam, SourceRecord, RecordFields
<1>2. <<p.id>> = IdOf(ref) /\ ref # <<>>
  BY DEF IdOf
<1>3. p.words \in Nat /\ 0 \in Nat
  BY TextsAreNatural
<1>4. Gone(p) /\ ~ LeftOut(p) => "active" # "active" \/ "current" \in Restricting
  BY PreparationAssumption DEF Gone, LeftOut, IsPayload, Flags, MessageStreams, WithLifecycle,
     WithPermissionStatus, Restricting
<1>5. {} = {} => ForAll(p)
  BY DEF ForAll, IsPayload, MessageStreams, WithPermissions, Explicit
<1> QED
  BY <1>1, <1>2, <1>3, <1>4, <1>5, HasAndSpeaks

LEMMA SnapshotProjectSpeaks ==
    ASSUME NEW p, IsPayload(p), p.stream = "snapshot_projects"
    PROVE  SpeaksFor(p, SnapshotProject(p))
<1> DEFINE ref == <<"linear", "project", p.id>>
<1>1. Has(SnapshotProject(p), ref, <<p.id>>, {}, "active",
          "current", p.words, 0)
  BY DEF Has, SnapshotProject, SourceRecord, RecordFields
<1>2. <<p.id>> = IdOf(ref) /\ ref # <<>>
  BY DEF IdOf
<1>3. p.words \in Nat /\ 0 \in Nat
  BY TextsAreNatural
<1>4. Gone(p) /\ ~ LeftOut(p) => "active" # "active" \/ "current" \in Restricting
  BY PreparationAssumption DEF Gone, LeftOut, IsPayload, Flags, MessageStreams, WithLifecycle,
     WithPermissionStatus, Restricting
<1>5. {} = {} => ForAll(p)
  BY DEF ForAll, IsPayload, MessageStreams, WithPermissions, Explicit
<1> QED
  BY <1>1, <1>2, <1>3, <1>4, <1>5, HasAndSpeaks

LEMMA SnapshotIssueSpeaks ==
    ASSUME NEW p, IsPayload(p), p.stream = "snapshot_issues"
    PROVE  SpeaksFor(p, SnapshotIssue(p))
<1> DEFINE ref == <<"linear", "issue", p.id>>
<1>1. Has(SnapshotIssue(p), ref, <<p.id>>, LinearPermissions(p), "active",
          "current", p.words, 0)
  BY DEF Has, SnapshotIssue, LinearIssue, SourceRecord, RecordFields
<1>2. <<p.id>> = IdOf(ref) /\ ref # <<>>
  BY DEF IdOf
<1>3. p.words \in Nat /\ 0 \in Nat
  BY TextsAreNatural
<1>4. Gone(p) /\ ~ LeftOut(p) => "active" # "active" \/ "current" \in Restricting
  BY PreparationAssumption DEF Gone, LeftOut, IsPayload, Flags, MessageStreams, WithLifecycle,
     WithPermissionStatus, Restricting
<1>5. LinearPermissions(p) = {} => ForAll(p)
  BY DEF ForAll, IsPayload, MessageStreams, WithPermissions, LinearPermissions, Explicit
<1> QED
  BY <1>1, <1>2, <1>3, <1>4, <1>5, HasAndSpeaks

LEMMA SnapshotCommentSpeaks ==
    ASSUME NEW p, IsPayload(p), p.stream = "snapshot_comments"
    PROVE  SpeaksFor(p, SnapshotComment(p))
<1> DEFINE ref == <<"linear", "comment", p.id>>
<1>1. Has(SnapshotComment(p), ref, <<p.id>>, LinearPermissions(p), "active",
          "current", p.words, 0)
  BY DEF Has, SnapshotComment, LinearComment, SourceRecord, RecordFields
<1>2. <<p.id>> = IdOf(ref) /\ ref # <<>>
  BY DEF IdOf
<1>3. p.words \in Nat /\ 0 \in Nat
  BY TextsAreNatural
<1>4. Gone(p) /\ ~ LeftOut(p) => "active" # "active" \/ "current" \in Restricting
  BY PreparationAssumption DEF Gone, LeftOut, IsPayload, Flags, MessageStreams, WithLifecycle,
     WithPermissionStatus, Restricting
<1>5. LinearPermissions(p) = {} => ForAll(p)
  BY DEF ForAll, IsPayload, MessageStreams, WithPermissions, LinearPermissions, Explicit
<1> QED
  BY <1>1, <1>2, <1>3, <1>4, <1>5, HasAndSpeaks


\* The record of a payload, whatever its stream.
LEMMA RecordsSpeak ==
    ASSUME NEW p, IsPayload(p)
    PROVE  SpeaksFor(p, RecordOf(p))
<1>1. p.stream \in DOMAIN Flags
  BY DEF IsPayload
<1>2. CASE p.stream = "linear_users"
  <2>1. RecordOf(p) = LinearUser(p)
    BY <1>2 DEF RecordOf, SlackStreams, MessageStreams
  <2> QED
    BY <1>2, <2>1, LinearUserSpeaks
<1>3. CASE p.stream = "linear_issues"
  <2>1. RecordOf(p) = LinearIssue(p)
    BY <1>3 DEF RecordOf, SlackStreams, MessageStreams
  <2> QED
    BY <1>3, <2>1, LinearIssueSpeaks
<1>4. CASE p.stream = "linear_comments"
  <2>1. RecordOf(p) = LinearComment(p)
    BY <1>4 DEF RecordOf, SlackStreams, MessageStreams
  <2> QED
    BY <1>4, <2>1, LinearCommentSpeaks
<1>5. CASE p.stream = "twenty_companies"
  <2>1. RecordOf(p) = TwentyCompany(p)
    BY <1>5 DEF RecordOf, SlackStreams, MessageStreams
  <2> QED
    BY <1>5, <2>1, TwentyCompanySpeaks
<1>6. CASE p.stream = "twenty_people"
  <2>1. RecordOf(p) = TwentyPerson(p)
    BY <1>6 DEF RecordOf, SlackStreams, MessageStreams
  <2> QED
    BY <1>6, <2>1, TwentyPersonSpeaks
<1>7. CASE p.stream = "google_drive_files"
  <2>1. RecordOf(p) = GoogleDriveFile(p)
    BY <1>7 DEF RecordOf, SlackStreams, MessageStreams
  <2> QED
    BY <1>7, <2>1, GoogleDriveFileSpeaks
<1>8. CASE p.stream = "email_files"
  <2>1. RecordOf(p) = EmailFile(p)
    BY <1>8 DEF RecordOf, SlackStreams, MessageStreams
  <2> QED
    BY <1>8, <2>1, EmailFileSpeaks
<1>9. CASE p.stream = "pdf"
  <2>1. RecordOf(p) = PdfDocument(p)
    BY <1>9 DEF RecordOf, SlackStreams, MessageStreams
  <2> QED
    BY <1>9, <2>1, PdfDocumentSpeaks
<1>10. CASE p.stream = "email_messages"
  <2>1. RecordOf(p) = SingerRecord(p)
    BY <1>10 DEF RecordOf, SlackStreams, MessageStreams
  <2> QED
    BY <1>10, <2>1, SingerRecordSpeaks
<1>11. CASE p.stream = "gmail"
  <2>1. RecordOf(p) = GmailSourceRecord(p)
    BY <1>11 DEF RecordOf, SlackStreams, MessageStreams
  <2>2. CASE LooksLikeGmailMessage(p)
    BY <1>11, <2>1, <2>2, GmailMessageSpeaks DEF GmailSourceRecord
  <2>3. CASE ~ LooksLikeGmailMessage(p)
    BY <1>11, <2>1, <2>3, GmailRecordSpeaks DEF GmailSourceRecord
  <2> QED
    BY <2>2, <2>3
<1>12. CASE p.stream \in SlackStreams
  <2>1. RecordOf(p) = SlackRecord(p)
    BY <1>12 DEF RecordOf, SlackStreams, MessageStreams
  <2>2. CASE p.stream \in MessageStreams
    <3>1. SlackRecord(p) = SlackMessage(p)
      BY <2>2 DEF SlackRecord, MessageStreams
    <3> QED
      BY <2>1, <2>2, <3>1, SlackMessageSpeaks
  <2>3. CASE p.stream = "users"
    <3>1. SlackRecord(p) = SlackUser(p)
      BY <2>3 DEF SlackRecord, MessageStreams
    <3> QED
      BY <2>1, <2>3, <3>1, SlackUserSpeaks
  <2>4. CASE p.stream = "channels"
    <3>1. SlackRecord(p) = SlackChannel(p)
      BY <2>4 DEF SlackRecord, MessageStreams
    <3> QED
      BY <2>1, <2>4, <3>1, SlackChannelSpeaks
  <2> QED
    BY <1>12, <2>2, <2>3, <2>4 DEF SlackStreams
<1>13. CASE p.stream = "snapshot_members"
  <2>1. RecordOf(p) = SnapshotRecord(p)
    BY <1>13 DEF RecordOf, SlackStreams, MessageStreams
  <2>2. SnapshotRecord(p) = SnapshotMember(p)
    BY <1>13 DEF SnapshotRecord
  <2> QED
    BY <1>13, <2>1, <2>2, SnapshotMemberSpeaks
<1>14. CASE p.stream = "snapshot_slack_users"
  <2>1. RecordOf(p) = SnapshotRecord(p)
    BY <1>14 DEF RecordOf, SlackStreams, MessageStreams
  <2>2. SnapshotRecord(p) = SnapshotSlackUser(p)
    BY <1>14 DEF SnapshotRecord
  <2> QED
    BY <1>14, <2>1, <2>2, SnapshotSlackUserSpeaks
<1>15. CASE p.stream = "snapshot_users"
  <2>1. RecordOf(p) = SnapshotRecord(p)
    BY <1>15 DEF RecordOf, SlackStreams, MessageStreams
  <2>2. SnapshotRecord(p) = SnapshotUser(p)
    BY <1>15 DEF SnapshotRecord
  <2> QED
    BY <1>15, <2>1, <2>2, SnapshotUserSpeaks
<1>16. CASE p.stream = "snapshot_teams"
  <2>1. RecordOf(p) = SnapshotRecord(p)
    BY <1>16 DEF RecordOf, SlackStreams, MessageStreams
  <2>2. SnapshotRecord(p) = SnapshotTeam(p)
    BY <1>16 DEF SnapshotRecord
  <2> QED
    BY <1>16, <2>1, <2>2, SnapshotTeamSpeaks
<1>17. CASE p.stream = "snapshot_projects"
  <2>1. RecordOf(p) = SnapshotRecord(p)
    BY <1>17 DEF RecordOf, SlackStreams, MessageStreams
  <2>2. SnapshotRecord(p) = SnapshotProject(p)
    BY <1>17 DEF SnapshotRecord
  <2> QED
    BY <1>17, <2>1, <2>2, SnapshotProjectSpeaks
<1>18. CASE p.stream = "snapshot_issues"
  <2>1. RecordOf(p) = SnapshotRecord(p)
    BY <1>18 DEF RecordOf, SlackStreams, MessageStreams
  <2>2. SnapshotRecord(p) = SnapshotIssue(p)
    BY <1>18 DEF SnapshotRecord
  <2> QED
    BY <1>18, <2>1, <2>2, SnapshotIssueSpeaks
<1>19. CASE p.stream = "snapshot_comments"
  <2>1. RecordOf(p) = SnapshotRecord(p)
    BY <1>19 DEF RecordOf, SlackStreams, MessageStreams
  <2>2. SnapshotRecord(p) = SnapshotComment(p)
    BY <1>19 DEF SnapshotRecord
  <2> QED
    BY <1>19, <2>1, <2>2, SnapshotCommentSpeaks
<1> QED
  BY <1>1, <1>2, <1>3, <1>4, <1>5, <1>6, <1>7, <1>8, <1>9, <1>10, <1>11,
     <1>12, <1>13, <1>14, <1>15, <1>16, <1>17, <1>18, <1>19 DEF Flags, SlackStreams, MessageStreams

-----------------------------------------------------------------------------
(* Batches *)

\* The streams of the live taps.
Live == UNION LiveStreams

LEMMA SentPayloads ==
    ASSUME NEW p, IsPayload(p), p.stream \in Live
    PROVE  /\ IsPayload(Sent(p)) /\ (Complete(Sent(p)) <=> Complete(p))
           /\ RecordOf(Sent(p)).ref = RecordOf(p).ref
<1> DEFINE q == Sent(p)
<1>1. /\ q.stream = p.stream /\ q.id = p.id /\ q.in = p.in /\ DOMAIN q = DOMAIN p
      /\ q.marks \subseteq p.marks /\ q.words \in {0, p.words} /\ q.fallback = p.fallback
      /\ q.attachments = p.attachments /\ q.parts = p.parts /\ q.data = p.data
      /\ q.life \in {Nil, p.life} /\ q.perms = p.perms /\ q.shared \in {Nil, p.shared}
      /\ p.stream # "google_drive_files" => q.words = p.words
  <2>1. CASE p.stream = "linear_users"
    <3>1. q = UserSent(p)
      BY <2>1 DEF Sent
    <3> QED
      BY <2>1, <3>1 DEF UserSent, IsPayload, Payload
  <2>2. CASE p.stream = "linear_issues"
    <3>1. q = IssueSent(p)
      BY <2>2 DEF Sent
    <3> QED
      BY <2>2, <3>1 DEF IssueSent, IsPayload, Payload
  <2>3. CASE p.stream = "linear_comments"
    <3>1. q = CommentSent(p)
      BY <2>3 DEF Sent
    <3> QED
      BY <2>3, <3>1 DEF CommentSent, IsPayload, Payload
  <2>4. CASE p.stream = "twenty_companies"
    <3>1. q = CompanySent(p)
      BY <2>4 DEF Sent
    <3> QED
      BY <2>4, <3>1 DEF CompanySent, IsPayload, Payload
  <2>5. CASE p.stream = "twenty_people"
    <3>1. q = PersonSent(p)
      BY <2>5 DEF Sent
    <3> QED
      BY <2>5, <3>1 DEF PersonSent, IsPayload, Payload
  <2>6. CASE p.stream = "google_drive_files"
    <3>1. q = FileSent(p)
      BY <2>6 DEF Sent
    <3> QED
      BY <2>6, <3>1 DEF FileSent, IsPayload, Payload
  <2> HIDE DEF q
  <2> QED
    BY <2>1, <2>2, <2>3, <2>4, <2>5, <2>6 DEF Live, LiveStreams
<1> HIDE DEF q
<1>2. IsPayload(q)
  BY <1>1 DEF IsPayload
<1>3. Complete(q) <=> Complete(p)
  <2>1. /\ q.stream \notin MessageStreams \union {"gmail", "email_messages", "pdf"}
        /\ q.stream = "linear_comments" => q.words = p.words
    BY <1>1 DEF Live, LiveStreams, MessageStreams
  <2> QED
    BY <1>1, <2>1 DEF Complete, Text
<1>4. RecordOf(q).ref = RecordOf(p).ref
  <2>1. ASSUME NEW x, x.stream = "linear_users" PROVE RecordOf(x).ref = <<"linear", "user", x.id>>
    <3>1. RecordOf(x) = LinearUser(x)
      BY <2>1 DEF RecordOf, SlackStreams, MessageStreams
    <3> QED
      BY <3>1 DEF LinearUser, Person, SourceRecord
  <2>2. ASSUME NEW x, x.stream = "linear_issues" PROVE RecordOf(x).ref = <<"linear", "issue", x.id>>
    <3>1. RecordOf(x) = LinearIssue(x)
      BY <2>2 DEF RecordOf, SlackStreams, MessageStreams
    <3> QED
      BY <3>1 DEF LinearIssue, SourceRecord
  <2>3. ASSUME NEW x, x.stream = "linear_comments" PROVE RecordOf(x).ref = <<"linear", "comment", x.id>>
    <3>1. RecordOf(x) = LinearComment(x)
      BY <2>3 DEF RecordOf, SlackStreams, MessageStreams
    <3> QED
      BY <3>1 DEF LinearComment, SourceRecord
  <2>4. ASSUME NEW x, x.stream = "twenty_companies" PROVE RecordOf(x).ref = <<"twenty", "company", x.id>>
    <3>1. RecordOf(x) = TwentyCompany(x)
      BY <2>4 DEF RecordOf, SlackStreams, MessageStreams
    <3> QED
      BY <3>1 DEF TwentyCompany, SourceRecord
  <2>5. ASSUME NEW x, x.stream = "twenty_people" PROVE RecordOf(x).ref = <<"twenty", "person", x.id>>
    <3>1. RecordOf(x) = TwentyPerson(x)
      BY <2>5 DEF RecordOf, SlackStreams, MessageStreams
    <3> QED
      BY <3>1 DEF TwentyPerson, Person, SourceRecord
  <2>6. ASSUME NEW x, x.stream = "google_drive_files" PROVE RecordOf(x).ref = <<"google_drive", "file", x.id>>
    <3>1. RecordOf(x) = GoogleDriveFile(x)
      BY <2>6 DEF RecordOf, SlackStreams, MessageStreams
    <3> QED
      BY <3>1 DEF GoogleDriveFile, SourceRecord
  <2> QED
    BY <1>1, <2>1, <2>2, <2>3, <2>4, <2>5, <2>6 DEF Live, LiveStreams
<1> QED
  BY <1>2, <1>3, <1>4 DEF q

\* What a loader makes of payloads of which no two are of one source.
IsBatch(batch) ==
    /\ \A p \in DOMAIN batch :
          /\ IsPayload(p) /\ (Complete(p) => RecordOf(p).ref \in Refs)
          /\ batch[p] # Nil => batch[p] = RecordOf(p) /\ Complete(p) /\ ~ LeftOut(p)
    /\ \A p, q \in DOMAIN batch :
          Complete(p) /\ Complete(q) /\ RecordOf(p).ref = RecordOf(q).ref => p = q

LEMMA FewAreOfOneEach ==
    ASSUME NEW streams, NEW B \in Sends(streams)
    PROVE  /\ B \subseteq {p \in Payloads : p.stream \in streams}
           /\ \A p \in B : IsPayload(p) /\ (Complete(p) => RecordOf(p).ref \in Refs)
           /\ \A p, q \in B :
                 Complete(p) /\ Complete(q) /\ RecordOf(p).ref = RecordOf(q).ref => p = q
<1>1. B \subseteq {p \in Payloads : p.stream \in streams} /\ OneEach(B)
  BY DEF Sends, Few
<1>2. \A p \in B : IsPayload(p) /\ (Complete(p) => RecordOf(p).ref \in Refs)
  BY <1>1, PreparationAssumption DEF Refs
<1>3. ASSUME NEW p \in B, NEW q \in B, Complete(p), Complete(q), RecordOf(p).ref = RecordOf(q).ref
      PROVE  p = q
  <2>1. SpeaksFor(p, RecordOf(p)) /\ SpeaksFor(q, RecordOf(q))
    BY <1>2, RecordsSpeak
  <2>2. RecordOf(p).system = RecordOf(q).system /\ RecordOf(p).id = RecordOf(q).id
    BY <1>3, <2>1 DEF SpeaksFor
  <2> QED
    BY <1>1, <1>3, <2>2 DEF OneEach
<1> QED
  BY <1>1, <1>2, <1>3

LEMMA BatchesAreBatches ==
    ASSUME NEW streams, streams \in {FileStreams, SlackStreams} \union {{s} : s \in OtherStreams},
           NEW batch \in Batches[streams]
    PROVE  IsBatch(batch)
<1>1. PICK B \in Sends(streams) : batch = Loaded(B)
  BY DEF Batches
<1>2. /\ DOMAIN batch = B
      /\ \A p \in B : batch[p] # Nil => batch[p] = RecordOf(p) /\ Complete(p) /\ ~ LeftOut(p)
  BY <1>1 DEF Loaded
<1> QED
  BY <1>2, FewAreOfOneEach DEF IsBatch

LEMMA LiveBatchesAreBatches ==
    ASSUME NEW streams \in LiveStreams, NEW batch \in LiveBatches[streams]
    PROVE  IsBatch(batch)
<1>1. PICK B \in Sends(streams) : batch = Loaded({Sent(p) : p \in B})
  BY DEF LiveBatches
<1> DEFINE S == {Sent(p) : p \in B}
<1>2. /\ DOMAIN batch = S
      /\ \A p \in S : batch[p] # Nil => batch[p] = RecordOf(p) /\ Complete(p) /\ ~ LeftOut(p)
  BY <1>1 DEF Loaded
<1>3. /\ \A p \in B : IsPayload(p) /\ (Complete(p) => RecordOf(p).ref \in Refs)
      /\ \A p, q \in B : Complete(p) /\ Complete(q) /\ RecordOf(p).ref = RecordOf(q).ref => p = q
  BY FewAreOfOneEach
<1>4. \A p \in B : p.stream \in Live
  BY FewAreOfOneEach DEF Live
<1>5. \A p \in B : /\ IsPayload(Sent(p)) /\ (Complete(Sent(p)) <=> Complete(p))
                   /\ RecordOf(Sent(p)).ref = RecordOf(p).ref
  BY <1>3, <1>4, SentPayloads
<1>6. \A p \in S : IsPayload(p) /\ (Complete(p) => RecordOf(p).ref \in Refs)
  BY <1>3, <1>5
<1>7. ASSUME NEW x \in S, NEW y \in S, Complete(x), Complete(y), RecordOf(x).ref = RecordOf(y).ref
      PROVE  x = y
  <2>1. PICK p \in B, q \in B : x = Sent(p) /\ y = Sent(q)
    OBVIOUS
  <2>2. Complete(p) /\ Complete(q) /\ RecordOf(p).ref = RecordOf(q).ref
    BY <1>5, <1>7, <2>1
  <2> QED
    BY <1>3, <2>1, <2>2
<1> QED
  BY <1>2, <1>6, <1>7 DEF IsBatch

\* A batch of a snapshot file.
IsOfFile(batch) == \A p \in DOMAIN batch : p.stream \in FileStreams

LEMMA FileBatches ==
    ASSUME NEW batch \in Batches[FileStreams]
    PROVE  IsOfFile(batch)
<1>1. PICK B \in Sends(FileStreams) : batch = Loaded(B)
  BY DEF Batches
<1>2. DOMAIN batch = B
  BY <1>1 DEF Loaded
<1> QED
  BY <1>2, FewAreOfOneEach DEF IsOfFile

LEMMA FileSystems ==
    ASSUME NEW p, p.stream \in FileStreams
    PROVE  RecordOf(p).system \in {"linear", "slack", "twenty"}
<1>1. RecordOf(p) = SnapshotRecord(p)
  BY DEF FileStreams, RecordOf, SlackStreams, MessageStreams
<1>2. CASE p.stream = "snapshot_members"
  <2>1. SnapshotRecord(p) = SnapshotMember(p)
    BY <1>2 DEF SnapshotRecord
  <2> QED
    BY <1>1, <2>1 DEF SnapshotMember, Person, SourceRecord
<1>3. CASE p.stream = "snapshot_slack_users"
  <2>1. SnapshotRecord(p) = SnapshotSlackUser(p)
    BY <1>3 DEF SnapshotRecord
  <2> QED
    BY <1>1, <2>1 DEF SnapshotSlackUser, Person, SourceRecord
<1>4. CASE p.stream = "snapshot_users"
  <2>1. SnapshotRecord(p) = SnapshotUser(p)
    BY <1>4 DEF SnapshotRecord
  <2> QED
    BY <1>1, <2>1 DEF SnapshotUser, Person, SourceRecord
<1>5. CASE p.stream = "snapshot_teams"
  <2>1. SnapshotRecord(p) = SnapshotTeam(p)
    BY <1>5 DEF SnapshotRecord
  <2> QED
    BY <1>1, <2>1 DEF SnapshotTeam, SourceRecord
<1>6. CASE p.stream = "snapshot_projects"
  <2>1. SnapshotRecord(p) = SnapshotProject(p)
    BY <1>6 DEF SnapshotRecord
  <2> QED
    BY <1>1, <2>1 DEF SnapshotProject, SourceRecord
<1>7. CASE p.stream = "snapshot_issues"
  <2>1. SnapshotRecord(p) = SnapshotIssue(p)
    BY <1>7 DEF SnapshotRecord
  <2> QED
    BY <1>1, <2>1 DEF SnapshotIssue, LinearIssue, SourceRecord
<1>8. CASE p.stream = "snapshot_comments"
  <2>1. SnapshotRecord(p) = SnapshotComment(p)
    BY <1>8 DEF SnapshotRecord
  <2> QED
    BY <1>1, <2>1 DEF SnapshotComment, LinearComment, SourceRecord
<1> QED
  BY <1>2, <1>3, <1>4, <1>5, <1>6, <1>7, <1>8 DEF FileStreams

-----------------------------------------------------------------------------
(* Rows, holds and units *)

\* What is stored for a ref is of that ref.
RowsAreTheirs ==
    \A r \in Refs : Stored(r) =>
        /\ DOMAIN row[r] = RecordFields /\ row[r].ref = r
        /\ row[r].system = r[1] /\ row[r].id = IdOf(r)
        /\ row[r].words \in Nat /\ row[r].attached = 0

\* A hold is in the row of what it holds.
HoldsAreInRows ==
    \A r \in Refs : hold[r] # Nil =>
        hold[r].state # "active" /\ (Stored(r) => row[r].life = hold[r].state)

\* An active row is of a payload that is not gone.
ActiveAreSent ==
    \A r \in Refs : Stored(r) /\ Effective(row[r]) = "active" =>
        /\ IsPayload(sent[r]) /\ ~ Gone(sent[r])
        /\ row[r].may = {} => ForAll(sent[r])

TextOf(r) == row[r].words + (IF r \in full THEN RecordOf(sent[r]).attached ELSE 0)

UnitsAreOfRows ==
    \A r \in Refs :
        unit[r] = IF Stored(r) /\ Effective(row[r]) = "active" THEN Windows(TextOf(r)) ELSE {}

\* A row is what was summed up of it, unless it was missing since: of a document the sum
\* says no more than its content.
RowsAreSummed ==
    \A r \in Refs : Stored(r) /\ row[r].system # "pdf" /\ hold[r] # Missing =>
        row[r] = [sum[r] EXCEPT !.life = Effective(sum[r])]

Tables ==
    /\ DOMAIN row = Refs /\ DOMAIN sum = Refs /\ DOMAIN hold = Refs /\ DOMAIN unit = Refs
    /\ DOMAIN sent = Refs /\ DOMAIN since = Refs

PrepInv ==
    /\ Tables /\ RowsAreTheirs /\ HoldsAreInRows /\ ActiveAreSent /\ UnitsAreOfRows
    /\ RowsAreSummed

-----------------------------------------------------------------------------
(* Imports *)

\* A record with the lifecycle that its source is held in.
LEMMA ExistingLifecycle ==
    ASSUME NEW x, DOMAIN x = RecordFields
    PROVE  /\ DOMAIN WithExistingLifecycle(x) = RecordFields
           /\ \A f \in RecordFields \ {"life"} : WithExistingLifecycle(x)[f] = x[f]
           /\ WithExistingLifecycle(x).life =
                IF hold[x.ref] # Nil /\ ~ Lifts(x) THEN hold[x.ref].state ELSE x.life
BY DEF WithExistingLifecycle, RecordFields

LEMMA RowFields ==
    ASSUME NEW x, DOMAIN x = RecordFields
    PROVE  /\ DOMAIN RowOf(x) = RecordFields
           /\ \A f \in RecordFields \ {"life", "attached"} : RowOf(x)[f] = x[f]
           /\ RowOf(x).life = Effective(x) /\ RowOf(x).attached = 0
           /\ Effective(RowOf(x)) = Effective(x)
<1>1. /\ DOMAIN RowOf(x) = RecordFields
      /\ \A f \in RecordFields \ {"life", "attached"} : RowOf(x)[f] = x[f]
      /\ RowOf(x).life = Effective(x) /\ RowOf(x).attached = 0
  BY DEF RowOf, RecordFields
<1>2. RowOf(x).perms = x.perms
  BY <1>1 DEF RecordFields
<1> QED
  BY <1>1, <1>2 DEF Effective

\* A row as the checksum of its record has it.
LEMMA SumsOfRows ==
    ASSUME NEW x, DOMAIN x = RecordFields
    PROVE  RowOf(x) = [[x EXCEPT !.attached = 0] EXCEPT !.life = Effective([x EXCEPT !.attached = 0])]
<1> DEFINE y == [x EXCEPT !.attached = 0]
<1>1. Effective(y) = Effective(x)
  BY DEF Effective, RecordFields
<1>2. RowOf(x) = [y EXCEPT !.life = Effective(x)]
  BY DEF RowOf, RecordFields
<1> QED
  BY <1>1, <1>2

\* The sources that an import brings, and what it may take for missing.
RefsOf(batch) == {x.ref : x \in Records(batch)}

MayBeMissing(batch, gone) ==
    gone \subseteq {r \in Sources : Stored(r)} \ RefsOf(batch)

\* What an import stores for a source that it brings, and for another one.
Brings(batch, r) ==
    LET p == sent'[r]
        x == RecordOf(p)
        w == WithExistingLifecycle(x)
    IN /\ p \in DOMAIN batch /\ batch[p] = x /\ x.ref = r /\ ~ LeftOut(p)
       /\ row'[r] = RowOf(w) /\ sum'[r] = Checksum(w) /\ unit'[r] = UnitsOf(w)
       /\ IF Effective(w) # "active" /\ hold[r] = Nil
          THEN hold'[r] = [state |-> Effective(w), reason |-> Reason(w)]
          ELSE IF Lifts(w) THEN hold'[r] = Nil ELSE hold'[r] = hold[r]

Spares(batch, gone, r) ==
    /\ hold'[r] = IF r \in gone THEN Missing ELSE hold[r]
    /\ \/ /\ row'[r] = NoRow /\ unit'[r] = {}
          /\ \E x \in Records(batch) : x.system = row[r].system /\ x.id = row[r].id
       \/ /\ r \in gone /\ unit'[r] = {}
          /\ row'[r] = [row[r] EXCEPT !.life = "deleted", !.identities = {}]
       \/ /\ r \notin gone /\ row'[r] = row[r] /\ sum'[r] = sum[r]
          /\ unit'[r] = unit[r] /\ sent'[r] = sent[r]

\* What is stored of the records of an import.
LEMMA ImportedRows ==
    ASSUME NEW batch, NEW gone, NEW counts, Tables, RowsAreTheirs, HoldsAreInRows,
           IsBatch(batch), MayBeMissing(batch, gone), Import(batch, gone, counts)
    PROVE  /\ RefsOf(batch) \subseteq Refs /\ gone \subseteq Refs /\ gone \intersect RefsOf(batch) = {}
           /\ Tables'
           /\ full' = full \union RefsOf(batch)
           /\ \A r \in RefsOf(batch) : Brings(batch, r)
           /\ \A r \in Refs \ RefsOf(batch) : Spares(batch, gone, r)
<1> DEFINE recs == {WithExistingLifecycle(x) : x \in Records(batch)}
           refs == {x.ref : x \in recs}
           of == [r \in refs |-> CHOOSE x \in recs : x.ref = r]
           withdrawn == {x.ref : x \in Withdraws(recs)}
           replaced == {r \in Sources \ refs : row[r] # NoRow
                           /\ \E x \in recs : <<x.system, x.id>> = <<row[r].system, row[r].id>>}
           R == {x.ref : x \in Records(batch)}
           Sends1(r) == {p \in DOMAIN batch : batch[p] # Nil /\ batch[p].ref = r}
<1>1. Sources = Refs
  BY DEF Tables, Sources
<1>2. /\ \A p \in DOMAIN batch : Complete(p)
      /\ hold' = [r \in Sources |->
                        CASE r \in gone -> Missing
                          [] r \in withdrawn ->
                               [state |-> Effective(of[r]), reason |-> Reason(of[r])]
                          [] r \in refs \ withdrawn /\ Lifts(of[r]) -> Nil
                          [] OTHER -> hold[r]]
      /\ row' = [r \in Sources |->
                       CASE r \in refs -> RowOf(of[r])
                         [] r \in replaced -> NoRow
                         [] r \in gone \ replaced ->
                              [row[r] EXCEPT !.life = "deleted", !.identities = {}]
                         [] OTHER -> row[r]]
      /\ sum' = [r \in Sources |->
                       CASE r \in refs -> Checksum(of[r])
                         [] r \in replaced -> Nil
                         [] OTHER -> sum[r]]
      /\ unit' = [r \in Sources |->
                        CASE r \in refs -> UnitsOf(of[r])
                          [] r \in replaced \union gone -> {}
                          [] OTHER -> unit[r]]
      /\ sent' = [r \in Sources |->
                        CASE r \in refs ->
                               CHOOSE p \in DOMAIN batch : batch[p] # Nil /\ batch[p].ref = r
                          [] r \in gone -> [sent[r] EXCEPT !.marks = @ \union {"missing"}]
                          [] OTHER -> sent[r]]
      /\ since' = [r \in Sources |-> IF r \in refs THEN steps + 1 ELSE since[r]]
      /\ full' = full \union refs
  BY DEF Import
<1>3. \A x \in Records(batch) :
         \E p \in DOMAIN batch : /\ batch[p] = x /\ x # Nil /\ x = RecordOf(p) /\ Complete(p)
                                 /\ ~ LeftOut(p) /\ SpeaksFor(p, x) /\ x.ref \in Refs
  BY RecordsSpeak DEF Records, Range, IsBatch
<1>4. \A x \in Records(batch) : WithExistingLifecycle(x).ref = x.ref
  <2> SUFFICES ASSUME NEW x \in Records(batch) PROVE WithExistingLifecycle(x).ref = x.ref
    OBVIOUS
  <2>1. DOMAIN x = RecordFields
    BY <1>3 DEF SpeaksFor
  <2> QED
    BY <2>1, ExistingLifecycle DEF RecordFields
<1>10. \A x \in Records(batch) : /\ WithExistingLifecycle(x).system = x.system
                                 /\ WithExistingLifecycle(x).id = x.id
  <2> SUFFICES ASSUME NEW x \in Records(batch)
               PROVE  WithExistingLifecycle(x).system = x.system /\ WithExistingLifecycle(x).id = x.id
    OBVIOUS
  <2>1. DOMAIN x = RecordFields
    BY <1>3 DEF SpeaksFor
  <2> QED
    BY <2>1, ExistingLifecycle DEF RecordFields
<1>5. refs = R
  BY <1>4
<1>6. R \subseteq Refs /\ gone \subseteq Refs /\ gone \intersect R = {}
  BY <1>1, <1>3 DEF MayBeMissing, RefsOf
<1>7. Tables'
  BY <1>1, <1>2 DEF Tables
<1>8. ASSUME NEW r \in R PROVE Brings(batch, r)
  <2> DEFINE p == sent'[r]
             x == RecordOf(p)
             w == WithExistingLifecycle(x)
  <2>1. r \in refs /\ r \in Sources /\ r \notin gone /\ r \notin replaced
    BY <1>1, <1>5, <1>6
  <2>2. p = CHOOSE q \in DOMAIN batch : batch[q] # Nil /\ batch[q].ref = r
    <3> HIDE DEF refs, of
    <3> QED
      BY <1>2, <2>1
  <2>3. \E q \in DOMAIN batch : batch[q] # Nil /\ batch[q].ref = r
    BY <1>3
  <2>4. p \in DOMAIN batch /\ batch[p] # Nil /\ batch[p].ref = r
    <3> HIDE DEF p
    <3> QED
      BY <2>2, <2>3
  <2>5. batch[p] = x /\ x.ref = r /\ ~ LeftOut(p) /\ x \in Records(batch)
    <3> HIDE DEF p
    <3> QED
      BY <2>4 DEF IsBatch, Records, Range
  <2>6. ASSUME NEW v \in recs, v.ref = r PROVE v = w
    <3>1. PICK y \in Records(batch) : v = WithExistingLifecycle(y)
      OBVIOUS
    <3>2. PICK q \in DOMAIN batch : y = RecordOf(q) /\ Complete(q)
      BY <1>3
    <3>3. RecordOf(q).ref = RecordOf(p).ref
      BY <1>4, <2>5, <2>6, <3>1, <3>2
    <3>4. q = p
      <4> HIDE DEF p
      <4> QED
        BY <1>2, <2>4, <3>3 DEF IsBatch
    <3> QED
      BY <3>1, <3>2, <3>4
  <2> HIDE DEF p
  <2>7. w \in recs /\ w.ref = r
    BY <1>4, <2>5
  <2>8. of[r] = w
    <3> HIDE DEF recs, w
    <3>1. of[r] = CHOOSE v \in recs : v.ref = r
      BY <2>1
    <3> QED
      BY <2>6, <2>7, <3>1
  <2>9. r \in withdrawn <=> Effective(w) # "active" /\ hold[r] = Nil
    <3> HIDE DEF recs, w
    <3> QED
      BY <2>6, <2>7 DEF Withdraws
  <2> HIDE DEF recs, refs, of, withdrawn, replaced, x, w
  <2>10. row'[r] = RowOf(w) /\ sum'[r] = Checksum(w) /\ unit'[r] = UnitsOf(w)
    <3>1. row'[r] = CASE r \in refs -> RowOf(of[r])
                       [] r \in replaced -> NoRow
                       [] r \in gone \ replaced -> [row[r] EXCEPT !.life = "deleted", !.identities = {}]
                       [] OTHER -> row[r]
      BY <1>2, <2>1
    <3>2. sum'[r] = CASE r \in refs -> Checksum(of[r])
                       [] r \in replaced -> Nil
                       [] OTHER -> sum[r]
      BY <1>2, <2>1
    <3>3. unit'[r] = CASE r \in refs -> UnitsOf(of[r])
                        [] r \in replaced \union gone -> {}
                        [] OTHER -> unit[r]
      BY <1>2, <2>1
    <3>4. row'[r] = RowOf(of[r])
      BY <2>1, <3>1
    <3>5. sum'[r] = Checksum(of[r])
      BY <2>1, <3>2
    <3>6. unit'[r] = UnitsOf(of[r])
      BY <2>1, <3>3
    <3> QED
      BY <2>8, <3>4, <3>5, <3>6
  <2>11. hold'[r] = CASE r \in gone -> Missing
                      [] r \in withdrawn -> [state |-> Effective(of[r]), reason |-> Reason(of[r])]
                      [] r \in refs \ withdrawn /\ Lifts(of[r]) -> Nil
                      [] OTHER -> hold[r]
    BY <1>2, <2>1
  <2>12. IF Effective(w) # "active" /\ hold[r] = Nil
         THEN hold'[r] = [state |-> Effective(w), reason |-> Reason(w)]
         ELSE IF Lifts(w) THEN hold'[r] = Nil ELSE hold'[r] = hold[r]
    <3>1. CASE r \in withdrawn
      BY <2>1, <2>8, <2>9, <2>11, <3>1
    <3>2. CASE r \notin withdrawn /\ Lifts(w)
      BY <2>1, <2>8, <2>9, <2>11, <3>2
    <3>3. CASE r \notin withdrawn /\ ~ Lifts(w)
      BY <2>1, <2>8, <2>9, <2>11, <3>3
    <3> QED
      BY <3>1, <3>2, <3>3
  <2> QED
    BY <2>4, <2>5, <2>10, <2>12 DEF p, x, w, Brings
<1>9. ASSUME NEW r \in Refs \ R PROVE Spares(batch, gone, r)
  <2>1. r \in Sources /\ r \notin refs
    BY <1>1, <1>5
  <2>2. r \notin withdrawn
    <3> HIDE DEF recs
    <3> QED
      BY <2>1 DEF Withdraws
  <2> HIDE DEF recs, refs, of, withdrawn, replaced, R
  <2>3. /\ hold'[r] = IF r \in gone THEN Missing ELSE hold[r]
    BY <1>2, <2>1, <2>2
  <2>4. row'[r] = CASE r \in refs -> RowOf(of[r])
                     [] r \in replaced -> NoRow
                     [] r \in gone \ replaced -> [row[r] EXCEPT !.life = "deleted", !.identities = {}]
                     [] OTHER -> row[r]
    BY <1>2, <2>1
  <2>5. unit'[r] = CASE r \in refs -> UnitsOf(of[r])
                      [] r \in replaced \union gone -> {}
                      [] OTHER -> unit[r]
    BY <1>2, <2>1
  <2>6. sent'[r] = CASE r \in refs -> CHOOSE p \in DOMAIN batch : batch[p] # Nil /\ batch[p].ref = r
                      [] r \in gone -> [sent[r] EXCEPT !.marks = @ \union {"missing"}]
                      [] OTHER -> sent[r]
    BY <1>2, <2>1
  <2>10. sum'[r] = CASE r \in refs -> Checksum(of[r])
                      [] r \in replaced -> Nil
                      [] OTHER -> sum[r]
    BY <1>2, <2>1
  <2>7. CASE r \in replaced
    <3>1. \E x \in Records(batch) : x.system = row[r].system /\ x.id = row[r].id
      BY <1>10, <2>7 DEF replaced, recs
    <3> QED
      BY <2>1, <2>3, <2>4, <2>5, <2>7, <3>1 DEF Spares
  <2>8. CASE r \notin replaced /\ r \in gone
    BY <2>1, <2>3, <2>4, <2>5, <2>8 DEF Spares
  <2>9. CASE r \notin replaced /\ r \notin gone
    BY <2>1, <2>3, <2>4, <2>5, <2>6, <2>9, <2>10 DEF Spares
  <2> QED
    BY <2>3, <2>7, <2>8, <2>9
<1>11. R = RefsOf(batch)
  BY DEF RefsOf
<1> HIDE DEF refs, of, withdrawn, replaced, R
<1> QED
  BY <1>2, <1>5, <1>6, <1>7, <1>8, <1>9, <1>11

LEMMA ImportKeepsPrepInv ==
    ASSUME NEW batch, NEW gone, NEW counts, PrepInv, IsBatch(batch), MayBeMissing(batch, gone),
           Import(batch, gone, counts)
    PROVE  PrepInv'
<1> DEFINE R == RefsOf(batch)
           w(r) == WithExistingLifecycle(RecordOf(sent'[r]))
<1>1. /\ Tables /\ RowsAreTheirs /\ HoldsAreInRows /\ ActiveAreSent /\ UnitsAreOfRows
      /\ RowsAreSummed
  BY DEF PrepInv
<1>2. /\ R \subseteq Refs /\ gone \subseteq Refs /\ gone \intersect R = {}
      /\ Tables' /\ full' = full \union R
      /\ \A r \in R : Brings(batch, r)
      /\ \A r \in Refs \ R : Spares(batch, gone, r)
  BY <1>1, ImportedRows
<1>14. ASSUME NEW r \in R
       PROVE  /\ sent'[r] \in DOMAIN batch /\ RecordOf(sent'[r]).ref = r /\ ~ LeftOut(sent'[r])
              /\ row'[r] = RowOf(w(r)) /\ sum'[r] = Checksum(w(r)) /\ unit'[r] = UnitsOf(w(r))
              /\ IF Effective(w(r)) # "active" /\ hold[r] = Nil
                 THEN hold'[r] = [state |-> Effective(w(r)), reason |-> Reason(w(r))]
                 ELSE IF Lifts(w(r)) THEN hold'[r] = Nil ELSE hold'[r] = hold[r]
  BY <1>2 DEF Brings
<1>15. ASSUME NEW r \in Refs \ R
       PROVE  /\ hold'[r] = IF r \in gone THEN Missing ELSE hold[r]
              /\ \/ row'[r] = NoRow /\ unit'[r] = {}
                 \/ /\ r \in gone /\ unit'[r] = {}
                    /\ row'[r] = [row[r] EXCEPT !.life = "deleted", !.identities = {}]
                 \/ /\ r \notin gone /\ row'[r] = row[r] /\ sum'[r] = sum[r]
                    /\ unit'[r] = unit[r] /\ sent'[r] = sent[r]
  BY <1>2 DEF Spares
\* What is imported.
<1>3. ASSUME NEW r \in R
      PROVE  /\ IsPayload(sent'[r]) /\ SpeaksFor(sent'[r], RecordOf(sent'[r]))
             /\ DOMAIN w(r) = RecordFields
             /\ \A f \in RecordFields \ {"life"} : w(r)[f] = RecordOf(sent'[r])[f]
             /\ w(r).life = IF hold[r] # Nil /\ ~ Lifts(RecordOf(sent'[r])) THEN hold[r].state
                            ELSE RecordOf(sent'[r]).life
  <2>1. IsPayload(sent'[r]) /\ RecordOf(sent'[r]).ref = r
    BY <1>2, <1>14, <1>15 DEF IsBatch
  <2>2. SpeaksFor(sent'[r], RecordOf(sent'[r]))
    BY <2>1, RecordsSpeak
  <2> QED
    BY <2>1, <2>2, ExistingLifecycle DEF SpeaksFor
<1>4. ASSUME NEW r \in R
      PROVE  /\ w(r).ref = r /\ w(r).system = r[1] /\ w(r).id = IdOf(r)
             /\ w(r).words \in Nat /\ w(r).attached = RecordOf(sent'[r]).attached
             /\ w(r).may = RecordOf(sent'[r]).may /\ w(r).perms = RecordOf(sent'[r]).perms
  <2>1. RecordOf(sent'[r]).ref = r
    BY <1>2, <1>14, <1>15
  <2> HIDE DEF w
  <2> QED
    BY <1>3, <2>1 DEF SpeaksFor, RecordFields
<1>5. ASSUME NEW r \in R
      PROVE  /\ DOMAIN row'[r] = RecordFields
             /\ row'[r].ref = r /\ row'[r].system = r[1] /\ row'[r].id = IdOf(r)
             /\ row'[r].words = w(r).words /\ row'[r].attached = 0 /\ row'[r].may = w(r).may
             /\ row'[r].life = Effective(w(r)) /\ Effective(row'[r]) = Effective(w(r))
  <2> HIDE DEF w, R
  <2>1. row'[r] = RowOf(w(r)) /\ DOMAIN w(r) = RecordFields
    BY <1>2, <1>14, <1>15, <1>3
  <2>2. /\ DOMAIN RowOf(w(r)) = RecordFields
        /\ \A f \in RecordFields \ {"life", "attached"} : RowOf(w(r))[f] = w(r)[f]
        /\ RowOf(w(r)).life = Effective(w(r)) /\ RowOf(w(r)).attached = 0
        /\ Effective(RowOf(w(r))) = Effective(w(r))
    BY <2>1, RowFields
  <2> QED
    BY <1>4, <2>1, <2>2 DEF RecordFields
<1> HIDE DEF w, R
\* A source that is held is not active, unless the import lifts it.
<1>6. ASSUME NEW r \in R, Effective(w(r)) = "active"
      PROVE  Effective(RecordOf(sent'[r])) = "active"
  <2>1. CASE hold[r] # Nil /\ ~ Lifts(RecordOf(sent'[r]))
    <3>1. w(r).life = hold[r].state /\ hold[r].state # "active"
      BY <1>1, <1>2, <1>14, <1>15, <1>3, <2>1 DEF HoldsAreInRows
    <3> QED
      BY <1>6, <3>1 DEF Effective
  <2>2. CASE ~ (hold[r] # Nil /\ ~ Lifts(RecordOf(sent'[r])))
    <3>1. w(r).life = RecordOf(sent'[r]).life
      BY <1>3, <2>2
    <3> QED
      BY <1>4, <1>6, <3>1 DEF Effective
  <2> QED
    BY <2>1, <2>2
\* What is not imported.
<1>7. ASSUME NEW r \in Refs \ R, row'[r] # NoRow, r \in gone
      PROVE  /\ Stored(r) /\ DOMAIN row'[r] = RecordFields /\ row'[r].ref = r
             /\ row'[r].system = r[1] /\ row'[r].id = IdOf(r)
             /\ row'[r].words \in Nat /\ row'[r].attached = 0
             /\ row'[r].life = "deleted" /\ Effective(row'[r]) # "active" /\ unit'[r] = {}
  <2>1. Stored(r)
    BY <1>7 DEF MayBeMissing
  <2>2. row'[r] = [row[r] EXCEPT !.life = "deleted", !.identities = {}] /\ unit'[r] = {}
    BY <1>2, <1>14, <1>15, <1>7
  <2>3. /\ DOMAIN row[r] = RecordFields /\ row[r].ref = r
        /\ row[r].system = r[1] /\ row[r].id = IdOf(r)
        /\ row[r].words \in Nat /\ row[r].attached = 0
    BY <1>1, <2>1 DEF RowsAreTheirs
  <2>4. /\ DOMAIN row'[r] = RecordFields /\ row'[r].ref = r
        /\ row'[r].system = r[1] /\ row'[r].id = IdOf(r)
        /\ row'[r].words \in Nat /\ row'[r].attached = 0 /\ row'[r].life = "deleted"
    BY <2>2, <2>3 DEF RecordFields
  <2> QED
    BY <2>1, <2>2, <2>4 DEF Effective
<1>8. ASSUME NEW r \in Refs \ R, row'[r] # NoRow, r \notin gone
      PROVE  /\ row'[r] = row[r] /\ sum'[r] = sum[r] /\ unit'[r] = unit[r] /\ sent'[r] = sent[r]
             /\ Stored(r)
  BY <1>2, <1>14, <1>15, <1>8 DEF Stored
<1>9. RowsAreTheirs'
  <2> SUFFICES ASSUME NEW r \in Refs, row'[r] # NoRow
               PROVE  /\ DOMAIN row'[r] = RecordFields /\ row'[r].ref = r
                      /\ row'[r].system = r[1] /\ row'[r].id = IdOf(r)
                      /\ row'[r].words \in Nat /\ row'[r].attached = 0
    BY DEF RowsAreTheirs, Stored
  <2>1. CASE r \in R
    BY <1>4, <1>5, <2>1
  <2>2. CASE r \notin R /\ r \in gone
    BY <1>7, <2>2
  <2>3. CASE r \notin R /\ r \notin gone
    BY <1>1, <1>8, <2>3 DEF RowsAreTheirs
  <2> QED
    BY <2>1, <2>2, <2>3
<1>10. HoldsAreInRows'
  <2> SUFFICES ASSUME NEW r \in Refs, hold'[r] # Nil
               PROVE  /\ hold'[r].state # "active"
                      /\ row'[r] # NoRow => row'[r].life = hold'[r].state
    BY DEF HoldsAreInRows, Stored
  <2>1. CASE r \in R
    <3>1. row'[r].life = Effective(w(r))
      BY <1>5, <2>1
    <3>2. CASE Effective(w(r)) # "active" /\ hold[r] = Nil
      <4>1. hold'[r] = [state |-> Effective(w(r)), reason |-> Reason(w(r))]
        BY <1>2, <1>14, <1>15, <2>1, <3>2
      <4> QED
        BY <3>1, <3>2, <4>1
    <3>3. CASE ~ (Effective(w(r)) # "active" /\ hold[r] = Nil)
      <4>1. ~ Lifts(w(r)) /\ hold'[r] = hold[r]
        BY <1>2, <1>14, <1>15, <2>1, <3>3
      <4>2. hold[r] # Nil /\ hold[r].state # "active"
        BY <1>1, <4>1 DEF HoldsAreInRows
      <4>3. ~ Lifts(RecordOf(sent'[r]))
        <5> SUFFICES ASSUME Lifts(RecordOf(sent'[r])) PROVE FALSE
          OBVIOUS
        <5>1. w(r) = RecordOf(sent'[r])
          BY <1>2, <1>14, <1>15, <2>1 DEF w, WithExistingLifecycle
        <5> QED
          BY <4>1, <5>1
      <4>4. w(r).life = hold[r].state
        BY <1>3, <2>1, <4>2, <4>3
      <4> QED
        BY <3>1, <4>1, <4>2, <4>4 DEF Effective
    <3> QED
      BY <3>2, <3>3
  <2>2. CASE r \notin R /\ r \in gone
    <3>1. hold'[r] = Missing
      BY <1>2, <1>14, <1>15, <2>2
    <3>2. row'[r] # NoRow => row'[r].life = "deleted"
      BY <1>7, <2>2
    <3> QED
      BY <3>1, <3>2 DEF Missing
  <2>3. CASE r \notin R /\ r \notin gone
    <3>1. hold'[r] = hold[r]
      BY <1>2, <1>14, <1>15, <2>3
    <3> QED
      BY <1>1, <1>8, <2>3, <3>1 DEF HoldsAreInRows
  <2> QED
    BY <2>1, <2>2, <2>3
<1>11. ActiveAreSent'
  <2> SUFFICES ASSUME NEW r \in Refs, row'[r] # NoRow, Effective(row'[r]) = "active"
               PROVE  /\ IsPayload(sent'[r]) /\ ~ Gone(sent'[r])
                      /\ row'[r].may = {} => ForAll(sent'[r])
    BY DEF ActiveAreSent, Stored
  <2>1. CASE r \in R
    <3>1. Effective(RecordOf(sent'[r])) = "active"
      BY <1>5, <1>6, <2>1
    <3>2. SpeaksFor(sent'[r], RecordOf(sent'[r])) /\ IsPayload(sent'[r]) /\ ~ LeftOut(sent'[r])
      BY <1>2, <1>14, <1>15, <1>3, <2>1
    <3>3. row'[r].may = RecordOf(sent'[r]).may
      BY <1>4, <1>5, <2>1
    <3> QED
      BY <3>1, <3>2, <3>3 DEF SpeaksFor
  <2>2. CASE r \notin R /\ r \in gone
    BY <1>7, <2>2
  <2>3. CASE r \notin R /\ r \notin gone
    BY <1>1, <1>8, <2>3 DEF ActiveAreSent
  <2> QED
    BY <2>1, <2>2, <2>3
<1>12. UnitsAreOfRows'
  <2> SUFFICES ASSUME NEW r \in Refs
               PROVE  unit'[r] = IF row'[r] # NoRow /\ Effective(row'[r]) = "active"
                                 THEN Windows(row'[r].words
                                        + (IF r \in full' THEN RecordOf(sent'[r]).attached ELSE 0))
                                 ELSE {}
    BY DEF UnitsAreOfRows, Stored, TextOf
  <2>1. CASE r \in R
    <3>1. r \in full' /\ unit'[r] = UnitsOf(w(r))
      BY <1>2, <1>14, <1>15, <2>1
    <3>2. row'[r].words = w(r).words /\ RecordOf(sent'[r]).attached = w(r).attached
          /\ Effective(row'[r]) = Effective(w(r))
      BY <1>4, <1>5, <2>1
    <3>3. row'[r] # NoRow
      BY <1>5, <2>1 DEF NoRow, RecordFields
    <3> QED
      BY <3>1, <3>2, <3>3 DEF UnitsOf, RetrievalText
  <2>2. CASE r \notin R /\ r \in gone
    <3>1. unit'[r] = {}
      BY <1>2, <1>14, <1>15, <2>2
    <3>2. row'[r] # NoRow => Effective(row'[r]) # "active"
      BY <1>7, <2>2
    <3> QED
      BY <3>1, <3>2
  <2>3. CASE r \notin R /\ r \notin gone
    <3>1. CASE row'[r] = NoRow
      <4>1. row[r] = NoRow => unit[r] = {}
        BY <1>1 DEF UnitsAreOfRows, Stored
      <4>2. unit'[r] = {}
        BY <1>2, <1>14, <1>15, <2>3, <3>1, <4>1
      <4> QED
        BY <3>1, <4>2
    <3>2. CASE row'[r] # NoRow
      <4>1. r \in full' <=> r \in full
        BY <1>2, <1>14, <1>15, <2>3
      <4> QED
        BY <1>1, <1>8, <2>3, <3>2, <4>1 DEF UnitsAreOfRows, Stored, TextOf
    <3> QED
      BY <3>1, <3>2
  <2> QED
    BY <2>1, <2>2, <2>3
<1>13. RowsAreSummed'
  <2> SUFFICES ASSUME NEW r \in Refs, row'[r] # NoRow, row'[r].system # "pdf", hold'[r] # Missing
               PROVE  row'[r] = [sum'[r] EXCEPT !.life = Effective(sum'[r])]
    BY DEF RowsAreSummed, Stored
  <2>1. CASE r \in R
    <3>1. row'[r] = RowOf(w(r)) /\ sum'[r] = Checksum(w(r)) /\ DOMAIN w(r) = RecordFields
      BY <1>2, <1>14, <1>15, <1>3, <2>1
    <3>2. w(r).system # "pdf"
      BY <1>4, <1>5, <2>1
    <3>3. sum'[r] = [w(r) EXCEPT !.attached = 0]
      BY <3>1, <3>2 DEF Checksum
    <3> QED
      BY <3>1, <3>3, SumsOfRows
  <2>2. CASE r \notin R
    <3>1. r \notin gone
      BY <1>2, <1>14, <1>15, <2>2
    <3>2. hold'[r] = hold[r]
      BY <1>2, <1>14, <1>15, <2>2, <3>1
    <3> QED
      BY <1>1, <1>8, <2>2, <3>1, <3>2 DEF RowsAreSummed
  <2> QED
    BY <2>1, <2>2
<1> QED
  BY <1>2, <1>14, <1>15, <1>9, <1>10, <1>11, <1>12, <1>13 DEF PrepInv

-----------------------------------------------------------------------------
(* Steps *)

LEMMA PrepInit == ASSUME Init PROVE PrepInv
BY DEF Init, PrepInv, Tables, RowsAreTheirs, HoldsAreInRows, ActiveAreSent, UnitsAreOfRows,
       RowsAreSummed, Stored

LEMMA RebuildUnitsKeepsPrepInv == ASSUME PrepInv, RebuildUnits PROVE PrepInv'
<1>1. /\ unit' = [r \in Refs |-> IF row[r] = NoRow THEN {} ELSE UnitsOf(row[r])]
      /\ full' = {} /\ UNCHANGED <<row, sum, hold, sent, since>>
  BY DEF RebuildUnits, PrepInv, Tables, Sources
<1>2. Tables' /\ RowsAreTheirs' /\ HoldsAreInRows' /\ ActiveAreSent' /\ RowsAreSummed'
  BY <1>1 DEF PrepInv, Tables, RowsAreTheirs, HoldsAreInRows, ActiveAreSent, RowsAreSummed, Stored
<1>3. UnitsAreOfRows'
  <2> SUFFICES ASSUME NEW r \in Refs
               PROVE  unit'[r] = IF row[r] # NoRow /\ Effective(row[r]) = "active"
                                 THEN Windows(row[r].words + 0) ELSE {}
    BY <1>1 DEF UnitsAreOfRows, Stored, TextOf
  <2>1. row[r] # NoRow => row[r].attached = 0
    BY DEF PrepInv, RowsAreTheirs, Stored
  <2>2. unit'[r] = IF row[r] = NoRow THEN {} ELSE UnitsOf(row[r])
    BY <1>1
  <2> QED
    BY <2>1, <2>2 DEF UnitsOf, RetrievalText
<1> QED
  BY <1>2, <1>3 DEF PrepInv

LEMMA RebuildLinksKeepsPrepInv == ASSUME PrepInv, RebuildLinks PROVE PrepInv'
<1>1. UNCHANGED <<row, sum, hold, unit, sent, since, full>>
  BY DEF RebuildLinks
<1> QED
  BY <1>1 DEF PrepInv, Tables, RowsAreTheirs, HoldsAreInRows, ActiveAreSent, UnitsAreOfRows,
              RowsAreSummed, Stored, TextOf

LEMMA RejectKeepsPrepInv == ASSUME NEW batch, PrepInv, Reject(batch) PROVE PrepInv'
<1>1. UNCHANGED <<row, sum, hold, unit, sent, since, full>>
  BY DEF Reject
<1> QED
  BY <1>1 DEF PrepInv, Tables, RowsAreTheirs, HoldsAreInRows, ActiveAreSent, UnitsAreOfRows,
              RowsAreSummed, Stored, TextOf

\* A step imports a batch, refuses one or rebuilds.
LEMMA PrepSteps ==
    ASSUME Next
    PROVE  \/ \E batch, gone, counts :
                 IsBatch(batch) /\ MayBeMissing(batch, gone) /\ Import(batch, gone, counts)
                 /\ (counts = Nil \/ (counts = ImportCounts(batch, gone) /\ IsOfFile(batch)))
           \/ \E batch : Reject(batch)
           \/ RebuildLinks
           \/ RebuildUnits
<1> DEFINE Imported == \E batch, gone, counts :
                 IsBatch(batch) /\ MayBeMissing(batch, gone) /\ Import(batch, gone, counts)
                 /\ (counts = Nil \/ (counts = ImportCounts(batch, gone) /\ IsOfFile(batch)))
           Rejected == \E batch : Reject(batch)
<1>1. ASSUME NEW batch, NEW gone, NEW counts, IsBatch(batch), MayBeMissing(batch, gone),
             counts = Nil \/ (counts = ImportCounts(batch, gone) /\ IsOfFile(batch)),
             Import(batch, gone, counts)
      PROVE  Imported
  BY <1>1
<1>2. ASSUME NEW batch, Reject(batch) PROVE Rejected
  BY <1>2
<1>3. \A batch : MayBeMissing(batch, {})
  BY DEF MayBeMissing
<1>4. ASSUME NEW batch, NEW scope, scope \subseteq {r \in Sources : Stored(r)}
      PROVE  MayBeMissing(batch, MissingFrom(batch, scope))
  BY <1>4 DEF MayBeMissing, MissingFrom, RefsOf
<1>5. ASSUME NEW batch PROVE MayBeMissing(batch, MissingFromFile(batch))
  BY <1>4 DEF MissingFromFile
<1> HIDE DEF Imported, Rejected
<1>6. ASSUME Ingest PROVE Imported \/ Rejected
  <2> PICK s \in OtherStreams :
         \E batch \in Batches[{s}] : Import(batch, {}, Nil) \/ Reject(batch)
    BY <1>6 DEF Ingest
  <2>1. PICK batch \in Batches[{s}] : Import(batch, {}, Nil) \/ Reject(batch)
    OBVIOUS
  <2>2. IsBatch(batch)
    <3>1. {s} \in {FileStreams, SlackStreams} \union {{t} : t \in OtherStreams}
      OBVIOUS
    <3> QED
      BY <3>1, BatchesAreBatches
  <2> QED
    BY <1>1, <1>2, <1>3, <2>1, <2>2
<1>7. ASSUME IngestSlack PROVE Imported \/ Rejected
  <2>1. PICK batch \in Batches[SlackStreams] : Import(batch, {}, Nil) \/ Reject(batch)
    BY <1>7 DEF IngestSlack
  <2>2. IsBatch(batch)
    BY BatchesAreBatches
  <2> QED
    BY <1>1, <1>2, <1>3, <2>1, <2>2
<1>8. ASSUME ImportSnapshot PROVE Imported \/ Rejected
  <2> PICK streams \in LiveStreams : \E batch \in LiveBatches[streams] :
          \/ \E scopes : Import(batch, MissingFrom(batch,
                 {r \in Sources : Stored(r) /\ <<row[r].system, row[r].type>> \in scopes}), Nil)
          \/ Reject(batch)
    BY <1>8 DEF ImportSnapshot
  <2>1. PICK batch \in LiveBatches[streams] :
          \/ \E scopes : Import(batch, MissingFrom(batch,
                 {r \in Sources : Stored(r) /\ <<row[r].system, row[r].type>> \in scopes}), Nil)
          \/ Reject(batch)
    OBVIOUS
  <2>2. IsBatch(batch)
    BY LiveBatchesAreBatches
  <2>3. CASE Reject(batch)
    BY <1>2, <2>3
  <2>4. ASSUME NEW scopes, Import(batch, MissingFrom(batch,
                 {r \in Sources : Stored(r) /\ <<row[r].system, row[r].type>> \in scopes}), Nil)
        PROVE  Imported
    <3>1. MayBeMissing(batch, MissingFrom(batch,
                 {r \in Sources : Stored(r) /\ <<row[r].system, row[r].type>> \in scopes}))
      BY <1>4
    <3> QED
      BY <1>1, <2>2, <2>4, <3>1
  <2> QED
    BY <2>1, <2>3, <2>4
<1>9. ASSUME ImportFile PROVE Imported \/ Rejected
  <2>1. PICK batch \in Batches[FileStreams] :
          \/ Import(batch, MissingFromFile(batch), ImportCounts(batch, MissingFromFile(batch)))
          \/ Reject(batch)
    BY <1>9 DEF ImportFile
  <2>2. IsBatch(batch) /\ IsOfFile(batch)
    BY BatchesAreBatches, FileBatches
  <2> QED
    BY <1>1, <1>2, <1>5, <2>1, <2>2
<1>10. ASSUME ImportLimited PROVE Imported
  <2>1. PICK batch \in Batches[FileStreams] : Import(batch, {}, ImportCounts(batch, {}))
    BY <1>10 DEF ImportLimited
  <2>2. IsBatch(batch) /\ IsOfFile(batch)
    BY BatchesAreBatches, FileBatches
  <2> QED
    BY <1>1, <1>3, <2>1, <2>2
<1>11. Imported \/ Rejected \/ RebuildLinks \/ RebuildUnits
  BY <1>6, <1>7, <1>8, <1>9, <1>10 DEF Next
<1> QED
  BY <1>11 DEF Imported, Rejected

LEMMA PrepNext == ASSUME PrepInv, [Next]_vars PROVE PrepInv'
<1>1. CASE UNCHANGED vars
  BY <1>1 DEF vars, PrepInv, Tables, RowsAreTheirs, HoldsAreInRows, ActiveAreSent, UnitsAreOfRows,
              RowsAreSummed, Stored, TextOf
<1>2. CASE Next
  BY <1>2, PrepSteps, ImportKeepsPrepInv, RejectKeepsPrepInv, RebuildLinksKeepsPrepInv,
     RebuildUnitsKeepsPrepInv
<1> QED
  BY <1>1, <1>2

LEMMA PrepInvariant == Spec => []PrepInv
<1>1. Init => PrepInv
  BY PrepInit
<1>2. PrepInv /\ [Next]_vars => PrepInv'
  BY PrepNext
<1> QED
  BY <1>1, <1>2, PTL DEF Spec

\* The units of an active source cover its text, word by word, with the overlap that was
\* asked for and none that says nothing new: chunk_text, whatever the texts and the limits,
\* through imports, snapshots and rebuilds.
THEOREM UnitsAlwaysCover == Spec => []UnitsCoverText
<1>1. ASSUME PrepInv PROVE UnitsCoverText
  <2> SUFFICES ASSUME NEW r \in Refs, Stored(r), Effective(row[r]) = "active"
               PROVE  CoversText(unit[r], TextOf(r))
    BY <1>1 DEF UnitsCoverText, CoversText, TextOf, PrepInv, Tables, Sources
  <2>1. unit[r] = Windows(TextOf(r))
    BY <1>1 DEF PrepInv, UnitsAreOfRows
  <2>2. IsPayload(sent[r]) /\ row[r].words \in Nat
    BY <1>1 DEF PrepInv, ActiveAreSent, RowsAreTheirs
  <2>3. RecordOf(sent[r]).attached \in Nat
    BY <2>2, RecordsSpeak DEF SpeaksFor
  <2>4. TextOf(r) \in Nat
    BY <2>2, <2>3 DEF TextOf
  <2> QED
    BY <2>1, <2>4, WindowsCover
<1> QED
  BY <1>1, PrepInvariant, PTL

\* A source that is held, or whose provider said last that it is gone or did not list it any
\* more, has no unit, whatever was imported or rebuilt since; and one that is open to all is
\* so by its provider's word.
THEOREM HiddenAlwaysHidden == Spec => []HiddenStaysHidden
<1>1. ASSUME PrepInv PROVE HiddenStaysHidden
  <2> SUFFICES ASSUME NEW r \in Refs, unit[r] # {}
               PROVE  /\ hold[r] = Nil /\ ~ Gone(sent[r])
                      /\ row[r].may = {} => ForAll(sent[r])
    BY <1>1 DEF HiddenStaysHidden, PrepInv, Tables, Sources
  <2>1. Stored(r) /\ Effective(row[r]) = "active"
    BY <1>1 DEF PrepInv, UnitsAreOfRows
  <2>2. hold[r] = Nil
    BY <1>1, <2>1 DEF PrepInv, HoldsAreInRows, Effective
  <2> QED
    BY <1>1, <2>1, <2>2 DEF PrepInv, ActiveAreSent
<1> QED
  BY <1>1, PrepInvariant, PTL

-----------------------------------------------------------------------------
(* Import counts *)

\* What a provider's ids say of its sources is true of refs.
LEMMA RefsAreUnique ==
    ASSUME NEW r \in Refs, NEW s \in Refs, r[1] = s[1], IdOf(r) = IdOf(s)
    PROVE  r = s \/ r[1] = "gmail"
<1>1. PICK p \in {x \in Payloads : Complete(x)} : r = RecordOf(p).ref
  BY DEF Refs
<1>2. PICK q \in {x \in Payloads : Complete(x)} : s = RecordOf(q).ref
  BY DEF Refs
<1>3. SpeaksFor(p, RecordOf(p)) /\ SpeaksFor(q, RecordOf(q))
  BY PreparationAssumption, RecordsSpeak
<1> QED
  BY <1>1, <1>2, <1>3, IdsAreUnique DEF SpeaksFor

LEMMA ImportsAreAccountedFor ==
    ASSUME NEW batch, NEW gone, NEW counts, PrepInv, IsBatch(batch), MayBeMissing(batch, gone),
           Import(batch, gone, counts),
           counts = Nil \/ (counts = ImportCounts(batch, gone) /\ IsOfFile(batch))
    PROVE  KeepsRefs /\ CountsAreTrue
<1> DEFINE R == RefsOf(batch)
           w(r) == WithExistingLifecycle(RecordOf(sent'[r]))
<1>1. /\ Tables /\ RowsAreTheirs /\ HoldsAreInRows /\ ActiveAreSent /\ UnitsAreOfRows
      /\ RowsAreSummed
  BY DEF PrepInv
<1>9. /\ R \subseteq Refs /\ gone \subseteq Refs /\ gone \intersect R = {}
      /\ \A r \in R : Brings(batch, r)
      /\ \A r \in Refs \ R : Spares(batch, gone, r)
  BY <1>1, ImportedRows
<1>10. ASSUME NEW r \in R
       PROVE  /\ sent'[r] \in DOMAIN batch /\ batch[sent'[r]] = RecordOf(sent'[r])
              /\ RecordOf(sent'[r]).ref = r /\ row'[r] = RowOf(w(r))
  BY <1>9 DEF Brings
<1>11. ASSUME NEW r \in Refs \ R
       PROVE  \/ /\ row'[r] = NoRow
                 /\ \E x \in Records(batch) : x.system = row[r].system /\ x.id = row[r].id
              \/ /\ r \in gone
                 /\ row'[r] = [row[r] EXCEPT !.life = "deleted", !.identities = {}]
              \/ r \notin gone /\ row'[r] = row[r]
  BY <1>9 DEF Spares
<1> HIDE DEF w
<1>3. report' = counts /\ Sources = Refs
  BY <1>1 DEF Import, Tables, Sources
<1>4. \A x \in Records(batch) :
         \E p \in DOMAIN batch : x = RecordOf(p) /\ SpeaksFor(p, x) /\ x.ref \in Refs
  BY RecordsSpeak DEF Records, Range, IsBatch, Import
<1>5. ASSUME NEW r \in R
      PROVE  /\ RecordOf(sent'[r]) \in Records(batch) \/ RecordOf(sent'[r]) = Nil
             /\ DOMAIN RecordOf(sent'[r]) = RecordFields /\ DOMAIN w(r) = RecordFields
             /\ row'[r] # NoRow
  <2>1. RecordOf(sent'[r]) \in Records(batch) \/ RecordOf(sent'[r]) = Nil
    BY <1>9, <1>10, <1>11 DEF Records, Range
  <2>2. IsPayload(sent'[r])
    BY <1>9, <1>10, <1>11 DEF IsBatch
  <2>3. DOMAIN RecordOf(sent'[r]) = RecordFields
    BY <2>2, RecordsSpeak DEF SpeaksFor
  <2>4. DOMAIN w(r) = RecordFields
    BY <2>3, ExistingLifecycle DEF w
  <2>5. DOMAIN row'[r] = RecordFields
    <3>1. row'[r] = RowOf(w(r))
      BY <1>10
    <3> QED
      BY <2>4, <3>1, RowFields
  <2> QED
    BY <2>1, <2>3, <2>4, <2>5 DEF NoRow, RecordFields
<1> HIDE DEF R
\* A source that goes is one that another one of its id replaces.
<1>6. ASSUME NEW r \in Refs, Stored(r), row'[r] = NoRow
      PROVE  row[r].system = "gmail" /\ \E x \in Records(batch) : x.system = "gmail"
  <2>1. r \notin R
    BY <1>5, <1>6
  <2>2. [row[r] EXCEPT !.life = "deleted", !.identities = {}] # NoRow
    <3>1. DOMAIN row[r] = RecordFields
      BY <1>1, <1>6 DEF RowsAreTheirs
    <3>2. DOMAIN [row[r] EXCEPT !.life = "deleted", !.identities = {}] = RecordFields
      BY <3>1
    <3>3. ASSUME NEW v, DOMAIN v = RecordFields PROVE v # NoRow
      BY <3>3 DEF NoRow, RecordFields
    <3> QED
      BY <3>2, <3>3
  <2>3. PICK x \in Records(batch) : x.system = row[r].system /\ x.id = row[r].id
    BY <1>9, <1>10, <1>11, <1>6, <2>1, <2>2 DEF Stored
  <2>4. PICK p \in DOMAIN batch : x = RecordOf(p) /\ SpeaksFor(p, x) /\ x.ref \in Refs
    BY <1>4
  <2>5. x.ref \in R
    BY DEF R, RefsOf
  <2>6. row[r].system = r[1] /\ row[r].id = IdOf(r)
    BY <1>1, <1>6 DEF RowsAreTheirs
  <2>7. x.system = x.ref[1] /\ x.id = IdOf(x.ref)
    BY <2>4 DEF SpeaksFor
  <2>8. r[1] = "gmail"
    BY <2>1, <2>3, <2>4, <2>5, <2>6, <2>7, RefsAreUnique
  <2> QED
    BY <2>3, <2>6, <2>8
<1>7. KeepsRefs
  BY <1>3, <1>6 DEF KeepsRefs
<1>8. CountsAreTrue
  <2> SUFFICES ASSUME counts # Nil, NEW r \in Refs
               PROVE  /\ row[r] = NoRow /\ row'[r] # NoRow <=> r \in counts.new
                      /\ Stored(r) /\ row'[r] # row[r] =>
                            \/ r \in counts.changed \union counts.deleted
                            \/ hold[r] = Missing /\ r \in counts.unchanged
    BY <1>3 DEF CountsAreTrue
  <2>1. IsOfFile(batch)
    OBVIOUS
  <2> DEFINE recs == Records(batch)
             known == {x \in recs : Stored(x.ref)}
             equal == {x.ref : x \in {y \in known : sum[y.ref] = Checksum(y)}}
             other == {x.ref : x \in {y \in known : sum[y.ref] # Checksum(y)}}
  <2>2. /\ counts.new = {x.ref : x \in recs \ known}
        /\ counts.unchanged = equal /\ counts.changed = other
        /\ gone \subseteq counts.deleted
    BY DEF ImportCounts
  <2>3. \A x \in recs : x.system \in {"linear", "slack", "twenty"}
    BY <1>4, <2>1, FileSystems DEF IsOfFile
  <2>4. CASE r \in R
    <3>1. PICK y \in recs : y.ref = r
      BY <2>4 DEF R, RefsOf
    <3>2. r \in counts.new <=> ~ Stored(r)
      BY <2>2, <3>1
    <3>3. Stored(r) => r \in equal \/ r \in other
      BY <3>1
    <3>4. ASSUME Stored(r), r \notin other, hold[r] # Missing
          PROVE  row'[r] = row[r]
      <4> DEFINE p == sent'[r]
                 x == RecordOf(p)
      <4>1. /\ x.ref = r /\ DOMAIN x = RecordFields /\ row'[r] = RowOf(w(r))
            /\ DOMAIN w(r) = RecordFields
        BY <1>9, <1>10, <1>11, <1>5, <2>4
      <4>2. y = x
        <5>1. PICK q \in DOMAIN batch : y = RecordOf(q) /\ batch[q] = y /\ y # Nil
          BY DEF Records, Range, IsBatch
        <5>2. Complete(q) /\ Complete(p) /\ p \in DOMAIN batch
          BY <1>9, <1>10, <1>11, <2>4 DEF Import
        <5>3. p = q
          BY <3>1, <4>1, <5>1, <5>2 DEF IsBatch
        <5> QED
          BY <5>1, <5>3
      <4> HIDE DEF p, x
      <4>3. sum[r] = [x EXCEPT !.attached = 0]
        <5>1. x.system # "pdf"
          BY <2>3, <4>2
        <5>2. sum[r] = Checksum(x)
          BY <3>1, <3>4, <4>2
        <5> QED
          BY <5>1, <5>2 DEF Checksum
      <4>4. row[r].system # "pdf"
        <5>1. row[r].system = r[1]
          BY <1>1, <3>4 DEF RowsAreTheirs
        <5>2. y.system = r[1]
          BY <1>4, <3>1 DEF SpeaksFor
        <5> QED
          BY <2>3, <5>1, <5>2
      <4>5. row[r] = RowOf(x)
        <5>1. row[r] = [sum[r] EXCEPT !.life = Effective(sum[r])]
          BY <1>1, <3>4, <4>4 DEF RowsAreSummed
        <5>2. RowOf(x) = [sum[r] EXCEPT !.life = Effective(sum[r])]
          BY <4>1, <4>3, SumsOfRows
        <5> QED
          BY <5>1, <5>2
      <4>6. row[r].life = Effective(x)
        BY <4>1, <4>5, RowFields
      <4>7. CASE hold[r] = Nil \/ Lifts(x)
        BY <4>1, <4>5, <4>7 DEF w, WithExistingLifecycle, p, x
      <4>8. CASE hold[r] # Nil /\ ~ Lifts(x)
        <5>1. w(r) = [x EXCEPT !.life = hold[r].state]
          BY <4>1, <4>8 DEF w, WithExistingLifecycle, p, x
        <5>2. hold[r].state # "active" /\ hold[r].state = Effective(x)
          BY <1>1, <3>4, <4>6, <4>8 DEF HoldsAreInRows
        <5>3. Effective(w(r)) = Effective(x)
          BY <4>1, <5>1, <5>2 DEF Effective, RecordFields
        <5>4. RowOf(w(r)) = RowOf(x)
          BY <4>1, <5>1, <5>3 DEF RowOf, RecordFields
        <5> QED
          BY <4>1, <4>5, <5>4
      <4> QED
        BY <4>7, <4>8
    <3> QED
      BY <1>5, <2>2, <2>4, <3>2, <3>3, <3>4 DEF Stored
  <2>5. CASE r \notin R
    <3>1. r \notin counts.new
      BY <2>2, <2>5 DEF R, RefsOf
    <3>2. Stored(r) => row'[r] # NoRow
      BY <1>6, <2>3
    <3>3. ~ Stored(r) => row'[r] = NoRow
      BY <1>9, <1>10, <1>11, <2>5 DEF Stored, MayBeMissing
    <3>4. Stored(r) /\ row'[r] # row[r] => r \in gone
      BY <1>9, <1>10, <1>11, <2>5, <3>2
    <3> QED
      BY <2>2, <3>1, <3>3, <3>4 DEF Stored
  <2> QED
    BY <2>4, <2>5
<1> QED
  BY <1>7, <1>8

\* No step replaces a source by another one, but a Gmail message by its other form, and a
\* file's import counts what it does to the rows: new, changed, deleted, or unchanged.
THEOREM RowsAlwaysAccountedFor == Spec => RowsAreAccountedFor
<1>1. ASSUME PrepInv, [Next]_vars PROVE [KeepsRefs /\ CountsAreTrue]_vars
  <2>1. CASE UNCHANGED vars
    BY <2>1
  <2>2. ASSUME UNCHANGED row, report' = Nil PROVE KeepsRefs /\ CountsAreTrue
    BY <2>2 DEF KeepsRefs, CountsAreTrue, Stored
  <2>3. ASSUME NEW batch, Reject(batch) PROVE KeepsRefs /\ CountsAreTrue
    BY <2>2, <2>3 DEF Reject
  <2>4. ASSUME RebuildLinks PROVE KeepsRefs /\ CountsAreTrue
    BY <2>2, <2>4 DEF RebuildLinks
  <2>5. ASSUME RebuildUnits PROVE KeepsRefs /\ CountsAreTrue
    BY <2>2, <2>5 DEF RebuildUnits
  <2>6. CASE Next
    BY <1>1, <2>3, <2>4, <2>5, <2>6, PrepSteps, ImportsAreAccountedFor
  <2> QED
    BY <1>1, <2>1, <2>6
<1> QED
  BY <1>1, PrepInvariant, PTL DEF Spec, RowsAreAccountedFor

-----------------------------------------------------------------------------
(* Links *)

\* A derived link is of records of which it holds.
LEMMA LinksHold ==
    ASSUME NEW recs, NEW l \in EntityLinks(recs)
    PROVE  \E x, y, c \in recs : \E type \in Types :
             /\ l = Link(x, y, type, IF type = "commenter" THEN c.ref ELSE Nil)
             /\ Related(x, y, c, type)
<1> DEFINE Holds(k) ==
             \E x, y, c \in recs : \E type \in Types :
               /\ k = Link(x, y, type, IF type = "commenter" THEN c.ref ELSE Nil)
               /\ Related(x, y, c, type)
<1>1. ASSUME NEW x \in recs, NEW y \in recs, NEW c \in recs, NEW type \in Types, Related(x, y, c, type)
      PROVE  Holds(Link(x, y, type, IF type = "commenter" THEN c.ref ELSE Nil))
  BY <1>1
<1> HIDE DEF Holds
<1>2. \/ l \in SameEmail(recs)
      \/ \E x \in recs : l \in IdentityLinks(recs, x) \union ParentLinks(recs, x)
                               \union MentionLinks(recs, x) \union CommenterLinks(recs, x)
  BY DEF EntityLinks, Deduped
<1>3. ASSUME l \in SameEmail(recs) PROVE Holds(l)
  <2>1. PICK x \in recs, y \in recs :
           /\ x.type = "person" /\ y.type = "person" /\ y.system # x.system
           /\ Emails(x) \intersect Emails(y) # {}
           /\ l = Link(x, y, "same_email_identity", Nil)
    BY <1>3 DEF SameEmail
  <2>2. Related(x, y, x, "same_email_identity")
    BY <2>1 DEF Related
  <2> QED
    BY <1>1, <2>1, <2>2 DEF Types
<1>4. ASSUME NEW x \in recs, l \in IdentityLinks(recs, x) PROVE Holds(l)
  <2>1. PICK rel \in IdentityRelationships(x) :
           \E y \in PersonsById(recs, rel[2]) : l = Link(x, y, rel[1], Nil)
    BY <1>4 DEF IdentityLinks
  <2>2. PICK y \in recs : y.id = rel[2] /\ IsEmployee(y) /\ l = Link(x, y, rel[1], Nil)
    BY <2>1 DEF PersonsById, Employees, IsEmployee
  <2>3. \/ rel[1] = "author" /\ rel[2] = x.author /\ x.author # <<>>
        \/ rel[1] = "assignee" /\ rel[2] = x.assignee
        \/ rel[1] = "author" /\ rel[2] = x.user /\ x.author = <<>>
    BY <2>1 DEF IdentityRelationships
  <2>4. Related(x, y, x, rel[1]) /\ rel[1] \in Types /\ rel[1] # "commenter"
    BY <2>2, <2>3 DEF Related, Types
  <2> QED
    BY <1>1, <2>2, <2>4
<1>5. ASSUME NEW x \in recs, l \in ParentLinks(recs, x) PROVE Holds(l)
  <2>1. PICK y \in recs : /\ x.type = "message" /\ y.ref = x.thread
                          /\ l = Link(x, y, "parent_work_item", Nil)
    BY <1>5 DEF ParentLinks
  <2>2. Related(x, y, x, "parent_work_item")
    BY <2>1 DEF Related
  <2> QED
    BY <1>1, <2>1, <2>2 DEF Types
<1>6. ASSUME NEW x \in recs, l \in MentionLinks(recs, x) PROVE Holds(l)
  <2>1. PICK y \in recs : /\ IsEmployee(y) /\ x.type # "person" /\ y.system = x.system
                          /\ y.name \in FullNames \intersect x.mentions
                          /\ l = Link(x, y, "mentioned_person", Nil)
    BY <1>6 DEF MentionLinks, Employees, IsEmployee
  <2>2. Related(x, y, x, "mentioned_person")
    BY <2>1 DEF Related
  <2> QED
    BY <1>1, <2>1, <2>2 DEF Types
<1>7. ASSUME NEW x \in recs, l \in CommenterLinks(recs, x) PROVE Holds(l)
  <2>1. PICK c \in CommentsOn(recs, x) :
           \E y \in PersonsById(recs, c.author) : l = Link(x, y, "commenter", c.ref)
    BY <1>7 DEF CommenterLinks
  <2>2. PICK y \in recs : y.id = c.author /\ IsEmployee(y) /\ l = Link(x, y, "commenter", c.ref)
    BY <2>1 DEF PersonsById, Employees, IsEmployee
  <2>3. c \in recs /\ Related(x, y, c, "commenter")
    BY <2>1, <2>2 DEF CommentsOn, Related
  <2>4. "commenter" \in Types
    BY DEF Types
  <2> QED
    BY <1>1, <2>2, <2>3, <2>4
<1> QED
  BY <1>2, <1>3, <1>4, <1>5, <1>6, <1>7 DEF Holds

\* One link of each key is kept.
LEMMA DedupedKeys ==
    ASSUME NEW S, NEW l \in S
    PROVE  \E k \in Deduped(S) : k.key = l.key
<1> DEFINE first(a) == CHOOSE v \in S : v.key = a
           k == first(l.key)
<1>1. k \in S /\ k.key = l.key
  OBVIOUS
<1>2. first(k.key) = first(l.key)
  <2> HIDE DEF first
  <2> QED
    BY <1>1
<1>3. k = first(k.key)
  BY <1>2
<1> HIDE DEF k
<1> QED
  BY <1>1, <1>3 DEF Deduped

\* What holds of records is derived from them.
LEMMA LinksAreFound ==
    ASSUME NEW recs, NEW x \in recs, NEW y \in recs, NEW c \in recs, NEW type \in Types,
           x # y, y.id # <<>>, y.ref # <<>>, Related(x, y, c, type)
    PROVE  \E l \in EntityLinks(recs) : l.key = Key(x, y, type)
<1> DEFINE S == SameEmail(recs)
            \union UNION {IdentityLinks(recs, z) \union ParentLinks(recs, z)
                          \union MentionLinks(recs, z) \union CommenterLinks(recs, z) : z \in recs}
<1>1. ASSUME NEW e, Link(x, y, type, e) \in S
      PROVE  \E l \in EntityLinks(recs) : l.key = Key(x, y, type)
  <2>1. Link(x, y, type, e).key = Key(x, y, type)
    BY DEF Link
  <2>2. \E k \in Deduped(S) : k.key = Link(x, y, type, e).key
    BY <1>1, DedupedKeys
  <2> QED
    BY <2>1, <2>2 DEF EntityLinks
<1>2. \A l : l \in IdentityLinks(recs, x) \union ParentLinks(recs, x)
                   \union MentionLinks(recs, x) \union CommenterLinks(recs, x) => l \in S
  OBVIOUS
<1>3. IsEmployee(y) => y \in PersonsById(recs, y.id)
  BY DEF PersonsById, Employees, IsEmployee
<1> HIDE DEF S
<1>4. CASE type = "author"
  <2>1. PICK rel \in IdentityRelationships(x) : rel[1] = "author" /\ rel[2] = y.id
    <3>1. CASE x.author # <<>>
      <4>1. <<"author", x.author>> \in IdentityRelationships(x)
        BY <3>1 DEF IdentityRelationships
      <4> QED
        BY <1>4, <3>1, <4>1 DEF Related
    <3>2. CASE x.author = <<>>
      <4>1. y.id = x.user
        BY <1>4, <3>2 DEF Related
      <4>2. <<"author", x.user>> \in IdentityRelationships(x)
        BY <3>2, <4>1 DEF IdentityRelationships
      <4> QED
        BY <4>1, <4>2
    <3> QED
      BY <3>1, <3>2
  <2>2. Link(x, y, "author", Nil) \in IdentityLinks(recs, x)
    BY <1>3, <1>4, <2>1 DEF IdentityLinks, Related
  <2> QED
    BY <1>1, <1>2, <1>4, <2>2
<1>5. CASE type = "assignee"
  <2>1. <<"assignee", y.id>> \in IdentityRelationships(x)
    BY <1>5 DEF IdentityRelationships, Related
  <2>2. PICK rel \in IdentityRelationships(x) : rel[1] = "assignee" /\ rel[2] = y.id
    BY <2>1
  <2>3. Link(x, y, "assignee", Nil) \in IdentityLinks(recs, x)
    BY <1>3, <1>5, <2>2 DEF IdentityLinks, Related
  <2> QED
    BY <1>1, <1>2, <1>5, <2>3
<1>6. CASE type = "parent_work_item"
  <2>1. Link(x, y, "parent_work_item", Nil) \in ParentLinks(recs, x)
    BY <1>6 DEF ParentLinks, Related
  <2> QED
    BY <1>1, <1>2, <1>6, <2>1
<1>7. CASE type = "mentioned_person"
  <2>1. Link(x, y, "mentioned_person", Nil) \in MentionLinks(recs, x)
    BY <1>7 DEF MentionLinks, Related, Employees, IsEmployee
  <2> QED
    BY <1>1, <1>2, <1>7, <2>1
<1>8. CASE type = "same_email_identity"
  <2>1. Link(x, y, "same_email_identity", Nil) \in SameEmail(recs)
    BY <1>8 DEF SameEmail, Related
  <2> QED
    BY <1>1, <1>8, <2>1 DEF S
<1>9. CASE type = "commenter"
  <2>1. c \in CommentsOn(recs, x) /\ c.author = y.id /\ IsEmployee(y)
    BY <1>9 DEF CommentsOn, Related
  <2>2. Link(x, y, "commenter", c.ref) \in CommenterLinks(recs, x)
    BY <1>3, <2>1 DEF CommenterLinks
  <2> QED
    BY <1>1, <1>2, <1>9, <2>2
<1> QED
  BY <1>4, <1>5, <1>6, <1>7, <1>8, <1>9 DEF Types

\* Rows say of each other what their records do.
LEMMA RelatedRows ==
    ASSUME NEW x, NEW y, NEW c, NEW type,
           DOMAIN x = RecordFields, DOMAIN y = RecordFields, DOMAIN c = RecordFields
    PROVE  Related(RowOf(x), RowOf(y), RowOf(c), type) <=> Related(x, y, c, type)
<1> DEFINE Same(u, v) ==
      /\ v.ref = u.ref /\ v.system = u.system /\ v.id = u.id /\ v.type = u.type /\ v.author = u.author
      /\ v.thread = u.thread /\ v.assignee = u.assignee /\ v.user = u.user /\ v.name = u.name
      /\ v.mentions = u.mentions /\ v.identities = u.identities
<1>1. ASSUME NEW u, DOMAIN u = RecordFields PROVE Same(u, RowOf(u))
  BY <1>1, RowFields DEF RecordFields
<1>2. ASSUME NEW u, NEW v, Same(u, v) PROVE Emails(u) = Emails(v) /\ (IsEmployee(u) <=> IsEmployee(v))
  BY <1>2 DEF Emails, IsEmployee
<1>3. ASSUME NEW x1, NEW y1, NEW c1, Same(x, x1), Same(y, y1), Same(c, c1)
      PROVE  Related(x1, y1, c1, type) <=> Related(x, y, c, type)
  <2>1. Emails(x1) = Emails(x) /\ Emails(y1) = Emails(y) /\ (IsEmployee(y1) <=> IsEmployee(y))
    BY <1>2, <1>3
  <2> QED
    BY <1>3, <2>1 DEF Related
<1> QED
  BY <1>1, <1>3

\* Steps are counted, and every stored link has its key and the step that derived it last.
StepsAreCounted ==
    /\ steps \in Nat
    /\ \A r \in Refs : since[r] \in Nat /\ since[r] <= steps
    /\ \A k \in DOMAIN linked : linked[k] \in Nat /\ linked[k] <= steps

LinksAreKept ==
    \A l \in links :
        /\ l.key = <<l.source, l.object, l.type>> /\ l.key \in DOMAIN linked
        /\ From(l) \subseteq Refs

LinkInv == PrepInv /\ StepsAreCounted /\ LinksAreKept /\ LinksFollowSources

\* What an import brings, as its links are derived from it.
Brought(batch) == {WithExistingLifecycle(x) : x \in Records(batch)}

LEMMA ImportedLinks ==
    ASSUME NEW batch, NEW gone, NEW counts, PrepInv, IsBatch(batch), MayBeMissing(batch, gone),
           Import(batch, gone, counts)
    PROVE  /\ \A x \in Brought(batch) :
                 /\ x.ref \in RefsOf(batch) /\ x.ref \in Refs /\ x.ref # <<>>
                 /\ DOMAIN x = RecordFields /\ x.id = IdOf(x.ref) /\ row'[x.ref] = RowOf(x)
           /\ \A r \in RefsOf(batch) : \E x \in Brought(batch) : x.ref = r
           /\ steps' = steps + 1
           /\ \A r \in Refs : since'[r] = IF r \in RefsOf(batch) THEN steps + 1 ELSE since[r]
           /\ linked' = [k \in DOMAIN linked \union {l.key : l \in EntityLinks(Brought(batch))} |->
                           IF \E l \in EntityLinks(Brought(batch)) : l.key = k THEN steps + 1 ELSE linked[k]]
           /\ \E refs \in SUBSET RefsOf(batch) :
                 links' = StoreLinks({l \in links : ~ Joins(l, refs \union gone)},
                                     EntityLinks(Brought(batch)))
<1>1. Tables /\ RowsAreTheirs /\ HoldsAreInRows /\ Sources = Refs
  BY DEF PrepInv, Tables, Sources
<1>2. /\ RefsOf(batch) \subseteq Refs
      /\ \A r \in RefsOf(batch) : Brings(batch, r)
  BY <1>1, ImportedRows
<1>3. \A p \in DOMAIN batch : Complete(p)
  BY DEF Import
<1>4. ASSUME NEW y \in Records(batch)
      PROVE  /\ y = RecordOf(sent'[y.ref])
             /\ SpeaksFor(sent'[y.ref], y)
             /\ WithExistingLifecycle(y).ref = y.ref
             /\ DOMAIN WithExistingLifecycle(y) = RecordFields
             /\ WithExistingLifecycle(y).id = y.id
             /\ row'[y.ref] = RowOf(WithExistingLifecycle(y))
  <2>1. PICK q \in DOMAIN batch : batch[q] = y /\ y # Nil
    BY DEF Records, Range
  <2>2. y = RecordOf(q) /\ Complete(q) /\ IsPayload(q)
    BY <2>1 DEF IsBatch
  <2>3. y.ref \in RefsOf(batch)
    BY DEF RefsOf
  <2>4. Brings(batch, y.ref)
    BY <1>2, <2>3
  <2>5. /\ sent'[y.ref] \in DOMAIN batch /\ RecordOf(sent'[y.ref]).ref = y.ref
        /\ row'[y.ref] = RowOf(WithExistingLifecycle(RecordOf(sent'[y.ref])))
    BY <2>4 DEF Brings
  <2>6. sent'[y.ref] = q
    BY <1>3, <2>2, <2>5 DEF IsBatch
  <2>7. SpeaksFor(q, y)
    BY <2>2, RecordsSpeak
  <2>8. DOMAIN y = RecordFields
    BY <2>7 DEF SpeaksFor
  <2>9. /\ DOMAIN WithExistingLifecycle(y) = RecordFields
        /\ \A f \in RecordFields \ {"life"} : WithExistingLifecycle(y)[f] = y[f]
    BY <2>8, ExistingLifecycle
  <2> QED
    BY <2>2, <2>5, <2>6, <2>7, <2>9 DEF RecordFields
<1>5. ASSUME NEW x \in Brought(batch)
      PROVE  /\ x.ref \in RefsOf(batch) /\ x.ref \in Refs /\ x.ref # <<>>
             /\ DOMAIN x = RecordFields /\ x.id = IdOf(x.ref) /\ row'[x.ref] = RowOf(x)
  <2>1. PICK y \in Records(batch) : x = WithExistingLifecycle(y)
    BY DEF Brought
  <2>2. x.ref = y.ref /\ DOMAIN x = RecordFields /\ x.id = y.id /\ row'[y.ref] = RowOf(x)
    BY <1>4, <2>1
  <2>3. y.ref # <<>> /\ y.id = IdOf(y.ref)
    BY <1>4 DEF SpeaksFor
  <2>4. y.ref \in RefsOf(batch)
    BY DEF RefsOf
  <2> QED
    BY <1>2, <2>2, <2>3, <2>4
<1>6. \A r \in RefsOf(batch) : \E x \in Brought(batch) : x.ref = r
  BY <1>4 DEF RefsOf, Brought
<1>7. {x.ref : x \in Brought(batch)} = RefsOf(batch)
  BY <1>5, <1>6
<1> DEFINE recs == {WithExistingLifecycle(x) : x \in Records(batch)}
           refs == {x.ref : x \in recs}
           withdrawn == {x.ref : x \in Withdraws(recs)}
<1>8. /\ steps' = steps + 1
      /\ since' = [r \in Sources |-> IF r \in refs THEN steps + 1 ELSE since[r]]
      /\ linked' = [k \in DOMAIN linked \union {l.key : l \in EntityLinks(recs)} |->
                      IF \E l \in EntityLinks(recs) : l.key = k THEN steps + 1 ELSE linked[k]]
      /\ links' = StoreLinks({l \in links : ~ Joins(l, withdrawn \union gone)}, EntityLinks(recs))
  BY DEF Import
<1>9. recs = Brought(batch)
  BY DEF Brought
<1>10. withdrawn \subseteq refs
  <2> HIDE DEF recs
  <2> QED
    BY DEF Withdraws
<1>11. refs = RefsOf(batch)
  BY <1>7, <1>9
<1> HIDE DEF recs, refs, withdrawn
<1>12. \A r \in Refs : since'[r] = IF r \in RefsOf(batch) THEN steps + 1 ELSE since[r]
  BY <1>1, <1>8, <1>11
<1>13. \E s \in SUBSET RefsOf(batch) :
          links' = StoreLinks({l \in links : ~ Joins(l, s \union gone)}, EntityLinks(Brought(batch)))
  BY <1>8, <1>9, <1>10, <1>11
<1> QED
  BY <1>5, <1>6, <1>8, <1>9, <1>12, <1>13

\* A derived link, by its fields.
LEMMA LinkFields ==
    ASSUME NEW recs, NEW l \in EntityLinks(recs)
    PROVE  \E x, y, c \in recs : \E type \in Types :
             /\ l.source = x.ref /\ l.object = y.ref /\ l.type = type
             /\ l.key = <<x.ref, y.ref, type>>
             /\ CommentOf(l) = (IF type = "commenter" THEN c.ref ELSE x.ref)
             /\ Related(x, y, c, type)
<1>1. PICK x \in recs, y \in recs, c \in recs, type \in Types :
         /\ l = Link(x, y, type, IF type = "commenter" THEN c.ref ELSE Nil)
         /\ Related(x, y, c, type)
  BY LinksHold
<1>2. /\ l.source = x.ref /\ l.object = y.ref /\ l.type = type /\ l.key = <<x.ref, y.ref, type>>
      /\ l.evidence = (IF type = "commenter" THEN c.ref ELSE Nil)
  BY <1>1 DEF Link, Key
<1> QED
  BY <1>1, <1>2 DEF CommentOf

\* Only a commenter depends on a comment.
LEMMA OnlyCommentersNeedComments ==
    ASSUME NEW x, NEW y, NEW c, NEW d, NEW type, type # "commenter"
    PROVE  Related(x, y, c, type) <=> Related(x, y, d, type)
BY DEF Related

\* Links that are derived from records hold of their rows, whatever they are derived with.
LEMMA DerivedLinks ==
    ASSUME NEW recs, NEW table, NEW l \in EntityLinks(recs),
           \A x \in recs : x.ref \in Refs,
           \A x, y, c \in recs : \A type \in Types :
              Related(x, y, c, type) => Related(table[x.ref], table[y.ref], table[c.ref], type)
    PROVE  /\ l.key = <<l.source, l.object, l.type>>
           /\ l.source \in {x.ref : x \in recs} /\ l.object \in {x.ref : x \in recs}
           /\ CommentOf(l) \in {x.ref : x \in recs}
           /\ Related(table[l.source], table[l.object], table[CommentOf(l)], l.type)
<1>1. PICK x \in recs, y \in recs, c \in recs, type \in Types :
         /\ l.source = x.ref /\ l.object = y.ref /\ l.type = type /\ l.key = <<x.ref, y.ref, type>>
         /\ CommentOf(l) = (IF type = "commenter" THEN c.ref ELSE x.ref)
         /\ Related(x, y, c, type)
  BY LinkFields
<1>2. Related(table[x.ref], table[y.ref], table[c.ref], type)
  BY <1>1
<1>3. CASE type = "commenter"
  BY <1>1, <1>2, <1>3
<1>4. CASE type # "commenter"
  <2>1. Related(table[x.ref], table[y.ref], table[x.ref], type)
    BY <1>2, <1>4, OnlyCommentersNeedComments
  <2> QED
    BY <1>1, <1>4, <2>1
<1> QED
  BY <1>3, <1>4

\* What an import stores together is linked together, and what it replaces is not linked
\* by what was derived from it.
LEMMA ImportKeepsLinkInv ==
    ASSUME NEW batch, NEW gone, NEW counts, LinkInv, IsBatch(batch), MayBeMissing(batch, gone),
           Import(batch, gone, counts)
    PROVE  LinkInv'
<1> DEFINE recs == Brought(batch)
           R == RefsOf(batch)
           fresh == EntityLinks(Brought(batch))
<1>1. /\ PrepInv /\ Tables /\ RowsAreTheirs /\ HoldsAreInRows /\ StepsAreCounted /\ LinksAreKept
      /\ LinksAreDerivable /\ LinksMissOnlyAcrossImports /\ Sources = Refs
  BY DEF LinkInv, LinksFollowSources, PrepInv, Tables, Sources
<1>2. PrepInv'
  BY <1>1, ImportKeepsPrepInv
<1>3. Sources' = Refs
  BY <1>2 DEF PrepInv, Tables, Sources
<1>4. /\ R \subseteq Refs /\ gone \subseteq Refs /\ gone \intersect R = {}
      /\ \A r \in Refs \ R : Spares(batch, gone, r)
  BY <1>1, ImportedRows
<1>5. /\ \A x \in recs : /\ x.ref \in R /\ x.ref \in Refs /\ x.ref # <<>>
                         /\ DOMAIN x = RecordFields /\ x.id = IdOf(x.ref) /\ row'[x.ref] = RowOf(x)
      /\ \A r \in R : \E x \in recs : x.ref = r
      /\ steps' = steps + 1
      /\ \A r \in Refs : since'[r] = IF r \in R THEN steps + 1 ELSE since[r]
      /\ linked' = [k \in DOMAIN linked \union {l.key : l \in fresh} |->
                      IF \E l \in fresh : l.key = k THEN steps + 1 ELSE linked[k]]
      /\ \E refs \in SUBSET R : links' = StoreLinks({l \in links : ~ Joins(l, refs \union gone)}, fresh)
  BY <1>1, ImportedLinks
<1>6. PICK refs \in SUBSET R : links' = StoreLinks({l \in links : ~ Joins(l, refs \union gone)}, fresh)
  BY <1>5
<1>7. /\ fresh \subseteq links'
      /\ \A l \in links' \ fresh : l \in links /\ ~ Joins(l, refs \union gone)
                                   /\ \A k \in fresh : k.key # l.key
      /\ \A l \in links : ~ Joins(l, refs \union gone) /\ (\A k \in fresh : k.key # l.key) => l \in links'
  <2> HIDE DEF fresh
  <2> QED
    BY <1>6 DEF StoreLinks
<1> HIDE DEF recs, R, fresh
\* The new links.
<1>8. ASSUME NEW l \in fresh
      PROVE  /\ l.key = <<l.source, l.object, l.type>>
             /\ From(l) \subseteq R
             /\ Related(row'[l.source], row'[l.object], row'[CommentOf(l)], l.type)
             /\ l.key \in DOMAIN linked' /\ linked'[l.key] = steps + 1
  <2>1. l \in EntityLinks(recs)
    BY DEF fresh, recs
  <2>2. ASSUME NEW x \in recs, NEW y \in recs, NEW c \in recs, NEW type \in Types, Related(x, y, c, type)
        PROVE  Related(row'[x.ref], row'[y.ref], row'[c.ref], type)
    BY <1>5, <2>2, RelatedRows
  <2>3. /\ l.key = <<l.source, l.object, l.type>>
        /\ l.source \in {x.ref : x \in recs} /\ l.object \in {x.ref : x \in recs}
        /\ CommentOf(l) \in {x.ref : x \in recs}
        /\ Related(row'[l.source], row'[l.object], row'[CommentOf(l)], l.type)
    <3>1. \A x \in recs : x.ref \in Refs
      BY <1>5
    <3> QED
      BY <2>1, <2>2, <3>1, DerivedLinks
  <2>4. From(l) \subseteq R
    BY <1>5, <2>3 DEF From
  <2>5. l.key \in DOMAIN linked' /\ linked'[l.key] = steps + 1
    BY <1>5
  <2> QED
    BY <2>3, <2>4, <2>5
\* The links that stay.
<1>9. ASSUME NEW l \in links' \ fresh
      PROVE  /\ l \in links /\ l.key = <<l.source, l.object, l.type>> /\ From(l) \subseteq Refs
             /\ l.key \in DOMAIN linked /\ l.key \in DOMAIN linked' /\ linked'[l.key] = linked[l.key]
             /\ l.source \notin gone /\ l.object \notin gone
  <2>1. l \in links /\ ~ Joins(l, refs \union gone) /\ \A k \in fresh : k.key # l.key
    BY <1>7
  <2>2. l.key = <<l.source, l.object, l.type>> /\ From(l) \subseteq Refs /\ l.key \in DOMAIN linked
    BY <1>1, <2>1 DEF LinksAreKept
  <2>3. l.key \in DOMAIN linked' /\ linked'[l.key] = linked[l.key]
    BY <1>5, <2>1, <2>2
  <2> QED
    BY <2>1, <2>2, <2>3 DEF Joins
<1>10. StepsAreCounted'
  <2>1. steps' \in Nat
    BY <1>1, <1>5 DEF StepsAreCounted
  <2>2. ASSUME NEW r \in Refs PROVE since'[r] \in Nat /\ since'[r] <= steps'
    BY <1>1, <1>5 DEF StepsAreCounted
  <2>3. ASSUME NEW k \in DOMAIN linked' PROVE linked'[k] \in Nat /\ linked'[k] <= steps'
    <3>1. CASE \E l \in fresh : l.key = k
      <4>1. linked'[k] = steps + 1
        BY <1>5, <3>1
      <4> QED
        BY <1>1, <1>5, <4>1 DEF StepsAreCounted
    <3>2. CASE ~ \E l \in fresh : l.key = k
      <4>1. k \in DOMAIN linked /\ linked'[k] = linked[k]
        BY <1>5, <3>2
      <4> QED
        BY <1>1, <1>5, <4>1 DEF StepsAreCounted
    <3> QED
      BY <3>1, <3>2
  <2> QED
    BY <2>1, <2>2, <2>3 DEF StepsAreCounted
<1>11. LinksAreKept'
  <2> SUFFICES ASSUME NEW l \in links'
               PROVE  /\ l.key = <<l.source, l.object, l.type>> /\ l.key \in DOMAIN linked'
                      /\ From(l) \subseteq Refs
    BY DEF LinksAreKept
  <2>1. CASE l \in fresh
    BY <1>4, <1>8, <2>1
  <2>2. CASE l \notin fresh
    BY <1>9, <2>2
  <2> QED
    BY <2>1, <2>2
<1>12. LinksAreDerivable'
  <2> SUFFICES ASSUME NEW l \in links',
                      \A r \in From(l) : row'[r] # NoRow /\ since'[r] <= linked'[l.key]
               PROVE  Related(row'[l.source], row'[l.object], row'[CommentOf(l)], l.type)
    BY DEF LinksAreDerivable, Stored
  <2>1. CASE l \in fresh
    BY <1>8, <2>1
  <2>2. CASE l \notin fresh
    <3>1. /\ l \in links /\ From(l) \subseteq Refs /\ l.key \in DOMAIN linked
          /\ linked'[l.key] = linked[l.key] /\ l.source \notin gone /\ l.object \notin gone
      BY <1>9, <2>2
    <3>2. ASSUME NEW r \in From(l)
          PROVE  /\ r \notin R /\ Stored(r) /\ since[r] <= linked[l.key]
                 /\ \/ r \in gone /\ row'[r] = [row[r] EXCEPT !.life = "deleted", !.identities = {}]
                    \/ r \notin gone /\ row'[r] = row[r]
      <4>1. r \in Refs /\ row'[r] # NoRow /\ since'[r] <= linked[l.key]
        BY <3>1
      <4>2. linked[l.key] \in Nat /\ linked[l.key] <= steps /\ steps \in Nat
        BY <1>1, <3>1 DEF StepsAreCounted
      <4>3. r \notin R
        BY <1>5, <4>1, <4>2
      <4>4. since[r] <= linked[l.key]
        BY <1>5, <4>1, <4>3
      <4>5. Spares(batch, gone, r)
        BY <1>4, <4>1, <4>3
      <4>6. r \in gone => Stored(r)
        BY DEF MayBeMissing
      <4> QED
        BY <4>1, <4>3, <4>4, <4>5, <4>6 DEF Spares, Stored
    <3>3. Related(row[l.source], row[l.object], row[CommentOf(l)], l.type)
      BY <1>1, <3>1, <3>2 DEF LinksAreDerivable
    <3>4. row'[l.source] = row[l.source] /\ row'[l.object] = row[l.object]
      BY <3>1, <3>2 DEF From
    <3>5. CASE CommentOf(l) \notin gone
      BY <3>2, <3>3, <3>4, <3>5 DEF From
    <3>6. CASE CommentOf(l) \in gone
      <4> DEFINE c == row[CommentOf(l)]
                 d == row'[CommentOf(l)]
      <4>1. /\ d = [c EXCEPT !.life = "deleted", !.identities = {}]
            /\ Stored(CommentOf(l)) /\ CommentOf(l) \in Refs
        BY <3>1, <3>2, <3>6 DEF From
      <4>2. DOMAIN c = RecordFields
        BY <1>1, <4>1 DEF RowsAreTheirs
      <4> HIDE DEF c, d
      <4>3. d.type = c.type /\ d.thread = c.thread /\ d.author = c.author
        BY <4>1, <4>2 DEF RecordFields
      <4>4. Related(row[l.source], row[l.object], c, l.type)
            => Related(row[l.source], row[l.object], d, l.type)
        BY <4>3 DEF Related
      <4> QED
        BY <3>3, <3>4, <4>4 DEF c, d
    <3> QED
      BY <3>5, <3>6
  <2> QED
    BY <2>1, <2>2
<1>13. LinksMissOnlyAcrossImports'
  <2> SUFFICES ASSUME NEW n \in 1..steps', NEW r \in StoredBy(n)', NEW s \in StoredBy(n)',
                      NEW c \in StoredBy(n)', NEW type \in Types,
                      r # s, Related(row'[r], row'[s], row'[c], type)
               PROVE  \E l \in links' : l.source = r /\ l.object = s /\ l.type = type
    BY DEF LinksMissOnlyAcrossImports
  <2>1. /\ r \in Refs /\ row'[r] # NoRow /\ since'[r] = n /\ hold'[r] # Missing
        /\ s \in Refs /\ row'[s] # NoRow /\ since'[s] = n /\ hold'[s] # Missing
        /\ c \in Refs /\ row'[c] # NoRow /\ since'[c] = n /\ hold'[c] # Missing
    BY <1>3 DEF StoredBy, Stored
  <2>2. CASE n = steps + 1
    <3>1. ASSUME NEW t \in Refs, since'[t] = n PROVE t \in R
      <4>1. since[t] <= steps /\ since[t] \in Nat /\ steps \in Nat
        BY <1>1 DEF StepsAreCounted
      <4> QED
        BY <1>5, <2>2, <3>1, <4>1
    <3>2. r \in R /\ s \in R /\ c \in R
      BY <2>1, <3>1
    <3>3. PICK x \in recs, y \in recs, z \in recs : x.ref = r /\ y.ref = s /\ z.ref = c
      BY <1>5, <3>2
    <3>4. Related(RowOf(x), RowOf(y), RowOf(z), type)
      BY <1>5, <3>3
    <3>5. Related(x, y, z, type)
      BY <1>5, <3>4, RelatedRows
    <3>6. x # y /\ y.ref # <<>> /\ y.id = IdOf(y.ref)
      BY <1>5, <3>3
    <3>7. y.id # <<>>
      BY <3>6 DEF IdOf
    <3>8. PICK l \in EntityLinks(recs) : l.key = Key(x, y, type)
      BY <3>5, <3>6, <3>7, LinksAreFound
    <3>9. l \in fresh
      BY DEF fresh, recs
    <3>10. <<l.source, l.object, l.type>> = <<r, s, type>>
      BY <1>8, <3>3, <3>8, <3>9 DEF Key
    <3> QED
      BY <1>7, <3>9, <3>10
  <2>3. CASE n # steps + 1
    <3>1. ASSUME NEW t \in Refs, row'[t] # NoRow, since'[t] = n, hold'[t] # Missing
          PROVE  t \notin R /\ t \notin gone /\ row'[t] = row[t] /\ t \in StoredBy(n)
      <4>1. t \notin R
        BY <1>5, <2>3, <3>1
      <4>2. Spares(batch, gone, t) /\ since[t] = n
        BY <1>4, <1>5, <3>1, <4>1
      <4> QED
        BY <1>1, <3>1, <4>1, <4>2 DEF Spares, StoredBy, Stored
    <3>2. /\ r \in StoredBy(n) /\ s \in StoredBy(n) /\ c \in StoredBy(n)
          /\ row'[r] = row[r] /\ row'[s] = row[s] /\ row'[c] = row[c]
          /\ r \notin R \union gone /\ s \notin R \union gone
      BY <2>1, <3>1
    <3>3. n \in 1..steps
      BY <1>1, <1>5, <2>3 DEF StepsAreCounted
    <3>4. PICK l \in links : l.source = r /\ l.object = s /\ l.type = type
      BY <1>1, <3>2, <3>3 DEF LinksMissOnlyAcrossImports
    <3>5. ~ Joins(l, refs \union gone)
      BY <3>2, <3>4 DEF Joins
    <3>6. ASSUME NEW k \in fresh PROVE k.key # l.key
      <4>1. k.source \in R /\ k.key = <<k.source, k.object, k.type>>
        BY <1>8 DEF From
      <4>2. l.key = <<r, s, type>>
        BY <1>1, <3>4 DEF LinksAreKept
      <4> QED
        BY <3>2, <4>1, <4>2
    <3>7. l \in links'
      BY <1>7, <3>5, <3>6
    <3> QED
      BY <3>4, <3>7
  <2> QED
    BY <2>2, <2>3
<1> QED
  BY <1>2, <1>10, <1>11, <1>12, <1>13 DEF LinkInv, LinksFollowSources

LEMMA RebuildLinksKeepsLinkInv == ASSUME LinkInv, RebuildLinks PROVE LinkInv'
<1> DEFINE recs == {row[r] : r \in {s \in Sources : row[s] # NoRow}}
           fresh == EntityLinks(recs)
<1>1. /\ PrepInv /\ Tables /\ RowsAreTheirs /\ StepsAreCounted /\ Sources = Refs
  BY DEF LinkInv, PrepInv, Tables, Sources
<1>2. PrepInv'
  BY <1>1, RebuildLinksKeepsPrepInv
<1>3. /\ links' = fresh /\ linked' = [k \in {l.key : l \in fresh} |-> steps + 1]
      /\ steps' = steps + 1 /\ UNCHANGED <<row, hold, since>>
  BY DEF RebuildLinks
<1>4. Sources' = Refs
  BY <1>2 DEF PrepInv, Tables, Sources
<1>5. \A r \in Refs : Stored(r) => row[r] \in recs /\ row[r].ref = r /\ row[r].id = IdOf(r)
  BY <1>1 DEF RowsAreTheirs, Stored
<1>6. \A x \in recs : x.ref \in Refs /\ Stored(x.ref) /\ x = row[x.ref]
  BY <1>1 DEF RowsAreTheirs, Stored
<1> HIDE DEF recs
<1>7. ASSUME NEW l \in fresh
      PROVE  /\ l.key = <<l.source, l.object, l.type>> /\ From(l) \subseteq Refs
             /\ Related(row[l.source], row[l.object], row[CommentOf(l)], l.type)
             /\ l.key \in DOMAIN linked' /\ linked'[l.key] = steps + 1
  <2>1. \A x, y, c \in recs : \A type \in Types :
           Related(x, y, c, type) => Related(row[x.ref], row[y.ref], row[c.ref], type)
    BY <1>6
  <2>2. \A x \in recs : x.ref \in Refs
    BY <1>6
  <2>3. /\ l.key = <<l.source, l.object, l.type>>
        /\ l.source \in {x.ref : x \in recs} /\ l.object \in {x.ref : x \in recs}
        /\ CommentOf(l) \in {x.ref : x \in recs}
        /\ Related(row[l.source], row[l.object], row[CommentOf(l)], l.type)
    BY <2>1, <2>2, DerivedLinks
  <2>4. From(l) \subseteq Refs
    BY <2>2, <2>3 DEF From
  <2> HIDE DEF fresh
  <2>5. l.key \in DOMAIN linked' /\ linked'[l.key] = steps + 1
    BY <1>3
  <2> QED
    BY <2>3, <2>4, <2>5
<1> HIDE DEF fresh
<1>8. StepsAreCounted'
  <2>1. steps \in Nat /\ \A r \in Refs : since[r] \in Nat /\ since[r] <= steps
    BY <1>1 DEF StepsAreCounted
  <2>2. \A r \in Refs : since'[r] \in Nat /\ since'[r] <= steps'
    BY <1>3, <2>1
  <2>3. \A k \in DOMAIN linked' : linked'[k] \in Nat /\ linked'[k] <= steps'
    BY <1>3, <2>1
  <2> QED
    BY <1>3, <2>1, <2>2, <2>3 DEF StepsAreCounted
<1>9. LinksAreKept' /\ LinksAreDerivable'
  BY <1>3, <1>7 DEF LinksAreKept, LinksAreDerivable
<1>10. LinksMissOnlyAcrossImports'
  <2> SUFFICES ASSUME NEW r \in Refs, NEW s \in Refs, NEW c \in Refs, NEW type \in Types,
                      Stored(r), Stored(s), Stored(c), r # s, Related(row[r], row[s], row[c], type)
               PROVE  \E l \in fresh : l.source = r /\ l.object = s /\ l.type = type
    BY <1>3, <1>4 DEF LinksMissOnlyAcrossImports, StoredBy, Stored
  <2>1. /\ row[r] \in recs /\ row[s] \in recs /\ row[c] \in recs
        /\ row[r].ref = r /\ row[s].ref = s /\ row[s].id = IdOf(s) /\ row[r] # row[s]
    BY <1>5
  <2>2. row[s].id # <<>>
    BY <2>1 DEF IdOf
  <2>3. row[s].ref # <<>>
    <3>1. PICK p \in {x \in Payloads : Complete(x)} : s = RecordOf(p).ref
      BY DEF Refs
    <3> QED
      BY <2>1, <3>1, PreparationAssumption, RecordsSpeak DEF SpeaksFor
  <2>4. PICK l \in fresh : l.key = Key(row[r], row[s], type)
    BY <2>1, <2>2, <2>3, LinksAreFound DEF fresh
  <2>5. <<l.source, l.object, l.type>> = <<r, s, type>>
    BY <1>7, <2>1, <2>4 DEF Key
  <2> QED
    BY <2>5
<1> QED
  BY <1>2, <1>8, <1>9, <1>10 DEF LinkInv, LinksFollowSources

\* A step that leaves rows and links alone keeps them.
LEMMA StillLinked ==
    ASSUME LinkInv, PrepInv', UNCHANGED <<row, hold, links, since, linked>>,
           steps' = steps + 1 \/ steps' = steps
    PROVE  LinkInv'
<1>1. StepsAreCounted /\ LinksAreKept /\ LinksAreDerivable /\ LinksMissOnlyAcrossImports /\ Sources = Refs
  BY DEF LinkInv, LinksFollowSources, PrepInv, Tables, Sources
<1>2. StepsAreCounted'
  <2>1. /\ steps \in Nat /\ \A r \in Refs : since[r] \in Nat /\ since[r] <= steps
        /\ \A k \in DOMAIN linked : linked[k] \in Nat /\ linked[k] <= steps
    BY <1>1 DEF StepsAreCounted
  <2> QED
    BY <2>1 DEF StepsAreCounted
<1>3. LinksAreKept' /\ LinksAreDerivable'
  BY <1>1 DEF LinksAreKept, LinksAreDerivable, Stored
<1>4. LinksMissOnlyAcrossImports'
  <2> SUFFICES ASSUME NEW n \in 1..steps', NEW r \in StoredBy(n), NEW s \in StoredBy(n),
                      NEW c \in StoredBy(n), NEW type \in Types,
                      r # s, Related(row[r], row[s], row[c], type)
               PROVE  \E l \in links : l.source = r /\ l.object = s /\ l.type = type
    BY DEF LinksMissOnlyAcrossImports, StoredBy, Stored, Sources
  <2>1. since[r] = n /\ since[r] \in Nat /\ since[r] <= steps /\ steps \in Nat
    BY <1>1 DEF StepsAreCounted, StoredBy
  <2>2. n \in 1..steps
    BY <2>1
  <2> QED
    BY <1>1, <2>2 DEF LinksMissOnlyAcrossImports
<1> QED
  BY <1>2, <1>3, <1>4 DEF LinkInv, LinksFollowSources

LEMMA LinkInit == ASSUME Init PROVE LinkInv
<1>1. PrepInv
  BY PrepInit
<1>2. StepsAreCounted /\ LinksAreKept /\ LinksAreDerivable /\ LinksMissOnlyAcrossImports
  BY DEF Init, StepsAreCounted, LinksAreKept, LinksAreDerivable, LinksMissOnlyAcrossImports
<1> QED
  BY <1>1, <1>2 DEF LinkInv, LinksFollowSources

\* The stored links are those that hold of the stored records, as far as one import can
\* know: none is stale but for what was stored again since, and none is missing between
\* records that one import stored.
THEOREM LinksAlwaysFollowSources == Spec => []LinksFollowSources
<1>1. Init => LinkInv
  BY LinkInit
<1>2. ASSUME LinkInv, [Next]_vars PROVE LinkInv'
  <2>1. PrepInv'
    BY <1>2, PrepNext DEF LinkInv
  <2>2. CASE UNCHANGED vars
    <3>1. UNCHANGED <<row, hold, links, since, linked, steps>>
      BY <2>2 DEF vars
    <3> QED
      BY <1>2, <2>1, <3>1, StillLinked
  <2>3. ASSUME NEW batch, Reject(batch) PROVE LinkInv'
    <3>1. UNCHANGED <<row, hold, links, since, linked>> /\ steps' = steps + 1
      BY <2>3 DEF Reject
    <3> QED
      BY <1>2, <2>1, <3>1, StillLinked
  <2>4. ASSUME RebuildUnits PROVE LinkInv'
    <3>1. UNCHANGED <<row, hold, links, since, linked>> /\ steps' = steps + 1
      BY <2>4 DEF RebuildUnits
    <3> QED
      BY <1>2, <2>1, <3>1, StillLinked
  <2>5. CASE Next
    BY <1>2, <2>3, <2>4, <2>5, PrepSteps, ImportKeepsLinkInv, RebuildLinksKeepsLinkInv
  <2> QED
    BY <1>2, <2>2, <2>5
<1>3. LinkInv => LinksFollowSources
  BY DEF LinkInv
<1> QED
  BY <1>1, <1>2, <1>3, PTL DEF Spec
=============================================================================
