-------------------------------- MODULE Taps --------------------------------
(***************************************************************************)
(* How the taps read a provider page by page (linear_tap.py, twenty_tap.py,*)
(* google_drive_tap.py) while its users go on adding, editing, moving and  *)
(* removing what it lists.  SnapshotImport takes what a tap sends for the  *)
(* whole truth: a source that is missing is deleted.                       *)
(*                                                                         *)
(* The provider lists items by their stamps, the highest first, and a      *)
(* cursor is the stamp of the last item that was read.  Linear's issues    *)
(* and comments are listed by their last update, all else in an order that *)
(* no edit changes.                                                        *)
(***************************************************************************)
EXTENDS Null, Integers, FiniteSets, Sequences

CONSTANTS
    Items,       \* what providers list: users, issues, companies, files, ...
    StreamOf,    \* StreamOf[x]: the stream x is an item of
    Place,       \* Place[x]: the stamp of an item that is listed at first
    ByUpdate,    \* the streams that are listed by the last update
    Folders,     \* the items of Google Drive that are folders
    Root,        \* the folder of My Drive
    PageSize,    \* LINEAR_PAGE_SIZE, TWENTY_PAGE_SIZE, GOOGLE_DRIVE_PAGE_SIZE
    StreamLimit, \* LINEAR_LIMIT, TWENTY_LIMIT
    MaxChanges   \* bound on the changes users make

LinearStreams == {"users", "issues", "comments"}
TwentyStreams == <<"companies", "people">>
Taps == {"linear", "twenty", "drive"}
Streams == LinearStreams \union {"companies", "people", "files"}

ASSUME TapsAssumption ==
    /\ StreamOf \in [Items -> Streams] /\ ByUpdate \subseteq Streams
    /\ Folders \subseteq {x \in Items : StreamOf[x] = "files"} /\ Root \notin Items
    /\ PageSize \in Nat \ {0} /\ StreamLimit \in Nat \ {0} /\ MaxChanges \in Nat
    /\ Nil \notin Items \union Streams \union {Root} /\ Nil \notin Nat
    /\ IsFiniteSet(Items)
    /\ Place \in [Items -> 1..Cardinality(Items)]
    /\ \A x, y \in Items : Place[x] = Place[y] => x = y

Parents == Folders \union {Root}

VARIABLES
    stamp,    \* stamp[x]: where the provider lists x, 0 if it does not
    parent,   \* parent[x]: the folder of a file
    changes,  \* changes users made
    moved,    \* items that were added, edited, moved or removed during the run
    tap,      \* the tap that runs
    phase,    \* "read", "sent" or "failed"
    received, \* received[s]: the items read of stream s, in their order
    more,     \* more[s]: has_next
    cursor,   \* cursor[s]: the stamp of the last item read, or Nil
    turn,     \* Twenty: the stream under way; Drive: the folder, or Nil
    pending,  \* Drive: folders to visit
    visited   \* Drive: folders visited

lists == <<stamp, parent, changes, moved>>
reading == <<received, more, cursor, turn, pending, visited>>
tapVars == <<lists, tap, phase, reading>>

Listed(x) == stamp[x] # 0
InStream(s) == {x \in Items : StreamOf[x] = s}
OfTap(t) ==
    CASE t = "linear" -> LinearStreams [] t = "twenty" -> {"companies", "people"}
      [] t = "drive" -> {"files"}

\* No folder is in itself: of any folders, one is in none of them.
Forest(par) == \A S \in SUBSET Folders : S # {} => \E f \in S : par[f] \notin S

\* An item, the folder it is in, the folder that one is in, ...: what each set
\* that holds the item, and the folder of all it holds, has.
Ancestors(x) ==
    LET closed == {S \in SUBSET (Folders \union {x}) :
                      x \in S /\ \A y \in S : parent[y] \in S \union {Root}}
    IN {a \in Folders \union {x} : \A S \in closed : a \in S}

TapInit ==
    /\ tap \in Taps /\ phase = "read"
    /\ \E there \in SUBSET {x \in Items : StreamOf[x] \in OfTap(tap)} :
          stamp = [x \in Items |-> IF x \in there THEN Place[x] ELSE 0]
    /\ parent \in {[x \in Items |-> IF x \in DOMAIN f THEN f[x] ELSE Root] :
                      f \in [IF tap = "drive" THEN InStream("files") ELSE {} -> Parents]}
    /\ Forest(parent)
    /\ changes = 0 /\ moved = {}
    /\ received = [s \in Streams |-> <<>>]
    /\ more = [s \in Streams |-> TRUE]
    /\ cursor = [s \in Streams |-> Nil]
    /\ turn = IF tap = "twenty" THEN "companies" ELSE Nil
    /\ pending = <<Root>> /\ visited = {}

-----------------------------------------------------------------------------
(* The provider's users *)

Now == Cardinality(Items) + changes + 1

Change(x) ==
    /\ phase = "read" /\ changes < MaxChanges /\ StreamOf[x] \in OfTap(tap)
    /\ changes' = changes + 1 /\ moved' = moved \union {x}
    /\ UNCHANGED <<tap, phase, reading>>

Add(x) == Change(x) /\ ~ Listed(x) /\ stamp' = [stamp EXCEPT ![x] = Now] /\ UNCHANGED parent

Unlist(x) == Change(x) /\ Listed(x) /\ stamp' = [stamp EXCEPT ![x] = 0] /\ UNCHANGED parent

Update(x) ==
    /\ Change(x) /\ Listed(x)
    /\ stamp' = IF StreamOf[x] \in ByUpdate THEN [stamp EXCEPT ![x] = Now] ELSE stamp
    /\ UNCHANGED parent

\* A file, or a folder with all it holds, is moved.
Move(x) ==
    /\ Change(x) /\ Listed(x) /\ tap = "drive"
    /\ \E f \in Parents \ {x, parent[x]} :
        /\ f \in Folders => x \notin Ancestors(f)
        /\ parent' = [parent EXCEPT ![x] = f]
    /\ UNCHANGED stamp

-----------------------------------------------------------------------------
(* Pages *)

AtMost(m, n) == IF m < n THEN m ELSE n

\* The items of a set in the order of the list.
InOrder(S) ==
    [i \in 1..Cardinality(S) |->
        CHOOSE x \in S : Cardinality({y \in S : stamp[y] > stamp[x]}) = i - 1]

\* Those that are listed beyond a cursor.
Beyond(S, c) == InOrder({x \in S : Listed(x) /\ (c = Nil \/ stamp[x] < c)})

Page(S, c, n) == SubSeq(Beyond(S, c), 1, AtMost(n, Len(Beyond(S, c))))
Entries(page) == {page[i] : i \in DOMAIN page}
EndCursor(page, c) == IF page = <<>> THEN c ELSE stamp[page[Len(page)]]

\* Mutant: hasNextPage is not looked at.
HasNextMutant(S, c, n) == TRUE

HasNext(S, c, n) == Len(Beyond(S, c)) > n

\* A request fails, and with it the tap; it has sent nothing.
Fail ==
    /\ phase = "read" /\ phase' = "failed"
    /\ UNCHANGED <<lists, tap, reading>>

Printed ==
    /\ phase = "read" /\ phase' = "sent"
    /\ UNCHANGED <<lists, tap, reading>>

-----------------------------------------------------------------------------
(* Linear: one request reads a page of each stream *)

Longest == CHOOSE n \in {Len(received[s]) : s \in LinearStreams} :
               \A s \in LinearStreams : Len(received[s]) <= n

\* Mutant: the tap ends with the first stream that does.
LinearGoesOnMutant == (\A s \in LinearStreams : more[s]) /\ Longest < StreamLimit

\* The limit is that of the longest stream.
LinearGoesOn == (\E s \in LinearStreams : more[s]) /\ Longest < StreamLimit

\* A stream that has ended is asked again, from its last cursor.
LinearRequest ==
    /\ tap = "linear" /\ phase = "read" /\ LinearGoesOn
    /\ LET n == AtMost(PageSize, StreamLimit - Longest)
           page == [s \in LinearStreams |-> Page(InStream(s), cursor[s], n)]
       IN /\ received' = [s \in Streams |->
                IF s \in LinearStreams THEN received[s] \o page[s] ELSE <<>>]
          /\ more' = [s \in Streams |->
                        s \in LinearStreams => HasNext(InStream(s), cursor[s], n)]
          /\ cursor' = [s \in Streams |->
                          IF s \in LinearStreams THEN EndCursor(page[s], cursor[s]) ELSE Nil]
    /\ UNCHANGED <<lists, tap, phase, turn, pending, visited>>

LinearEnd == tap = "linear" /\ ~ LinearGoesOn /\ Printed

-----------------------------------------------------------------------------
(* Twenty: the companies, then the people, each up to the limit *)

TwentyGoesOn == turn # Nil /\ Len(received[turn]) < StreamLimit /\ more[turn]

TwentyRequest ==
    /\ tap = "twenty" /\ phase = "read" /\ TwentyGoesOn
    /\ LET n == AtMost(PageSize, StreamLimit - Len(received[turn]))
           page == Page(InStream(turn), cursor[turn], n)
       IN /\ received' = [received EXCEPT ![turn] = @ \o page]
          /\ more' = [more EXCEPT ![turn] =
                        page # <<>> /\ HasNext(InStream(turn), cursor[turn], n)]
          /\ cursor' = [cursor EXCEPT ![turn] = EndCursor(page, @)]
    /\ UNCHANGED <<lists, tap, phase, turn, pending, visited>>

TwentyNext ==
    /\ tap = "twenty" /\ phase = "read" /\ ~ TwentyGoesOn /\ turn = "companies"
    /\ turn' = "people"
    /\ UNCHANGED <<lists, tap, phase, received, more, cursor, pending, visited>>

TwentyEnd == tap = "twenty" /\ ~ TwentyGoesOn /\ turn = "people" /\ Printed

-----------------------------------------------------------------------------
(* Google Drive: folder by folder, from the root *)

Children(f) == {x \in Items : StreamOf[x] = "files" /\ parent[x] = f}

Fresh(f) == f \notin visited

DriveVisit ==
    /\ tap = "drive" /\ phase = "read" /\ turn = Nil /\ pending # <<>>
    /\ pending' = Tail(pending)
    /\ IF Fresh(Head(pending))
       THEN /\ turn' = Head(pending) /\ visited' = visited \union {Head(pending)}
            /\ cursor' = [cursor EXCEPT !["files"] = Nil]
       ELSE UNCHANGED <<turn, visited, cursor>>
    /\ UNCHANGED <<lists, tap, phase, received, more>>

\* A page of the folder's children: files are kept, folders are visited later.
DriveRequest ==
    /\ tap = "drive" /\ phase = "read" /\ turn # Nil
    /\ LET page == Page(Children(turn), cursor["files"], PageSize) IN
       /\ received' = [received EXCEPT !["files"] = @ \o InOrder(Entries(page) \ Folders)]
       /\ pending' = pending \o InOrder(Entries(page) \intersect Folders)
       /\ cursor' = [cursor EXCEPT !["files"] = EndCursor(page, @)]
       /\ turn' = IF HasNext(Children(turn), cursor["files"], PageSize) THEN turn ELSE Nil
    /\ UNCHANGED <<lists, tap, phase, more, visited>>

DriveEnd == tap = "drive" /\ turn = Nil /\ pending = <<>> /\ Printed

-----------------------------------------------------------------------------
Read ==
    \/ LinearRequest \/ LinearEnd
    \/ TwentyRequest \/ TwentyNext \/ TwentyEnd
    \/ DriveVisit \/ DriveRequest \/ DriveEnd

TapNext ==
    \/ \E x \in Items : Add(x) \/ Unlist(x) \/ Update(x) \/ Move(x)
    \/ Read \/ Fail

\* Users change a provider no faster than a tap reads it, in the long run.
TapSpec == TapInit /\ [][TapNext]_tapVars /\ WF_tapVars(Read)

-----------------------------------------------------------------------------
(* Correctness *)

ReadItems == UNION {Entries(received[s]) : s \in Streams}

\* The streams the limit cut: with one of Linear's, all of them.
Cut == CASE tap = "linear" -> IF Longest >= StreamLimit THEN LinearStreams ELSE {}
         [] tap = "twenty" -> {s \in OfTap(tap) : Len(received[s]) >= StreamLimit}
         [] tap = "drive" -> {}

\* What a tap sends lacks a listed item only if the limit cut its stream, or
\* the item, or a folder above it, was changed while the tap was reading: an
\* issue that is edited leaves the pages that are still to come.
LacksOnlyTheMoved ==
    phase = "sent" =>
        \A x \in Items \ Folders :
            Listed(x) /\ StreamOf[x] \notin Cut /\ Ancestors(x) \intersect moved = {}
            => x \in ReadItems \/ \E f \in Ancestors(x) : ~ Listed(f)

\* No item is sent twice but a file that was itself moved: a folder that is
\* found again in another folder is not read again.
TwiceOnlyIfMoved ==
    \A s \in Streams : \A i, j \in DOMAIN received[s] :
        received[s][i] = received[s][j] /\ i # j
        => tap = "drive" /\ received[s][i] \in moved

\* What a tap sends is what the provider lists, each item once, but for the
\* limit and what is changed while it reads.
StreamsAreWhole == LacksOnlyTheMoved /\ TwiceOnlyIfMoved

\* A tap ends, however the provider changes meanwhile.
TapEnds == <>(phase # "read")
=============================================================================
