----------------------------- MODULE SearchRows -----------------------------
(***************************************************************************)
(* retrieval/search.py: the text search over ServingIndex that the         *)
(* retrieval and the evidence search both begin with.  What the words of   *)
(* the query match in a unit is given by constants.                        *)
(***************************************************************************)
EXTENDS ServingIndex

CONSTANTS
    Keyword,         \* Keyword[x]: occurrences of the query's terms in unit x
    Fuzzy,           \* Fuzzy[x]: the fuzzy score of unit x
    Order,           \* Order[r]: the rank of r by date and ref
    CandidateLimit   \* limit

Pieces == UNION {PiecesOf(v) : v \in Versions}

ASSUME SearchRowsAssumption ==
    /\ IsFiniteSet(Refs) /\ IsFiniteSet(Pieces)
    /\ Keyword \in [Pieces -> Nat] /\ Fuzzy \in [Pieces -> Nat]
    /\ Order \in [Refs -> Nat]
    /\ \A r, s \in Refs : Order[r] = Order[s] => r = s
    /\ CandidateLimit \in Nat

\* The elements of S in an order, a set of pairs <<earlier, later>>.
Ordered(S, order) ==
    [i \in 1..Cardinality(S) |->
        CHOOSE x \in S : Cardinality({y \in S : <<y, x>> \in order}) = i - 1]

\* Refs by date and ref, positions one after another.
InOrder(refs) == Ordered(refs, {p \in refs \X refs : Order[p[1]] < Order[p[2]]})
InTurn(positions) == Ordered(positions, {p \in positions \X positions : p[1] < p[2]})

Prefix(s, n) == [i \in 1..(IF Len(s) < n THEN Len(s) ELSE n) |-> s[i]]
RefsIn(s) == {s[i].ref : i \in DOMAIN s}

\* Higher scores first, then by date, ref and unit.
Better(Score, x, y) ==
    \/ Score[x] > Score[y]
    \/ Score[x] = Score[y] /\ Order[x[1]] < Order[y[1]]
    \/ Score[x] = Score[y] /\ x[1] = y[1] /\ x[2] < y[2]

\* Mutant: the filters on status and lifecycle look at the unit only.
SearchableMutant(x) == x \in unit

\* retrieval_records JOIN source_records: a current unit of an active source.
Searchable(x) == x \in unit /\ Active(x[1])

\* What the words match; exclude_source_refs leaves sources out.
Matching(Score, excluded) ==
    {x \in Pieces : Searchable(x) /\ x[1] \notin excluded /\ Score[x] > 0}

BestBy(Score, found) == Ordered(found, {p \in found \X found : Better(Score, p[1], p[2])})

\* A search row carries no unit_index: who reads it takes it for unit 0.
SearchRow(x) == [ref |-> x[1], idx |-> 0, ver |-> x[3]]
SearchRowsOf(s) == [i \in DOMAIN s |-> SearchRow(s[i])]

ExactRows(excluded) ==
    SearchRowsOf(Prefix(BestBy(Keyword, Matching(Keyword, excluded)), CandidateLimit))

\* Mutant: the fuzzy statement forgets the exclusion.
FuzzyRowsMutant(found, excluded) ==
    LET more == {x \in Matching(Fuzzy, {}) : x[1] \notin RefsIn(found)}
    IN SearchRowsOf(Prefix(BestBy(Fuzzy, more), CandidateLimit - Len(found)))

\* The fuzzy rows fill the list up.  They leave out the keys that were found,
\* which are all of them units 0.
FuzzyRows(found, excluded) ==
    LET more == {x \in Matching(Fuzzy, excluded) : ~ (x[2] = 0 /\ x[1] \in RefsIn(found))}
    IN SearchRowsOf(Prefix(BestBy(Fuzzy, more), CandidateLimit - Len(found)))
=============================================================================
