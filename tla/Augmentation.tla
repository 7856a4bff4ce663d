---------------------------- MODULE Augmentation ----------------------------
(***************************************************************************)
(* One retrieval at a time of retrieval/augmentation.py, over an index     *)
(* that the writers of ServingIndex change between any two of its reads.   *)
(*                                                                         *)
(* retrieve_augmentation holds no transaction: it reads units twice (exact *)
(* and fuzzy), the rows of what they found, the vectors, the rows of what  *)
(* these found, links, persons, related rows, and writes its events last.  *)
(* The query is fixed; what its words match in a text is given by          *)
(* constants.  Scores are the millionths the reranker rounds to.           *)
(***************************************************************************)
EXTENDS SearchRows, Integers

CONSTANTS
    Similar,        \* Similar[x]: the similarity of chunk x, negative or not
    Persons,        \* the refs whose record_type is person
    Thread,         \* Thread[r]: the thread r belongs to, or Nil
    NameMatches,    \* contents in whose title or text the query names a person
    WorkItems,      \* the refs that are work items of Linear
    Topical,        \* contents that speak of priorities, when the query does
    TitleMatches,   \* contents whose title has a word of the query, or nearly so
    FullyNamed,     \* contents whose title has the first two words of the query
    Cost,           \* Cost[v]: estimated tokens of a card that shows v
    TokenBudget     \* token_budget

ASSUME AugmentationAssumption ==
    /\ Similar \in [Pieces -> Int]
    /\ Persons \subseteq Refs /\ DOMAIN Thread = Refs
    /\ NameMatches \union Topical \union TitleMatches \union FullyNamed \subseteq Versions
    /\ WorkItems \subseteq Refs \ Persons
    /\ Cost \in [Versions -> Nat \ {0}]
    /\ TokenBudget \in Int

VARIABLES
    pc,       \* the next statement of the query
    rows,     \* the rows the retriever under way returned, best first
    cands,    \* candidates_by_key, in order of insertion
    ranked,   \* what reranking and diversification leave
    results,  \* what fits the token budget
    persons,  \* the people buckets: possible query matches, related people
    hints,    \* follow-up hints
    event,    \* the status of the query event recorded, or Nil
    shown,    \* the refs of the result events recorded, by rank
    opened,   \* what the last inspection answered
    live,     \* refs that were active at some time since the query began
    calm      \* [writes: no write was cut short or overlapped another one,
              \*  query: and none was under way since the query began]

seen == <<live, calm>>
queryVars == <<pc, rows, cands, ranked, results, persons, hints, event, shown, opened, seen>>
vars == <<indexVars, queryVars>>

\* chunk_embeddings is read without a look at any other table.
VectorRows ==
    LET nearest == Prefix(BestBy(Similar, vec), CandidateLimit)
        close == InTurn({i \in DOMAIN nearest : Similar[nearest[i]] > 0})
    IN [n \in DOMAIN close |->
          LET x == nearest[close[n]] IN [ref |-> x[1], idx |-> x[2], ver |-> x[3]]]

-----------------------------------------------------------------------------
(* Candidates *)

\* Reciprocal-rank fusion.
Points(rank) == 1000000 \div (60 + rank)

IndexOf(cs, x) == {i \in DOMAIN cs : cs[i].ref = x.ref /\ cs[i].idx = x.idx}

\* A row adds its points to the candidate of its key; a new candidate shows
\* the text of the row of source_records as it is now, whatever its lifecycle.
Merged(cs, x, rank, retriever) ==
    IF IndexOf(cs, x) # {}
    THEN [i \in DOMAIN cs |->
            IF i \in IndexOf(cs, x)
            THEN [cs[i] EXCEPT !.score = @ + Points(rank), !.by = @ \union {retriever}]
            ELSE cs[i]]
    ELSE Append(cs, [ref |-> x.ref, idx |-> x.idx,
                     ver |-> IF row[x.ref] = Nil THEN x.ver ELSE row[x.ref].ver,
                     score |-> Points(rank), by |-> {retriever}])

MergedSoFar(retriever) ==
    LET after[n \in 0..Len(rows)] ==
            IF n = 0 THEN cands ELSE Merged(after[n - 1], rows[n], n, retriever)
    IN after

MergedAll(retriever) == MergedSoFar(retriever)[Len(rows)]

LinkCount(r) == Cardinality({l \in links : l[1] = r}) + Cardinality({l \in links : l[2] = r})

\* min(0.04, log1p(count) * 0.01), in millionths.
GraphLinkBoost(count) ==
    CASE count = 0 -> 0 [] count = 1 -> 6931 [] count = 2 -> 10986 [] count = 3 -> 13863
      [] count = 4 -> 16094 [] OTHER -> 40000

PriorityWorkItem(c) == c.ref \in WorkItems /\ c.ver \in Topical
PersonTitle(c) == c.ref \in Persons /\ c.ver \in TitleMatches
NamedPerson(c) == c.ref \in Persons /\ c.ver \in FullyNamed

\* default_rerank_rules, one after another: times a multiple of a fifth, plus.
Boost(score, applies, fifths, plus) ==
    IF applies THEN (score * fifths) \div 5 + plus ELSE score

Reranked(c) ==
    LET priority == Boost(c.score, PriorityWorkItem(c), 9, 10000)
        title == Boost(priority, PersonTitle(c), 10, 20000)
    IN Boost(title, NamedPerson(c), 7, 4000)

MaxPerSource == 2

BetterCard(cs, i, j) ==
    \/ Reranked(cs[i]) > Reranked(cs[j])
    \/ Reranked(cs[i]) = Reranked(cs[j]) /\ Order[cs[i].ref] < Order[cs[j].ref]
    \/ Reranked(cs[i]) = Reranked(cs[j]) /\ cs[i].ref = cs[j].ref /\ i < j

Ranking(cs) ==
    Ordered(DOMAIN cs, {p \in (DOMAIN cs) \X (DOMAIN cs) : BetterCard(cs, p[1], p[2])})

RankAndDiversify(cs) ==
    LET order == Ranking(cs)
        kept == {n \in DOMAIN order :
                    Cardinality({m \in 1..(n - 1) : cs[order[m]].ref = cs[order[n]].ref})
                        < MaxPerSource}
        best == InTurn(kept)
    IN [n \in DOMAIN best |-> cs[order[best[n]]]]

TokensSoFar(cs) ==
    LET sum[n \in 0..Len(cs)] == IF n = 0 THEN 0 ELSE sum[n - 1] + Cost[cs[n].ver]
    IN sum

TokensOf(cs) == TokensSoFar(cs)[Len(cs)]

\* Mutant: the card that is about to be added is not counted.
FitsMutant(cs, n) == n <= 1 \/ TokensOf(SubSeq(cs, 1, n - 1)) < TokenBudget

\* The first n cards fit; the first one is given whatever it costs.
Fits(cs, n) == n <= 1 \/ TokensOf(SubSeq(cs, 1, n)) <= TokenBudget

SelectForTokenBudget(cs) ==
    SubSeq(cs, 1, CHOOSE n \in 0..Len(cs) :
                     /\ \A m \in 1..n : Fits(cs, m)
                     /\ n = Len(cs) \/ ~ Fits(cs, n + 1))

-----------------------------------------------------------------------------
(* The query *)

Init ==
    /\ IndexInit
    /\ pc = "idle" /\ rows = <<>> /\ cands = <<>> /\ ranked = <<>> /\ results = <<>>
    /\ persons = [direct |-> {}, related |-> <<>>]
    /\ hints = {} /\ event = Nil /\ shown = <<>> /\ opened = Nil
    /\ live = {} /\ calm = [writes |-> TRUE, query |-> TRUE]

Goto(from, to) == pc = from /\ pc' = to

Begin ==
    /\ pc \in {"idle", "answered", "raised"}
    /\ pc' = IF TokenBudget < 1 THEN "event" ELSE "keyword"
    /\ rows' = <<>> /\ cands' = <<>> /\ ranked' = <<>> /\ results' = <<>>
    /\ persons' = [direct |-> {}, related |-> <<>>]
    /\ hints' = {} /\ event' = Nil /\ shown' = <<>> /\ opened' = Nil
    /\ live' = ActiveRefs
    /\ calm' = [calm EXCEPT !.query = ~ Writing]
    /\ UNCHANGED indexVars

\* source_record_search_rows: the exact matches.
SearchKeyword ==
    /\ Goto("keyword", "fuzzy")
    /\ rows' = ExactRows({})
    /\ UNCHANGED <<indexVars, cands, ranked, results, persons, hints, event, shown,
                   opened, seen>>

\* The fuzzy matches fill the list up, from a read of their own.
SearchFuzzy ==
    /\ Goto("fuzzy", "merge_keyword")
    /\ rows' = IF Len(rows) >= CandidateLimit THEN rows ELSE rows \o FuzzyRows(rows, {})
    /\ UNCHANGED <<indexVars, cands, ranked, results, persons, hints, event, shown,
                   opened, seen>>

MergeKeyword ==
    /\ Goto("merge_keyword", "vector")
    /\ cands' = MergedAll("keyword") /\ rows' = <<>>
    /\ UNCHANGED <<indexVars, ranked, results, persons, hints, event, shown, opened, seen>>

\* A vector search that raises counts as one that found nothing.
SearchVector ==
    /\ Goto("vector", "merge_vector")
    /\ rows' \in {VectorRows, <<>>}
    /\ UNCHANGED <<indexVars, cands, ranked, results, persons, hints, event, shown,
                   opened, seen>>

MergeVector ==
    /\ Goto("merge_vector", "rank")
    /\ cands' = MergedAll("vector") /\ rows' = <<>>
    /\ UNCHANGED <<indexVars, ranked, results, persons, hints, event, shown, opened, seen>>

\* Links are counted, candidates reranked, diversified and packed.
Rank ==
    /\ Goto("rank", "direct")
    /\ LET boosted == [i \in DOMAIN cands |->
                          [cands[i] EXCEPT !.score = @ + GraphLinkBoost(LinkCount(cands[i].ref))]]
       IN ranked' = RankAndDiversify(boosted)
    /\ results' = SelectForTokenBudget(ranked')
    /\ cands' = <<>>
    /\ UNCHANGED <<indexVars, rows, persons, hints, event, shown, opened, seen>>

\* _person_rows_by_ref looks at the type of a row only.
PersonRows == {r \in Persons : row[r] # Nil}

NamedByQuery(r) == row[r].ver \in NameMatches

\* The first six of them.
MatchPersons ==
    LET named == Prefix(InOrder({r \in PersonRows : NamedByQuery(r)}), 6)
    IN /\ Goto("direct", "related")
       /\ persons' = [persons EXCEPT !.direct = {named[i] : i \in DOMAIN named}]
       /\ UNCHANGED <<indexVars, rows, cands, ranked, results, hints, event, shown, opened,
                      seen>>

\* The persons at the other end, or at one end, of a link of a result.
RelatedPersonRefs ==
    {r \in PersonRows \ persons.direct :
        \E l \in links : {l[1], l[2]} \intersect RefsIn(results) # {} /\ r \in {l[1], l[2]}}

\* Four of them, those first that rank themselves.
RelatePersons ==
    LET place(r) == LET at == {i \in DOMAIN ranked : ranked[i].ref = r} IN
                    IF at = {} THEN 9999 ELSE CHOOSE i \in at : \A j \in at : j <= i
    IN /\ Goto("related", "context")
       /\ persons' = [persons EXCEPT !.related =
                         Prefix(Ordered(RelatedPersonRefs,
                             {p \in RelatedPersonRefs \X RelatedPersonRefs :
                                 \/ place(p[1]) < place(p[2])
                                 \/ place(p[1]) = place(p[2]) /\ Order[p[1]] < Order[p[2]]}), 4)]
       /\ UNCHANGED <<indexVars, rows, cands, ranked, results, hints, event, shown,
                      opened, seen>>

\* A row has a thread, a withdrawn one too.
ThreadOf(r) == IF row[r] = Nil THEN Nil ELSE Thread[r]

\* The active sources of the thread of r, the first three of them.
ThreadContext(r) ==
    LET all == InOrder({s \in Refs \ {r} : Active(s) /\ ThreadOf(s) = ThreadOf(r)})
        first == Prefix(all, 3)
    IN IF ThreadOf(r) = Nil THEN {} ELSE {first[i] : i \in DOMAIN first}

LinkContext(r) == {l[1] : l \in {k \in links : k[2] = r}} \union {l[2] : l \in {k \in links : k[1] = r}}

DirectContext(r) == (ThreadContext(r) \union LinkContext(r)) \ {r}

SameCluster(r, s) == ThreadOf(r) # Nil /\ ThreadOf(r) = ThreadOf(s)
Neighbors(r, s) == {<<r, s>>, <<s, r>>} \intersect links # {}

\* What is ranked, not shown and in the context of a result, unless it shares
\* a thread or a link with a hint that is given already.
WithHint(given, r, near) ==
    IF \/ r \notin near \/ Cardinality(given) = 5
       \/ \E s \in given : s = r \/ SameCluster(r, s) \/ Neighbors(r, s)
    THEN given ELSE given \union {r}

HintsSoFar(near) ==
    LET given[n \in 0..Len(ranked)] ==
            IF n = 0 THEN {} ELSE WithHint(given[n - 1], ranked[n].ref, near)
    IN given

FindHints ==
    /\ Goto("context", "event")
    /\ LET refs == RefsIn(results)
           near == (UNION {DirectContext(r) : r \in refs}) \ refs
       IN hints' = HintsSoFar(near)[Len(ranked)]
    /\ UNCHANGED <<indexVars, rows, cands, ranked, results, persons, event, shown,
                   opened, seen>>

\* The event may fail to be recorded; the query succeeds all the same.
RecordQuery ==
    /\ Goto("event", "result_events")
    /\ event' \in {"succeeded", Nil}
    /\ UNCHANGED <<indexVars, rows, cands, ranked, results, persons, hints, shown, opened,
                   seen>>

\* One INSERT for all the results, whose key is the event and the source.
Recordable(cs) == \A i, j \in DOMAIN cs : cs[i].ref = cs[j].ref => i = j

\* It may fail, too, and fails when two cards are of one source.
RecordResults ==
    /\ Goto("result_events", "answered")
    /\ LET refs == [i \in DOMAIN results |-> results[i].ref] IN
       shown' \in {<<>>} \union
                  (IF event # Nil /\ Recordable(results) THEN {refs} ELSE {})
    /\ UNCHANGED <<indexVars, rows, cands, ranked, results, persons, hints, event, opened,
                   seen>>

\* A read raises: a failed event is recorded, and the error goes to the caller.
Raise ==
    /\ pc \in {"keyword", "fuzzy", "merge_keyword", "merge_vector", "rank", "direct",
               "related", "context"}
    /\ pc' = "raised"
    /\ event' \in {"failed", Nil}
    /\ rows' = <<>> /\ cands' = <<>> /\ ranked' = <<>> /\ results' = <<>>
    /\ persons' = [direct |-> {}, related |-> <<>>] /\ hints' = {}
    /\ UNCHANGED <<indexVars, shown, opened, seen>>

\* The rank of r among the results recorded.
RankOf(r) ==
    LET at == {i \in DOMAIN shown : shown[i] = r}
    IN IF at = {} THEN Nil ELSE CHOOSE i \in at : TRUE

InspectionEvent(r) == [ref |-> r, rank |-> RankOf(r)]

\* inspect_source: a client opens what an answer named; of an active source an
\* event is recorded, with the rank it had.
Open(r) ==
    /\ pc = "answered"
    /\ opened' = [status |-> CASE row[r] = Nil -> "not_found"
                               [] Active(r) -> "ok"
                               [] OTHER -> "inactive",
                  event |-> IF Active(r) THEN InspectionEvent(r) ELSE Nil]
    /\ UNCHANGED <<indexVars, pc, rows, cands, ranked, results, persons, hints, event,
                   shown, seen>>

\* What render_augmentation_block names in the block an agent reads: without a
\* result, nothing.
PeopleNamed ==
    persons.direct \union {persons.related[i] : i \in DOMAIN persons.related}

BlockRefs ==
    IF results = <<>> THEN {} ELSE RefsIn(results) \union hints \union PeopleNamed

Observe ==
    /\ live' = live \union {r \in Refs : row'[r] # Nil /\ row'[r].life = "active"}
    /\ UNCHANGED <<pc, rows, cands, ranked, results, persons, hints, event, shown, opened>>

Write ==
    /\ WriterStep
    /\ calm' = [writes |-> calm.writes /\ ~ Overlapping', query |-> FALSE]
    /\ Observe

Stop ==
    /\ WriterStop
    /\ calm' = [writes |-> FALSE, query |-> FALSE]
    /\ Observe

Next ==
    \/ Begin \/ SearchKeyword \/ SearchFuzzy \/ MergeKeyword \/ SearchVector \/ MergeVector
    \/ Rank \/ MatchPersons \/ RelatePersons \/ FindHints \/ RecordQuery \/ RecordResults
    \/ Raise \/ \E r \in Refs : Open(r)
    \/ Write \/ Stop

Spec == Init /\ [][Next]_vars

-----------------------------------------------------------------------------
(* Correctness *)

\* A source that was not active at any time while the query ran is shown only
\* because a chunk of it was left in the vector index: the text search, which
\* joins units with rows, never brings one up, whatever the writers do.
UnseenOnlyByVector ==
    \A i \in DOMAIN results :
        results[i].ref \notin live => results[i].by = {"vector"}

\* While writes come one after another and none is cut short, a query that no
\* write runs into shows active sources only, each with the text it has now,
\* and the block names active sources only, but for persons.
SerialIndexServesActive ==
    calm.writes /\ calm.query =>
        /\ \A i \in DOMAIN results :
              Active(results[i].ref) /\ row[results[i].ref].ver = results[i].ver
        /\ \A r \in BlockRefs \ PeopleNamed : Active(r)

\* The cards of an answer cost at most the token budget, or there is one only;
\* and no card is left out that would still have fitted.
PackedWithinBudget ==
    pc = "answered" /\ TokenBudget >= 1 =>
        /\ Len(results) > 1 => TokensOf(results) <= TokenBudget
        /\ Len(results) < Len(ranked) =>
              TokensOf(SubSeq(ranked, 1, Len(results) + 1)) > TokenBudget

=============================================================================
