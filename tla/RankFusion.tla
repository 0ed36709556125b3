------------------------------ MODULE RankFusion ------------------------------
(***************************************************************************)
(* retrieve() of app/services/retrieval.py and _resolve_one() of           *)
(* app/services/resolution.py: three lists of rows of the search index,    *)
(* each the answer of a statement of its own, are fused into one ranking   *)
(* by Reciprocal Rank Fusion, and a phrase is resolved to its first hit of *)
(* the expected kind.                                                      *)
(***************************************************************************)
EXTENDS Integers, Sequences, FiniteSetsExt, Functions

CONSTANTS
    Rows,        \* rows of the index, those of an earlier rebuild included
    KindOf,      \* KindOf[row]: the type of its object
    PerMethod,   \* candidates_per_method
    Scale,       \* a common denominator of the votes
    Unresolved   \* the hit of a phrase that resolves to nothing

VARIABLE search

RRF_K == 60

ASSUME ScaleAssumption ==
    /\ PerMethod \in Nat
    /\ Scale \in Nat \ {0}
    /\ \A n \in 1..PerMethod : Scale % (RRF_K + n) = 0

Methods == {"exact", "lexical", "vector"}

\* EXACT_WEIGHT and 1.0
Weight(method) == IF method = "exact" THEN 2 ELSE 1

\* What the statements may return: rows in order of rank, each once.
Ranked == {l \in UNION {[1..n -> Rows] : n \in 0..PerMethod} :
               \A i, j \in DOMAIN l : l[i] = l[j] => i = j}

Lists == [Methods -> Ranked]

-----------------------------------------------------------------------------
\* _rank(): positions from 1.
Position(row, list) == CHOOSE i \in DOMAIN list : list[i] = row

\* The vote of one method.
Vote(method, list, row) ==
    IF row \in Range(list)
    THEN Weight(method) * (Scale \div (RRF_K + Position(row, list))) ELSE 0

Score(lists, row) ==
    Vote("exact", lists["exact"], row) + Vote("lexical", lists["lexical"], row)
        + Vote("vector", lists["vector"], row)

\* Mutation of Met: the lists are walked in the opposite order.
MetBackwards(lists) == lists["vector"] \o lists["lexical"] \o lists["exact"]

\* The keys of the dictionary `scores`: rows in the order they were first met.
Met(lists) == lists["exact"] \o lists["lexical"] \o lists["vector"]

Keys(lists) ==
    LET met == Met(lists)
    IN  {[row |-> met[i], met |-> i] :
            i \in {j \in DOMAIN met : \A earlier \in 1..(j - 1) : met[earlier] # met[j]}}

\* sorted(..., reverse=True)[:limit] is stable: of two equal scores, the first met.
Before(lists, k, l) ==
    \/ Score(lists, k.row) > Score(lists, l.row)
    \/ Score(lists, k.row) = Score(lists, l.row) /\ k.met < l.met

\* What retrieve() returns.
Hits(lists, limit) ==
    LET keys == Keys(lists)
        Place(k) == Cardinality({l \in keys : Before(lists, l, k)}) + 1
        shown == IF Cardinality(keys) < limit THEN Cardinality(keys) ELSE limit
    IN  [i \in 1..shown |-> (CHOOSE k \in keys : Place(k) = i).row]

-----------------------------------------------------------------------------
\* A call of _resolve_one().
Search(expected, limit) ==
    [pc       |-> "exact",
     expected |-> expected,                     \* the kind of object the phrase is to name
     limit    |-> limit,
     lists    |-> [m \in Methods |-> <<>>],
     hits     |-> <<>>,                         \* what retrieve() returned
     resolved |-> Unresolved]

SearchInit == \E expected \in Range(KindOf), limit \in Nat \ {0} : search = Search(expected, limit)

\* The statements, one after the other; the index may be rebuilt in between.
Following(m) == CASE m = "exact" -> "lexical" [] m = "lexical" -> "vector" [] m = "vector" -> "fuse"

Statement(m) ==
    /\ search.pc = m
    /\ \E list \in Ranked :
          search' = [search EXCEPT !.pc = Following(m), !.lists[m] = list]

\* retrieve()
Fuse ==
    /\ search.pc = "fuse"
    /\ search' = [search EXCEPT !.pc = "resolve", !.hits = Hits(search.lists, search.limit)]

\* _resolve_one(): MIN_SCORE, 0.008, is below the score of every row of a list of
\* 20 candidates, the last one's being 1/80.
ResolveOne ==
    LET hits  == search.hits
        right == {i \in DOMAIN hits : KindOf[hits[i]] = search.expected}
    IN  /\ search.pc = "resolve"
        /\ search' = [search EXCEPT
               !.pc = "resolved",
               !.resolved = IF right = {} THEN Unresolved ELSE hits[Min(right)]]

SearchStep == Fuse \/ ResolveOne \/ \E m \in Methods : Statement(m)

SearchSpec == SearchInit /\ [][SearchStep]_search

-----------------------------------------------------------------------------
\* Properties.

\* "Exact matches are not guesses ... they reliably win": if anything is called
\* what the phrase says, the first hit is, and a phrase that expects its kind is
\* resolved to it.  A row both other methods rank first has the same score, and
\* loses only because it is met later.
ExactNameWins ==
    LET first == search.hits[1]
    IN  search.pc = "resolved" /\ search.lists["exact"] # <<>> =>
            /\ first \in Range(search.lists["exact"])
            /\ KindOf[first] = search.expected => search.resolved = first

\* A phrase that is the name of an object of the expected kind is resolved: does
\* not hold, for objects of other kinds with that name may fill the few hits
\* looked at.
ExactOfItsKindResolves ==
    search.pc = "resolved" /\ (\E row \in Range(search.lists["exact"]) : KindOf[row] = search.expected)
        => search.resolved # Unresolved
=============================================================================
