----------------------------- MODULE MCFunctions -----------------------------
(***************************************************************************)
(* Calls of the functions that decide and keep no state of their own: join *)
(* planning, metric expansion, chunking, timeframes, expressions, rank     *)
(* fusion and plan building.  A behaviour is one call of one of them, with *)
(* every input of a small set; what is not called stays as it is.          *)
(***************************************************************************)
EXTENDS JoinPath, MetricExpansion, Chunking, QueryPlan, RankFusion, ExpressionSql, TLC

CONSTANTS
    orders, customers, regions, goods,
    metric1, metric1again, metric2, dimension1,
    day1, day2, other1, visits, staff, n1, w1, d1

VARIABLES
    function     \* the function called
    \* and `path` of JoinPath, `expansion` of MetricExpansion, `chunking` of Chunking,
    \* `model` and `build` of QueryPlan, `search` of RankFusion, and `parsing` of Expressions

joins == path
plan  == <<model, build>>
vars  == <<function, joins, expansion, chunking, plan, search, parsing>>

-----------------------------------------------------------------------------
\* The values of the modules' constants.
JoinEntities == {orders, customers, regions, goods}
TextCharacters == {"x", ".", " ", "\n"}

\* Two dimensions of the version asked about, and one of another.
OwnerOf == (day1 :> visits) @@ (day2 :> visits) @@ (other1 :> staff)
AskedAbout == {visits}
TimeDimensions == DOMAIN OwnerOf
DeclaredAs == {[data_type |-> "number", granularity |-> None],
               [data_type |-> "date", granularity |-> None],
               [data_type |-> "date", granularity |-> "month"]}
Readings == (n1 :> {"number", "boolean", "string"}) @@ (w1 :> {"string"})
                @@ (d1 :> {"date", "timestamp", "string"})
ValuePhrases == DOMAIN Readings
LeapDay == Date(2024, 2, 29)

\* metric1 was indexed again between two of the statements.
Kind == (metric1 :> "metric") @@ (metric1again :> "metric") @@ (metric2 :> "metric")
            @@ (dimension1 :> "dimension")
IndexRows == DOMAIN Kind

-----------------------------------------------------------------------------
\* The inputs.

\* Every graph with at most one relationship for each of seven ordered pairs,
\* entities without any lost or not: the search does not look at cardinalities.
Pairs == {<<orders, customers>>, <<customers, regions>>, <<orders, goods>>,
          <<goods, regions>>, <<regions, orders>>, <<goods, customers>>,
          <<customers, orders>>}

Related(S) == {[from |-> p[1], to |-> p[2], cardinality |-> "many_to_one", keyed |-> TRUE] : p \in S}

NoJoins == path = Call({}, {}, orders, {})
SomeJoins ==
    \E S \in SUBSET Pairs, required \in SUBSET JoinEntities, lost \in SUBSET (JoinEntities \ {orders}) :
        /\ \A p \in S : lost \cap {p[1], p[2]} = {}
        /\ path = Call(JoinEntities \ lost, Related(S), orders, required)

\* Every graph of at most four references, as one writer leaves it, in which nothing
\* is missing, or one object; every such graph one of whose objects was deleted, and
\* its edges with it; and every one, some metric of which refers to nothing, with one
\* name or one edge beside.
NoExpansion ==
    /\ references = [m \in Metrics |-> {}]
    /\ names = references
    /\ loaded = {}
    /\ metric = CHOOSE m \in Metrics : TRUE
    /\ stack = <<>>
    /\ seen = {}
    /\ found = {}
    /\ joined = {}
    /\ sql = {}
    /\ stage = "refused"

OneMissing == names = references /\ Cardinality(Objects \ loaded) <= 1
OneDropped ==
    \E t \in Objects \ {metric}, S \in (SUBSET Metrics) \ {{}} :
        /\ t \notin S
        /\ loaded = Objects \ {t}
        /\ \A m \in Metrics : t \notin references[m] /\ (m = t => references[m] = {})
        /\ names = [m \in Metrics |-> references[m] \cup {u \in {t} : m \in S}]
OneBeside ==
    \E m \in Metrics, t \in Objects :
        /\ \E leaf \in Metrics \ {metric} : references[leaf] = {}
        /\ loaded = Objects
        /\ names = [references EXCEPT ![m] = IF t \in @ THEN @ \ {t} ELSE @ \cup {t}]

SomeExpansion ==
    /\ LoadedEdges
    /\ Cardinality({e \in Metrics \X Objects : e[2] \in references[e[1]]}) <= 4
    /\ metric = CHOOSE m \in Metrics : TRUE
    /\ OneMissing \/ OneDropped \/ OneBeside
    /\ Asked

\* Texts of up to six characters, in chunks of three and four.
NoChunks == chunking = ChunkCall(<<>>, 1, 0)
SomeChunks ==
    \E n \in 0..6 : \E text \in [1..n -> Characters], max_chars \in 3..4, overlap \in 0..3 :
        chunking = ChunkCall(text, max_chars, overlap)

\* Filters of one dimension with none, one or several values, and time ranges of
\* every kind, while modellers edit; and every time range on every day of a leap year
\* and of the month before, in a calendar of four years, of a plan nobody disturbs.
Days == Date(2023, 12, 1)..Date(2024, 12, 31)

NoPlan ==
    /\ dimensions = [d \in Dimensions |-> None]
    /\ dropped = {}
    /\ entities = Owners
    /\ edits = 0
    /\ build = [Build(<<>>, {}, None, LeapDay) EXCEPT !.pc = "built"]

FilteredPlan ==
    LET filters == {[dimension |-> day1, set |-> sv[1], values |-> sv[2]] :
                       sv \in {<<FALSE, <<>>>>, <<FALSE, <<n1>>>>, <<FALSE, <<w1>>>>,
                               <<FALSE, <<d1>>>>, <<FALSE, <<n1, n1>>>>, <<TRUE, <<n1, n1>>>>}}
        phrases == {None, [says |-> "this", unit |-> "month"],
                    [says |-> "last count", unit |-> "day", count |-> 30],
                    [says |-> "last count", unit |-> "month", count |-> 99999],
                    [says |-> "other"]}
    IN  /\ dimensions \in [Dimensions -> Declared \cup {None}]
        /\ dimensions[other1] # [data_type |-> "number", granularity |-> None]
        /\ dimensions[day2] # [data_type |-> "number", granularity |-> None]
        /\ edits = 0
        /\ \E f \in UNION {[1..n -> filters] : n \in 0..2}, phrase \in phrases,
              grouped \in SUBSET {day2} :
            /\ Len(f) = 2 => \A i \in 1..2 : Len(f[i].values) < 2
            /\ dropped = {d \in grouped \cup Fields(f) : dimensions[d] = None}
            /\ build = Build(f, grouped, phrase, LeapDay)

DatedPlan ==
    /\ dimensions = [d \in Dimensions |->
           IF d = day1 THEN [data_type |-> "date", granularity |-> None] ELSE None]
    /\ dropped = {}
    /\ edits = MaxEdits
    /\ \E today \in Days, phrase \in Phrases({0, 1, 2, 12, 14}) :
            build = Build(<<>>, {}, phrase, today)

SomePlan == entities = Owners /\ (FilteredPlan \/ DatedPlan)

\* Of the first two hits.
NoSearch == search = [Search("metric", 2) EXCEPT !.pc = "resolved"]
SomeSearch == \E expected \in {"metric", "dimension"} : search = Search(expected, 2)

\* Every expression of up to four items, but for adjacent items that would be one
\* name or number, and longer ones of a few.
Spelt(e) ==
    \A i \in 1..(Len(e) - 1) :
        /\ e[i] \in {"a", "1"} => e[i + 1] # "1"
        /\ e[i] = "a" => e[i + 1] # "a"
ShortExpressions == UNION {[1..n -> {"a", "${a}", "1", "+", "-", "/", "(", ")", "blank", "newline"}] : n \in 0..4}
LongExpressions  == UNION {[1..n -> {"${a}", "${b}", "-", "*", "(", ")"}] : n \in 5..6}

NoExpression == parsing = [ParseCall("metric", <<>>) EXCEPT !.pc = "error"]
SomeExpression ==
    \/ \E grammar \in Grammars, e \in ShortExpressions : Spelt(e) /\ parsing = ParseCall(grammar, e)
    \/ \E e \in LongExpressions : parsing = ParseCall("metric", e)

Init ==
    /\ function \in {"resolve_join_path", "expand_metric", "chunk_text", "build", "resolve",
                     "parse_expression"}
    /\ IF function = "resolve_join_path" THEN SomeJoins ELSE NoJoins
    /\ IF function = "expand_metric" THEN SomeExpansion ELSE NoExpansion
    /\ IF function = "chunk_text" THEN SomeChunks ELSE NoChunks
    /\ IF function = "build" THEN SomePlan ELSE NoPlan
    /\ IF function = "resolve" THEN SomeSearch ELSE NoSearch
    /\ IF function = "parse_expression" THEN SomeExpression ELSE NoExpression

-----------------------------------------------------------------------------
\* The steps of a call, and what others do meanwhile.
Joining    == JoinStep /\ UNCHANGED <<function, expansion, chunking, plan, search, parsing>>
Expanding  == ExpansionStep /\ UNCHANGED <<function, joins, chunking, plan, search, parsing>>
InChunks   == ChunkStep /\ UNCHANGED <<function, joins, expansion, plan, search, parsing>>
Planning   == BuildStep /\ UNCHANGED <<function, joins, expansion, chunking, search, parsing>>
Searching  == SearchStep /\ UNCHANGED <<function, joins, expansion, chunking, plan, parsing>>
Parsing    == ParseStep /\ UNCHANGED <<function, joins, expansion, chunking, plan, search>>

Others ==
    /\ ~Built
    /\ Modeller
    /\ UNCHANGED <<function, joins, expansion, chunking, search, parsing>>

CallStep == Joining \/ Expanding \/ InChunks \/ Planning \/ Searching \/ Parsing

Returned ==
    /\ path.pc \in Outcomes
    /\ stage \in {"compiled", "refused", "failed", "raised"}
    /\ chunking.pc \in {"chunked", "error"}
    /\ Built
    /\ search.pc = "resolved"
    /\ parsing.pc \in {"parsed", "error"}

Next == CallStep \/ Others \/ (Returned /\ UNCHANGED vars)

\* A thread that runs a call goes on until it returns: assumed of the calls that
\* might not, those with a loop or a recursion that no list bounds.
Fairness ==
    /\ WF_path(JoinStep)
    /\ WF_expansion(ExpansionStep)
    /\ WF_chunking(ChunkStep)
    /\ WF_parsing(ParseStep)

Spec == Init /\ [][Next]_vars /\ Fairness

-----------------------------------------------------------------------------
\* Properties: those of the modules, of which PlanIsATree, ShortestChains,
\* SqlUsesJoinedMeasures, ChunksCoverText, EveryPieceIsNew, PlanOrEveryProblem,
\* TimeDimensionWasTheOnlyOne, RangesAreWhole, ExactNameWins, StoredAsParsed and
\* SqlMeansTheExpression are as they state them, and so is what does not hold:
\* SmallestTree, RenderingNeverRaises, BuildNeverRaises, ExactOfItsKindResolves and
\* ValidatedIsParsed.

\* What might run for ever returns: the search for joins whatever the graph, the
\* expansion and the rendering of a metric whatever cycle there is, the chunking of
\* any text, whatever the overlap, and the descent of the parser.
CallReturns ==
    <>(/\ path.pc \in Outcomes
       /\ stage \in {"compiled", "refused", "failed", "raised"}
       /\ chunking.pc \in {"chunked", "error"}
       /\ parsing.pc \in {"parsed", "error"})
=============================================================================
