--------------------------- MODULE MetricExpansion ---------------------------
(***************************************************************************)
(* How app/services/compiler.py expands a metric: _measures_for_metric()   *)
(* follows the stored edges to the measures whose entities the query must  *)
(* join, and _metric_sql() then renders the expression by its names.  What *)
(* the edges lead to and what the names stand for may differ: an edge is   *)
(* deleted with its target while the expression keeps the name, two        *)
(* writers leave the edges of both, a name is given to another object, and *)
(* expression and edges are read by statements of their own.  A step is    *)
(* one turn of a loop of the innermost call, or its return.                *)
(***************************************************************************)
EXTENDS Integers, Sequences

CONSTANTS Metrics, Measures

ASSUME KindsAssumption == Metrics \cap Measures = {}

VARIABLES
    references,  \* references[m]: the measures and metrics the edges of m lead to
    names,       \* names[m]: what the names in the expression of m stand for
    loaded,      \* the measures and metrics in the dictionaries of the compilation
    metric,      \* the metric a query asks for
    stack,       \* the calls that have not returned, and what each has left to do
    seen,        \* the set all calls of _measures_for_metric() share
    found,       \* the measures they met
    joined,      \* the measures whose entities the query joins
    sql,         \* the measures _metric_sql() rendered
    stage        \* a CompilationError: "refused" in the expansion, "failed" in
                 \* rendering; or a KeyError: "raised"

graph     == <<references, names, loaded, metric>>
expansion == <<graph, stack, seen, found, joined, sql, stage>>

Objects == Metrics \cup Measures

Frame(m, edges) == [metric |-> m, rest |-> edges[m]]

-----------------------------------------------------------------------------
\* Any edges but from a metric to itself, which a CHECK forbids.  What an edge leads
\* to may be deleted before the measures and the metrics are read: not loaded.
LoadedEdges ==
    /\ references \in [Metrics -> SUBSET Objects]
    /\ \A m \in Metrics : m \notin references[m]
    /\ loaded \in SUBSET Objects
    /\ metric \in Metrics

Asked ==
    /\ stack = <<Frame(metric, references)>>
    /\ seen = {metric}
    /\ found = {}
    /\ joined = {}
    /\ sql = {}
    /\ stage = "expand"

ExpansionInit == LoadedEdges /\ names \in [Metrics -> SUBSET Objects] /\ Asked

\* As one writer leaves metrics none of whose targets was deleted.
WrittenInit == LoadedEdges /\ names = references /\ Asked

Innermost == stack[Len(stack)]

\* The loop of the innermost call has taken t.
Taken(t) == [stack EXCEPT ![Len(stack)].rest = @ \ {t}]

Return == SubSeq(stack, 1, Len(stack) - 1)

\* An edge to a measure, or to what was deleted after it was read.
ExpandMeasure(t) ==
    /\ stage = "expand"
    /\ t \in Innermost.rest
    /\ t \in Measures \/ t \notin loaded
    /\ IF t \in loaded
       THEN found' = found \cup {t} /\ stack' = Taken(t) /\ UNCHANGED stage
       ELSE stage' = "refused" /\ UNCHANGED <<found, stack>>
    /\ UNCHANGED <<graph, seen, joined, sql>>

\* Mutation of ExpandMetric: a metric already seen contributes nothing.
SeenIsSkipped(t) ==
    /\ stage = "expand"
    /\ t \in Innermost.rest \cap Metrics \cap loaded
    /\ seen' = seen \cup {t}
    /\ stack' = IF t \in seen THEN Taken(t) ELSE Append(Taken(t), Frame(t, references))
    /\ UNCHANGED <<graph, found, joined, sql, stage>>

\* The recursive call: "depends on itself" if any call was for t.
ExpandMetric(t) ==
    /\ stage = "expand"
    /\ t \in Innermost.rest \cap Metrics \cap loaded
    /\ IF t \in seen
       THEN stage' = "refused" /\ UNCHANGED <<seen, stack>>
       ELSE /\ seen' = seen \cup {t}
            /\ stack' = Append(Taken(t), Frame(t, references))
            /\ UNCHANGED stage
    /\ UNCHANGED <<graph, found, joined, sql>>

\* The outermost call returns to _required_entities(), which refuses a query none of
\* whose metrics has a measure.  The query joins the entities of the measures found,
\* and any others for its other metrics, dimensions and rules: then rendering begins.
ExpandReturn ==
    /\ stage = "expand"
    /\ Innermost.rest = {}
    /\ IF Len(stack) > 1
       THEN stack' = Return /\ UNCHANGED <<joined, stage>>
       ELSE /\ joined' \in {measures \in SUBSET Measures : found \subseteq measures}
            /\ stage' = IF joined' = {} THEN "refused" ELSE "render"
            /\ stack' = <<Frame(metric, names)>>
    /\ UNCHANGED <<graph, seen, found, sql>>

-----------------------------------------------------------------------------
\* `seen | {metric.id}`, of each path its own.
OnPath == {stack[i].metric : i \in DOMAIN stack}

\* A name that stands for a measure, or for nothing this version defines.  The alias
\* of the measure's entity is looked up in a dict of what is joined.
RenderMeasure(t) ==
    /\ stage = "render"
    /\ t \in Innermost.rest
    /\ t \in Measures \/ t \notin loaded
    /\ IF t \in loaded \cap joined
       THEN sql' = sql \cup {t} /\ stack' = Taken(t) /\ UNCHANGED stage
       ELSE /\ stage' = IF t \in loaded THEN "raised" ELSE "failed"
            /\ UNCHANGED <<sql, stack>>
    /\ UNCHANGED <<graph, seen, found, joined>>

\* A name that stands for a metric: the recursive call.
RenderMetric(t) ==
    /\ stage = "render"
    /\ t \in Innermost.rest \cap Metrics \cap loaded
    /\ IF t \in OnPath
       THEN stage' = "failed" /\ UNCHANGED stack
       ELSE stack' = Append(Taken(t), Frame(t, names)) /\ UNCHANGED stage
    /\ UNCHANGED <<graph, seen, found, joined, sql>>

RenderReturn ==
    /\ stage = "render"
    /\ Innermost.rest = {}
    /\ IF Len(stack) > 1
       THEN stack' = Return /\ UNCHANGED stage
       ELSE stage' = "compiled" /\ UNCHANGED stack
    /\ UNCHANGED <<graph, seen, found, joined, sql>>

ExpansionStep ==
    \/ \E t \in Objects :
          ExpandMeasure(t) \/ ExpandMetric(t) \/ RenderMeasure(t) \/ RenderMetric(t)
    \/ ExpandReturn
    \/ RenderReturn

ExpansionSpec == ExpansionInit /\ [][ExpansionStep]_expansion

-----------------------------------------------------------------------------
\* Properties.  The reference notion: what the metric reaches along its edges, or
\* along the names, is in every set that has what it refers to and is closed.
Closed(edges, S) == \A m \in S \cap Metrics : edges[m] \subseteq S

ReachedAlong(edges) ==
    {t \in Objects : \A S \in SUBSET Objects :
                        edges[metric] \subseteq S /\ Closed(edges, S) => t \in S}

Reached == ReachedAlong(references)
Named   == ReachedAlong(names)

\* Does some metric the query depends on depend on itself?
Cyclic ==
    \E S \in SUBSET ((Reached \cup {metric}) \cap Metrics) :
        S # {} /\ \A m \in S : references[m] \cap S # {}

\* Has every name, of the metrics expanded, its edge?
NamesHaveEdges == \A m \in (Reached \cup {metric}) \cap Metrics : names[m] \subseteq references[m]

\* The two recursions agree as far as edges and names do.  Joins are planned for
\* "every measure a metric ultimately depends on" and no other, unless the edges have
\* a cycle, which is refused rather than followed for ever, or lead to what is not
\* there.  A statement mentions every measure the names stand for, and the entities of
\* all of them are joined.  Rendering fails, or raises, only where a name of the
\* metrics expanded has no edge: not for a diamond, and not for what edges alone have.
SqlUsesJoinedMeasures ==
    /\ stage \in {"render", "compiled", "failed", "raised"} =>
          /\ ~Cyclic
          /\ Reached \subseteq loaded
          /\ found = Reached \cap Measures
          /\ sql \subseteq Named \cap joined
    /\ stage = "compiled" => Named \subseteq loaded /\ sql = Named \cap Measures
    /\ stage \in {"failed", "raised"} => ~NamesHaveEdges

\* Does not hold.  A measure that is created again under the name of a deleted one is
\* named by expressions that have no edge to it; if nothing else of the query joins
\* its entity, the lookup of its alias raises a KeyError, which nothing catches.
RenderingNeverRaises == stage # "raised"

\* tests/test_metrics.py: "a diamond is not a cycle"; of what is there and has a
\* measure, only a cycle is refused.
OnlyCyclesAreRefused ==
    stage = "refused" => Cyclic \/ ~(Reached \subseteq loaded) \/ Reached \cap Measures = {}
=============================================================================
