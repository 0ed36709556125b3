----------------------------- MODULE MetricGraph -----------------------------
(***************************************************************************)
(* set_expression() of app/services/metrics.py: a modeller gives a metric  *)
(* an expression, the names in it are resolved, the graph is walked for a  *)
(* cycle, and the metric's rows in metric_references are replaced.         *)
(*                                                                         *)
(* The caller owns the transaction and PostgreSQL runs it at READ          *)
(* COMMITTED: each query of the walk sees what other writers have          *)
(* committed by then, a DELETE sees the rows of its own snapshot and waits *)
(* for whoever is deleting them, and nothing is locked by reading.         *)
(***************************************************************************)
EXTENDS Integers, FiniteSets

CONSTANTS
    Metrics,   \* metrics of one version
    Measures,  \* measures of the same version
    Writers    \* sessions that may run set_expression() at the same time

ASSUME NamespaceAssumption == Metrics \cap Measures = {}

VARIABLES
    refs,        \* committed rows of metric_references
    expression,  \* committed metrics.expression: the set of names it mentions
    tx           \* tx[w]: the transaction of writer w

vars == <<refs, expression, tx>>

-----------------------------------------------------------------------------
Names == Metrics \cup Measures

\* A row of metric_references; `by`, the writer that inserted it, stands for
\* the row's id, which tells apart the rows two writers insert for one edge.
Row == [metric : Metrics, target : Names, by : Writers]

Steps == {"idle", "walk", "delete", "deleting", "flush", "commit", "rejected"}

Transaction ==
    [pc       : Steps,
     metric   : Metrics,           \* the metric written
     names    : SUBSET Names,      \* what the new expression mentions
     loaded   : SUBSET Names,      \* metric.expression as the session loaded it
     seen     : SUBSET Metrics,    \* assert_no_cycle(): seen
     frontier : SUBSET Metrics,    \* assert_no_cycle(): frontier
     rows     : SUBSET Row]        \* the rows the DELETE found

Idle(m) == [pc |-> "idle", metric |-> m, names |-> {}, loaded |-> {}, seen |-> {},
            frontier |-> {}, rows |-> {}]

\* The metric edges of a set of rows.
Edges(R) == {<<row.metric, row.target>> : row \in {x \in R : x.target \in Metrics}}

\* What metric m depends on, by the rows R.
Targets(R, m) == {row.target : row \in {x \in R : x.metric = m}}

\* No set of metrics is closed under "depends on one of us": in a finite graph,
\* no metric depends on itself.
AcyclicGraph(E) ==
    \A S \in SUBSET Metrics : S # {} => \E m \in S : \A t \in S : <<m, t>> \notin E

\* _dependencies(db, [m]): one query, of what is committed when it runs.
Dependencies(m) == Targets(refs, m) \cap Metrics

-----------------------------------------------------------------------------
Init ==
    /\ refs = {}
    /\ expression = [m \in Metrics |-> {}]
    /\ \E m \in Metrics : tx = [w \in Writers |-> Idle(m)]

\* The session loads the metric; the expression is validated (it mentions at
\* least one name), its names are resolved, and the self reference is refused.
SetExpression(w, m, names) ==
    /\ tx[w].pc = "idle"
    /\ names # {}
    /\ tx' = [tx EXCEPT ![w] =
                [pc       |-> IF m \in names THEN "rejected" ELSE "walk",
                 metric   |-> m,
                 names    |-> names,
                 loaded   |-> expression[m],
                 seen     |-> {},
                 frontier |-> names \cap Metrics,
                 rows     |-> {}]]
    /\ UNCHANGED <<refs, expression>>

\* Mutation of Visit: the metrics the new expression names are examined, and no further.
VisitGoesOneLevel(w, current) ==
    /\ tx[w].pc = "walk"
    /\ current \in tx[w].frontier
    /\ tx' = [tx EXCEPT ![w].pc = IF tx[w].metric \in Dependencies(current) THEN "rejected" ELSE @,
                        ![w].frontier = @ \ {current}]
    /\ UNCHANGED <<refs, expression>>

\* Mutation of Visit: a metric met along two paths is taken for a cycle.
VisitRefusesDiamonds(w, current) ==
    /\ tx[w].pc = "walk"
    /\ current \in tx[w].frontier
    /\ tx' = [tx EXCEPT ![w].pc = IF ({tx[w].metric} \cup tx[w].seen) \cap Dependencies(current) # {}
                                  THEN "rejected" ELSE @,
                        ![w].seen = @ \cup {current},
                        ![w].frontier = (@ \ {current}) \cup Dependencies(current)]
    /\ UNCHANGED <<refs, expression>>

\* Mutation of Visit: metrics already seen are visited again.
VisitForgetsSeen(w, current) ==
    /\ tx[w].pc = "walk"
    /\ current \in tx[w].frontier
    /\ tx' = [tx EXCEPT ![w].pc = IF tx[w].metric \in Dependencies(current) THEN "rejected" ELSE @,
                        ![w].frontier = (@ \ {current}) \cup Dependencies(current)]
    /\ UNCHANGED <<refs, expression>>

\* One turn of the loop: the metrics of the deque are visited in some order,
\* those already seen are skipped, and meeting the metric itself is a cycle.
Visit(w, current) ==
    /\ tx[w].pc = "walk"
    /\ current \in tx[w].frontier
    /\ \/ /\ current \in tx[w].seen
          /\ tx' = [tx EXCEPT ![w].frontier = @ \ {current}]
       \/ /\ current \notin tx[w].seen
          /\ tx[w].metric \in Dependencies(current)
          /\ tx' = [tx EXCEPT ![w].pc = "rejected"]
       \/ /\ current \notin tx[w].seen
          /\ tx[w].metric \notin Dependencies(current)
          /\ tx' = [tx EXCEPT ![w].seen = @ \cup {current},
                              ![w].frontier = (@ \ {current}) \cup Dependencies(current)]
    /\ UNCHANGED <<refs, expression>>

WalkEnds(w) ==
    /\ tx[w].pc = "walk"
    /\ tx[w].frontier = {}
    /\ tx' = [tx EXCEPT ![w].pc = "delete"]
    /\ UNCHANGED <<refs, expression>>

\* Mutation of DeleteStarts: the edges of the old expression stay.
DeleteIsForgotten(w) ==
    /\ tx[w].pc = "delete"
    /\ tx' = [tx EXCEPT ![w].pc = "deleting"]
    /\ UNCHANGED <<refs, expression>>

\* The DELETE statement takes its snapshot ...
DeleteStarts(w) ==
    /\ tx[w].pc = "delete"
    /\ tx' = [tx EXCEPT ![w].pc = "deleting",
                        ![w].rows = {row \in refs : row.metric = tx[w].metric}]
    /\ UNCHANGED <<refs, expression>>

\* ... and waits for the writers that already deleted one of its rows.
Deleted(v) == IF tx[v].pc \in {"flush", "commit"} THEN tx[v].rows ELSE {}

DeleteEnds(w) ==
    /\ tx[w].pc = "deleting"
    /\ \A v \in Writers \ {w} : Deleted(v) \cap tx[w].rows = {}
    /\ tx' = [tx EXCEPT ![w].pc = "flush"]
    /\ UNCHANGED <<refs, expression>>

\* db.flush(): the new rows are inserted and, if the attribute changed, the
\* metric's row is updated, which waits for another writer's update of it.
Updates(v) == tx[v].names # tx[v].loaded

Flush(w) ==
    /\ tx[w].pc = "flush"
    /\ Updates(w) => \A v \in Writers \ {w} :
           ~(tx[v].pc = "commit" /\ Updates(v) /\ tx[v].metric = tx[w].metric)
    /\ tx' = [tx EXCEPT ![w].pc = "commit"]
    /\ UNCHANGED <<refs, expression>>

NewRows(w) == [metric : {tx[w].metric}, target : tx[w].names, by : {w}]

\* The caller commits: a DELETE that waited for these rows finds them gone.
Commit(w) ==
    /\ tx[w].pc = "commit"
    /\ refs' = (refs \ tx[w].rows) \cup NewRows(w)
    /\ expression' = IF Updates(w)
                     THEN [expression EXCEPT ![tx[w].metric] = tx[w].names]
                     ELSE expression
    /\ tx' = [v \in Writers |->
                IF v = w THEN Idle(tx[w].metric)
                ELSE [tx[v] EXCEPT !.rows = @ \ tx[w].rows]]

\* The caller rolls back: because of the error raised, or for a reason of its own.
Rollback(w) ==
    /\ tx[w].pc # "idle"
    /\ tx' = [tx EXCEPT ![w] = Idle(tx[w].metric)]
    /\ UNCHANGED <<refs, expression>>

-----------------------------------------------------------------------------
\* What a writer does once it has started and is not told to give up.
Proceed(w) ==
    \/ \E current \in Metrics : Visit(w, current)
    \/ WalkEnds(w) \/ DeleteStarts(w) \/ DeleteEnds(w) \/ Flush(w) \/ Commit(w)
    \/ tx[w].pc = "rejected" /\ Rollback(w)

Next ==
    \E w \in Writers :
        \/ \E m \in Metrics, names \in SUBSET Names : SetExpression(w, m, names)
        \/ Proceed(w)
        \/ Rollback(w)

Spec == Init /\ [][Next]_vars

\* A session that began is run by its thread; PostgreSQL queues those that wait
\* for a row, so other writers of the same metric cannot overtake for ever.
Fairness ==
    \A w \in Writers : WF_vars(Proceed(w)) /\ SF_vars(DeleteEnds(w)) /\ SF_vars(Flush(w))

FairSpec == Spec /\ Fairness

-----------------------------------------------------------------------------
\* Properties

\* The variables hold what the tables and the locals of the functions allow.
TypeOK ==
    /\ refs \subseteq Row
    /\ expression \in [Metrics -> SUBSET Names]
    /\ tx \in [Writers -> Transaction]

\* "Cycles are detected once, when a metric is written": the committed graph
\* never has one, so that compilation may walk it.
Acyclic == AcyclicGraph(Edges(refs))

\* set_expression() replaces the metric's dependency edges: the stored edges,
\* which decide the entities a query joins, are the names in the stored
\* expression, from which its SQL is made.
EdgesMatchExpression == \A m \in Metrics : Targets(refs, m) = expression[m]

\* The graph as it would be with a new expression of m.
Rewritten(m, names) ==
    Edges({row \in refs : row.metric # m}) \cup ({m} \X (names \cap Metrics))

\* Only a cycle is refused: a metric reached along two paths is legitimate.
RefusesOnlyCycles ==
    [][\A w \in Writers :
          tx[w].pc # "rejected" /\ tx'[w].pc = "rejected" =>
              ~AcyclicGraph(Rewritten(tx'[w].metric, tx'[w].names))]_vars

\* Every set_expression() ends, in a commit or a rollback: the walk terminates
\* on whatever graph it is given, and no two writers wait for each other.
EveryWriteEnds == \A w \in Writers : (tx[w].pc # "idle") ~> (tx[w].pc = "idle")
=============================================================================
