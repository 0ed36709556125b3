------------------------------ MODULE Pipeline ------------------------------
(***************************************************************************)
(* Questions put to POST /api/ask: the typed graph of                      *)
(* app/services/pipeline.py, one node per action, and the handler around   *)
(* it (app/api/ask.py, app/services/audit.py) that selects the version,    *)
(* runs the graph, records the run and commits.                            *)
(*                                                                         *)
(* Handlers run in a thread pool, each with a session of its own at READ   *)
(* COMMITTED, so between two nodes of one question other sessions may drop *)
(* metrics, rebuild the search index, rebind the version or delete the     *)
(* workspace.  What the nodes read of the database is in the variables     *)
(* live, indexed, version, source and workspace.                           *)
(***************************************************************************)
EXTENDS Integers, FiniteSets, Functions

CONSTANTS
    Requests,     \* the questions asked
    Metrics,      \* metric ids the modeller may define in the version
    Phrases,      \* metric phrases a parser may extract from a question
    MaxAttempts,  \* max_attempts; MAX_REPAIR_ATTEMPTS by default
    None          \* Python's None

ASSUME MaxAttemptsAssumption == MaxAttempts \in Nat

VARIABLES
    pc,         \* pc[r]: the graph node, or handler step, r executes next
    state,      \* state[r]: the PipelineState of r's graph
    ran,        \* ran[r]: statements r has had the warehouse run
    live,       \* metrics that exist in the version
    indexed,    \* metrics that have a row in semantic_search_index
    version,    \* the version row: gone, or its data_source_id unset or set
    source,     \* whether the data source row exists
    workspace,  \* whether the workspace row exists
    log         \* the committed query_runs rows

catalogue == <<live, indexed, version, source, workspace>>
vars == <<pc, state, ran, catalogue, log>>

-----------------------------------------------------------------------------
\* Values

Nodes == {"understand_intent", "repair_intent", "resolve_phrases", "build_plan",
          "compile_sql", "execute_sql", "analyze_results", "give_up"}

Finished == {"answered", "not_found", "error"}

ProblemKinds == {"unsupported", "unresolved", "plan", "missing", "model",
                 "no_source", "warehouse"}

\* An intent: declined, or the metric phrases it names (possibly none).
Intent == [type : {"unsupported"}, phrases : {{}}]
              \cup [type : {"aggregate"}, phrases : SUBSET Phrases]

\* Every phrase resolved to a metric, or to nothing.
Resolution == UNION {[P -> Metrics \cup {None}] : P \in SUBSET Phrases}

\* A query plan: the metric each phrase stands for.
Plan == UNION {[P -> Metrics] : P \in SUBSET Phrases}

ASSUME NoneAssumption == None \notin Metrics \cup Intent \cup Resolution \cup Plan

PipelineState ==
    [execute  : BOOLEAN,
     bound    : BOOLEAN,
     status   : {"pending", "ok", "failed"},
     attempts : Nat,
     intent   : Intent \cup {None},
     resolved : Resolution \cup {None},
     query    : Plan \cup {None},
     compiled : Plan \cup {None},
     result   : BOOLEAN,
     analysis : BOOLEAN,
     problems : SUBSET ProblemKinds]

\* answer(): the state the graph is invoked with.  `bound` is not a key of the
\* TypedDict: it is version.data_source_id as ask() loaded it, which the
\* session's identity map serves to data_source_for() for the rest of the run.
InitialState(execute, bound) ==
    [execute  |-> execute,
     bound    |-> bound,
     status   |-> "pending",
     attempts |-> 0,
     intent   |-> None,
     resolved |-> None,
     query    |-> None,
     compiled |-> None,
     result   |-> FALSE,
     analysis |-> FALSE,
     problems |-> {}]

\* ResolvedIntent.problems
ResolvedProblems(s) ==
    IF s.intent.type = "unsupported" THEN {"unsupported"}
    ELSE IF \E p \in DOMAIN s.resolved : s.resolved[p] = None THEN {"unresolved"}
    ELSE {}

\* audit.record(): the status of the row.
RunStatus(s) ==
    IF s.status # "ok" THEN "failed"
    ELSE IF s.result THEN "executed"
    ELSE "compiled"

\* audit.record(): the row, less what it copies without interpreting it.
QueryRun(r, s) ==
    [request      |-> r,
     status       |-> RunStatus(s),
     attempts     |-> s.attempts,
     compiled_sql |-> s.compiled # None,
     row_count    |-> s.result,
     problems     |-> s.problems]

-----------------------------------------------------------------------------
Init ==
    /\ pc = [r \in Requests |-> "idle"]
    /\ state = [r \in Requests |-> InitialState(FALSE, FALSE)]
    /\ ran = [r \in Requests |-> 0]
    /\ live \in SUBSET Metrics
    /\ indexed = live
    /\ version \in {"unbound", "bound"}
    /\ source = TRUE
    /\ workspace = TRUE
    /\ log = {}

\* The node of r returns: r's state becomes s and the graph moves to `next`.
Return(r, s, next) ==
    /\ state' = [state EXCEPT ![r] = s]
    /\ pc' = [pc EXCEPT ![r] = next]

\* ask(), up to answer(): the version is selected, or the reply is a 404.
Ask(r) ==
    /\ pc[r] = "idle"
    /\ \/ /\ version = "gone"
          /\ Return(r, state[r], "not_found")
       \/ /\ version # "gone"
          /\ \E execute \in BOOLEAN :
                Return(r, InitialState(execute, version = "bound"), "understand_intent")
    /\ UNCHANGED <<ran, catalogue, log>>

UnderstandIntent(r) ==
    /\ pc[r] = "understand_intent"
    /\ \E intent \in Intent :
          Return(r, [state[r] EXCEPT !.intent = intent, !.attempts = 1], "resolve_phrases")
    /\ UNCHANGED <<ran, catalogue, log>>

\* Mutation of RepairIntent: the repaired intent keeps the resolution of the last one.
RepairSkipsResolution(r) ==
    /\ pc[r] = "repair_intent"
    /\ \E intent \in Intent :
          Return(r, [state[r] EXCEPT !.intent = intent, !.attempts = @ + 1, !.problems = {}],
                 "build_plan")
    /\ UNCHANGED <<ran, catalogue, log>>

\* Mutation of RepairIntent: the attempt is not counted.
RepairIsNotCounted(r) ==
    /\ pc[r] = "repair_intent"
    /\ \E intent \in Intent :
          Return(r, [state[r] EXCEPT !.intent = intent, !.problems = {}], "resolve_phrases")
    /\ UNCHANGED <<ran, catalogue, log>>

RepairIntent(r) ==
    /\ pc[r] = "repair_intent"
    /\ \E intent \in Intent :
          Return(r, [state[r] EXCEPT !.intent = intent,
                                     !.attempts = @ + 1,
                                     !.problems = {}], "resolve_phrases")
    /\ UNCHANGED <<ran, catalogue, log>>

\* Retrieval answers from the search index, whatever has happened to the
\* metrics since it was built.
ResolvePhrases(r) ==
    /\ pc[r] = "resolve_phrases"
    /\ \E hits \in [state[r].intent.phrases -> indexed \cup {None}] :
          Return(r, [state[r] EXCEPT !.resolved = hits], "build_plan")
    /\ UNCHANGED <<ran, catalogue, log>>

\* Mutation of AfterPlan: one attempt too many.
AfterPlanOffByOne(s) ==
    IF s.problems = {} THEN "compile_sql"
    ELSE IF s.intent.type = "unsupported" \/ s.attempts > MaxAttempts THEN "give_up"
    ELSE "repair_intent"

\* after_plan()
AfterPlan(s) ==
    CASE s.problems = {} -> "compile_sql"
      [] s.problems # {} /\ s.intent.type = "unsupported" -> "give_up"
      [] s.problems # {} /\ s.intent.type # "unsupported" /\ s.attempts >= MaxAttempts ->
            "give_up"
      [] OTHER -> "repair_intent"

\* build() reports the resolution's problems and nothing else, or the problems
\* it meets in filters and time range ("plan"), or a query.
BuildPlan(r) ==
    /\ pc[r] = "build_plan"
    /\ LET s == state[r]
           Built(query, problems) == [s EXCEPT !.query = query, !.problems = problems]
       IN  \/ /\ ResolvedProblems(s) # {}
              /\ LET b == Built(None, ResolvedProblems(s)) IN Return(r, b, AfterPlan(b))
           \/ /\ ResolvedProblems(s) = {}
              /\ LET b == Built(None, {"plan"}) IN Return(r, b, AfterPlan(b))
           \/ /\ ResolvedProblems(s) = {}
              /\ LET b == Built(s.resolved, {}) IN Return(r, b, AfterPlan(b))
    /\ UNCHANGED <<ran, catalogue, log>>

\* Mutation of LoadsEveryMetric: some metric of the plan was found.
LoadsSomeMetric(query) == DOMAIN query # {} => Range(query) \cap live # {}

\* _Compiler._load(): the rows found for the plan's metric ids are counted
\* against the list of ids, which keeps duplicates.
LoadsEveryMetric(query) ==
    Cardinality(Range(query) \cap live) = Cardinality(DOMAIN query)

\* A CompilationError ends the run: the model is incomplete, or the plan names
\* no metric at all.  after_compile() goes on only if execution was asked for.
CompileSql(r) ==
    /\ pc[r] = "compile_sql"
    /\ LET s == state[r]
           Failed(problem) == [s EXCEPT !.status = "failed", !.problems = {problem}]
       IN  \/ /\ ~LoadsEveryMetric(s.query)
              /\ Return(r, Failed("missing"), "record")
           \/ /\ LoadsEveryMetric(s.query)
              /\ Return(r, Failed("model"), "record")
           \/ /\ LoadsEveryMetric(s.query)
              /\ DOMAIN s.query # {}
              /\ Return(r, [s EXCEPT !.compiled = s.query, !.status = "ok"],
                        IF s.execute THEN "execute_sql" ELSE "record")
    /\ UNCHANGED <<ran, catalogue, log>>

\* Mutation of ExecuteSql: a failure leaves the status the compilation set.
ExecutionFailureKeepsStatus(r) ==
    /\ pc[r] = "execute_sql"
    /\ Return(r, [state[r] EXCEPT !.problems = {"warehouse"}], "record")
    /\ UNCHANGED <<ran, catalogue, log>>

\* Mutation of ExecuteSql: a statement the warehouse rejected is tried again.
ExecutionIsRetried(r) ==
    /\ pc[r] = "execute_sql"
    /\ Return(r, state[r], "execute_sql")
    /\ ran' = [ran EXCEPT ![r] = @ + 1]
    /\ UNCHANGED <<catalogue, log>>

\* data_source_for() and execute(): no data source, a statement the warehouse
\* rejects (before or after it began to run it), or a result.
ExecuteSql(r) ==
    /\ pc[r] = "execute_sql"
    /\ LET s == state[r]
           Failed(problem) == [s EXCEPT !.status = "failed", !.problems = {problem}]
       IN  \/ /\ ~(s.bound /\ source)
              /\ Return(r, Failed("no_source"), "record")
              /\ UNCHANGED ran
           \/ /\ s.bound /\ source
              /\ Return(r, Failed("warehouse"), "record")
              /\ ran' \in {ran, [ran EXCEPT ![r] = @ + 1]}
           \/ /\ s.bound /\ source
              /\ Return(r, [s EXCEPT !.result = TRUE], "analyze_results")
              /\ ran' = [ran EXCEPT ![r] = @ + 1]
    /\ UNCHANGED <<catalogue, log>>

AnalyzeResults(r) ==
    /\ pc[r] = "analyze_results"
    /\ Return(r, [state[r] EXCEPT !.analysis = TRUE], "record")
    /\ UNCHANGED <<ran, catalogue, log>>

GiveUp(r) ==
    /\ pc[r] = "give_up"
    /\ Return(r, [state[r] EXCEPT !.status = "failed"], "record")
    /\ UNCHANGED <<ran, catalogue, log>>

\* An exception no node catches leaves answer() and ask(): the parser or the
\* embedder is unavailable (IntentUnavailable), date arithmetic overflows in
\* build(), the expression parser refuses what the validator let through in
\* compile, the host policy or the credentials refuse in get_engine(), a value
\* is unhashable in analyse().  get_db() closes the session, which rolls back.
Raise(r) ==
    /\ pc[r] \in Nodes \ {"give_up"}
    /\ Return(r, state[r], "error")
    /\ UNCHANGED <<ran, catalogue, log>>

\* audit.record(): the flush inserts the row, whose foreign key needs the
\* workspace and locks it until the commit.
Record(r) ==
    /\ pc[r] = "record"
    /\ Return(r, state[r], IF workspace THEN "commit" ELSE "error")
    /\ UNCHANGED <<ran, catalogue, log>>

\* Mutation of Commit: only a success is kept.
CommitKeepsSuccesses(r) ==
    /\ pc[r] = "commit"
    /\ Return(r, state[r], "answered")
    /\ log' = log \cup (IF state[r].status = "ok" THEN {QueryRun(r, state[r])} ELSE {})
    /\ UNCHANGED <<ran, catalogue>>

\* db.commit(), then the response.
Commit(r) ==
    /\ pc[r] = "commit"
    /\ Return(r, state[r], "answered")
    /\ log' = log \cup {QueryRun(r, state[r])}
    /\ UNCHANGED <<ran, catalogue>>

-----------------------------------------------------------------------------
\* Other sessions

DefineMetric(m) ==
    /\ version # "gone"
    /\ m \notin live
    /\ live' = live \cup {m}
    /\ UNCHANGED <<pc, state, ran, indexed, version, source, workspace, log>>

DropMetric(m) ==
    /\ m \in live
    /\ live' = live \ {m}
    /\ UNCHANGED <<pc, state, ran, indexed, version, source, workspace, log>>

\* rebuild_search_index()
RebuildIndex ==
    /\ indexed # live
    /\ indexed' = live
    /\ UNCHANGED <<pc, state, ran, live, version, source, workspace, log>>

\* data_source_id is nullable and may be set or cleared while the data source exists.
RebindVersion ==
    /\ version # "gone"
    /\ source
    /\ version' = IF version = "bound" THEN "unbound" ELSE "bound"
    /\ UNCHANGED <<pc, state, ran, live, indexed, source, workspace, log>>

\* ON DELETE CASCADE takes the version that uses the data source, and its objects.
DeleteSource ==
    /\ source
    /\ source' = FALSE
    /\ IF version = "bound"
       THEN version' = "gone" /\ live' = {} /\ indexed' = {}
       ELSE UNCHANGED <<version, live, indexed>>
    /\ UNCHANGED <<pc, state, ran, workspace, log>>

\* delete_workspace(), or delete_tenant() above it: the cascade takes everything,
\* the recorded runs included.  It waits for the lock of a run about to commit.
DeleteWorkspace ==
    /\ workspace
    /\ \A r \in Requests : pc[r] # "commit"
    /\ workspace' = FALSE
    /\ source' = FALSE
    /\ version' = "gone"
    /\ live' = {}
    /\ indexed' = {}
    /\ log' = {}
    /\ UNCHANGED <<pc, state, ran>>

-----------------------------------------------------------------------------
\* What one request does; a raised exception is never owed.
Proceed(r) ==
    \/ UnderstandIntent(r) \/ RepairIntent(r) \/ ResolvePhrases(r) \/ BuildPlan(r)
    \/ CompileSql(r) \/ ExecuteSql(r) \/ AnalyzeResults(r) \/ GiveUp(r)
    \/ Record(r) \/ Commit(r)

Modeller ==
    \/ \E m \in Metrics : DefineMetric(m) \/ DropMetric(m)
    \/ RebuildIndex \/ RebindVersion \/ DeleteSource \/ DeleteWorkspace

Next ==
    \/ \E r \in Requests : Ask(r) \/ Proceed(r) \/ Raise(r)
    \/ Modeller

Spec == Init /\ [][Next]_vars

\* A handler that was started is run by its thread until it returns; nothing
\* obliges a client to ask or a modeller to edit.
Fairness == \A r \in Requests : WF_vars(Proceed(r))

FairSpec == Spec /\ Fairness

-----------------------------------------------------------------------------
\* Properties

\* The variables hold what the code's types allow.
TypeOK ==
    /\ pc \in [Requests -> {"idle", "record", "commit"} \cup Nodes \cup Finished]
    /\ state \in [Requests -> PipelineState]
    /\ ran \in [Requests -> Nat]
    /\ live \subseteq Metrics
    /\ indexed \subseteq Metrics
    /\ version \in {"gone", "unbound", "bound"}
    /\ source \in BOOLEAN
    /\ workspace \in BOOLEAN

\* answer() returns a result whose parts agree: a failure always says why, a
\* success has SQL and no problem left over from an earlier attempt, rows come
\* only with execution asked for and always with their analysis.
Settled(r) == pc[r] \in {"record", "commit", "answered"}

ResultIsCoherent ==
    \A r \in Requests : Settled(r) =>
        LET s == state[r] IN
        /\ s.status \in {"ok", "failed"}
        /\ s.status = "ok" <=> s.problems = {}
        /\ s.status = "ok" => s.compiled # None /\ (s.execute <=> s.result)
        /\ s.result <=> s.analysis
        /\ s.result => s.status = "ok"

\* Node results are merged into one state that the repair loop goes round with:
\* the SQL that comes out is of the last intent parsed, never of an earlier
\* attempt's resolution or plan.
SqlIsForLastIntent ==
    \A r \in Requests :
        LET s == state[r] IN
        s.compiled # None =>
            /\ s.intent.type # "unsupported"
            /\ DOMAIN s.compiled = s.intent.phrases
            /\ s.compiled = s.query
            /\ s.compiled = s.resolved

\* The parser is consulted MaxAttempts times at most (and once even if
\* MaxAttempts is 0): the repair loop is bounded.
RepairIsBounded ==
    \A r \in Requests : state[r].attempts <= IF MaxAttempts = 0 THEN 1 ELSE MaxAttempts

\* However often the question is repaired, the warehouse runs at most one
\* statement for it, only when execution was asked for, and only compiled SQL.
RunsAtMostOnce ==
    \A r \in Requests :
        /\ ran[r] <= 1
        /\ ran[r] = 1 => state[r].execute /\ state[r].compiled # None
        /\ state[r].result => ran[r] = 1

\* A question answered is on record, by one row that says what was answered,
\* for as long as its workspace exists; and every row is of a question answered.
AnswersAreOnRecord ==
    /\ workspace => \A r \in Requests : pc[r] = "answered" =>
           {row \in log : row.request = r} = {QueryRun(r, state[r])}
    /\ \A row \in log : pc[row.request] = "answered"

\* Once SQL was compiled, or compilation failed, the parser is not consulted
\* again: only a plan that failed to build is repaired.
ParserOnlyBeforeCompilation ==
    [][\A r \in Requests :
          state'[r].attempts > state[r].attempts =>
              /\ state[r].compiled = None
              /\ state[r].status = "pending"
              /\ ran[r] = 0]_vars

\* SQL is compiled only for metrics that exist when it is compiled, whatever a
\* stale search index offered and whatever was dropped since it was searched.
CompilesOnlyLiveMetrics ==
    [][\A r \in Requests :
          state'[r].compiled # state[r].compiled /\ state'[r].compiled # None =>
              Range(state'[r].compiled) \subseteq live]_vars

\* Every question asked gets an answer, a refusal or an error.
EveryQuestionEnds ==
    \A r \in Requests : (pc[r] \notin {"idle"} \cup Finished) ~> (pc[r] \in Finished)

-----------------------------------------------------------------------------
\* Two statements of the repository that the code does not keep.

\* tests/test_ask_api.py: "a run is recorded for every question".
EveryQuestionIsRecorded ==
    \A r \in Requests : workspace /\ pc[r] \in {"answered", "error"} =>
        \E row \in log : row.request = r

\* compiler.py: "One or more metrics no longer exist in this version" is what a
\* plan is told when one of its metrics is gone.
MissingMeansMissing ==
    [][\A r \in Requests :
          "missing" \in state'[r].problems \ state[r].problems =>
              ~(Range(state[r].query) \subseteq live)]_vars
=============================================================================
