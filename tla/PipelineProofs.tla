---------------------------- MODULE PipelineProofs ----------------------------
(***************************************************************************)
(* What holds of Pipeline for every set of questions, metrics and phrases  *)
(* and every MaxAttempts.                                                  *)
(***************************************************************************)
EXTENDS PipelineContract, FiniteSetTheorems, TLAPS

MaxTries == IF MaxAttempts = 0 THEN 1 ELSE MaxAttempts

-----------------------------------------------------------------------------
(***************************************************************************)
(* The inductive invariant.  It says, node by node, what the state of one  *)
(* question holds when the node is about to run: nothing is compiled or    *)
(* run while the repair loop goes round, what compile_sql receives comes   *)
(* from the last intent, and so on.  It is stated on the values p, s and n *)
(* of pc, state and ran for one question, since questions only share the   *)
(* catalogue and the log.                                                  *)
(***************************************************************************)
Unparsed == {"idle", "not_found", "understand_intent"}
Planning == {"repair_intent", "resolve_phrases", "build_plan", "compile_sql", "give_up"}
Ending   == {"record", "commit", "answered"}

\* The repair loop may still change its mind: nothing was compiled or run.
Untouched(s, n) ==
    s.compiled = None /\ s.status = "pending" /\ ~s.result /\ ~s.analysis /\ n = 0

Parsed(s) == s.intent \in Intent /\ s.attempts > 0

\* SqlIsForLastIntent, for one state.
Faithful(s) ==
    s.compiled # None =>
        /\ s.intent.type # "unsupported"
        /\ DOMAIN s.compiled = s.intent.phrases
        /\ s.compiled = s.query
        /\ s.compiled = s.resolved

\* ResultIsCoherent, for one state.
Coherent(s) ==
    /\ s.status \in {"ok", "failed"}
    /\ s.status = "ok" <=> s.problems = {}
    /\ s.status = "ok" => s.compiled # None /\ (s.execute <=> s.result)
    /\ s.result <=> s.analysis
    /\ s.result => s.status = "ok"

\* RunsAtMostOnce, for one state.
RunOnce(s, n) ==
    /\ n <= 1
    /\ n = 1 => s.execute /\ s.compiled # None
    /\ s.result => n = 1

\* What a node that runs after compilation receives.
Compiled(s) == s.status = "ok" /\ s.problems = {} /\ s.execute /\ s.compiled # None /\ ~s.analysis

NodeInv(p, s, n) ==
    /\ s.attempts <= MaxTries
    /\ Faithful(s)
    /\ RunOnce(s, n)
    /\ p \in Unparsed => s.attempts = 0
    /\ p \in Unparsed \cup Planning => Untouched(s, n)
    /\ p \in Planning \cup {"execute_sql", "analyze_results"} \cup Ending => Parsed(s)
    /\ p = "repair_intent" => s.attempts < MaxAttempts
    /\ p = "build_plan" => s.resolved \in [s.intent.phrases -> Metrics \cup {None}]
    /\ p = "compile_sql" =>
           /\ s.problems = {}
           /\ s.intent.type # "unsupported"
           /\ s.query = s.resolved
           /\ s.resolved \in [s.intent.phrases -> Metrics]
    /\ p = "give_up" => s.problems # {}
    /\ p = "execute_sql" => Compiled(s) /\ ~s.result /\ n = 0
    /\ p = "analyze_results" => Compiled(s) /\ s.result
    /\ p \in Ending => Coherent(s)

\* The log holds the runs of the questions answered, until the workspace goes.
LogInv ==
    /\ \A r \in Requests : pc[r] = "commit" => workspace
    /\ workspace => \A r \in Requests : pc[r] = "answered" => QueryRun(r, state[r]) \in log
    /\ \A row \in log : /\ row.request \in Requests
                        /\ pc[row.request] = "answered"
                        /\ row = QueryRun(row.request, state[row.request])

IInv ==
    /\ TypeOK
    /\ \A r \in Requests : NodeInv(pc[r], state[r], ran[r])
    /\ LogInv

-----------------------------------------------------------------------------
Steps == {"idle", "record", "commit"} \cup Nodes \cup Finished

LEMMA NoneIsNothing == None \notin Intent /\ None \notin Resolution /\ None \notin Plan
                       /\ None \notin Metrics
BY NoneAssumption

\* What it takes to show that a node preserves the types and NodeInv.
LEMMA ReturnKeeps ==
  ASSUME NEW r \in Requests, NEW s \in PipelineState, NEW next \in Steps, NEW n \in Nat,
         TypeOK, \A q \in Requests : NodeInv(pc[q], state[q], ran[q]),
         Return(r, s, next), ran' = [ran EXCEPT ![r] = n], UNCHANGED catalogue,
         NodeInv(next, s, n)
  PROVE  TypeOK' /\ \A q \in Requests : NodeInv(pc[q], state[q], ran[q])'
<1>1. TypeOK'
  BY DEF TypeOK, Return, catalogue, Steps
<1>2. ASSUME NEW q \in Requests PROVE NodeInv(pc'[q], state'[q], ran'[q])
  <2>1. CASE q = r
    BY <2>1 DEF TypeOK, Return
  <2>2. CASE q # r
    <3>1. pc'[q] = pc[q] /\ state'[q] = state[q] /\ ran'[q] = ran[q]
      BY <2>2 DEF TypeOK, Return
    <3> QED BY <3>1
  <2> QED BY <2>1, <2>2
<1> QED BY <1>1, <1>2

LEMMA InitHolds == Init => IInv
<1> SUFFICES ASSUME Init PROVE IInv
  OBVIOUS
<1> DEFINE s0 == InitialState(FALSE, FALSE)
<1>1. s0 \in PipelineState
  BY DEF InitialState, PipelineState
<1>2. TypeOK
  BY <1>1 DEF Init, TypeOK, Nodes, Finished
<1>3. NodeInv("idle", s0, 0)
  BY MaxAttemptsAssumption DEF NodeInv, InitialState, Faithful, RunOnce, Unparsed, Planning, Ending,
     Untouched, MaxTries
<1>4. LogInv
  BY DEF Init, LogInv
<1>5. \A r \in Requests : pc[r] = "idle" /\ state[r] = s0 /\ ran[r] = 0
  BY DEF Init
<1> HIDE DEF s0
<1> QED BY <1>2, <1>3, <1>4, <1>5 DEF IInv

-----------------------------------------------------------------------------
\* One lemma for each node: the state it returns is what the next node needs.

NodesInv == \A r \in Requests : NodeInv(pc[r], state[r], ran[r])

LEMMA RanIsKept ==
  ASSUME TypeOK, NEW r \in Requests, UNCHANGED ran
  PROVE  ran' = [ran EXCEPT ![r] = ran[r]] /\ ran[r] \in Nat
BY DEF TypeOK

LEMMA AskKeeps ==
  ASSUME TypeOK, NodesInv, NEW r \in Requests, Ask(r)
  PROVE  TypeOK' /\ NodesInv'
<1>1. state[r] \in PipelineState /\ NodeInv("idle", state[r], ran[r])
  BY DEF Ask, TypeOK, NodesInv
<1>2. NodeInv("not_found", state[r], ran[r])
  BY <1>1 DEF NodeInv, Unparsed, Planning, Ending
<1>3. ASSUME NEW execute \in BOOLEAN, NEW bound \in BOOLEAN
      PROVE  /\ InitialState(execute, bound) \in PipelineState
             /\ NodeInv("understand_intent", InitialState(execute, bound), ran[r])
  <2>1. InitialState(execute, bound) \in PipelineState
    BY DEF InitialState, PipelineState
  <2>2. ran[r] = 0
    BY <1>1 DEF NodeInv, Unparsed, Untouched
  <2>3. NodeInv("understand_intent", InitialState(execute, bound), ran[r])
    BY <2>2, MaxAttemptsAssumption DEF NodeInv, InitialState, Faithful, RunOnce, Unparsed,
       Planning, Ending, Untouched, MaxTries
  <2> QED BY <2>1, <2>3
<1>4. CASE Return(r, state[r], "not_found")
  BY <1>1, <1>2, <1>4, RanIsKept, ReturnKeeps DEF Ask, NodesInv, Steps, Finished
<1>5. CASE \E execute \in BOOLEAN :
              Return(r, InitialState(execute, version = "bound"), "understand_intent")
  BY <1>3, <1>5, RanIsKept, ReturnKeeps DEF Ask, NodesInv, Steps, Nodes
<1> QED BY <1>4, <1>5 DEF Ask

\* The parser's answer, first or repaired, goes to resolve_phrases.
LEMMA ParsedKeeps ==
  ASSUME TypeOK, NEW r \in Requests, NEW s \in PipelineState, NEW i \in Intent,
         NodeInv("understand_intent", s, ran[r]) \/ NodeInv("repair_intent", s, ran[r]),
         NEW t \in PipelineState,
         t.intent = i, t.attempts = s.attempts + 1,
         t.status = s.status, t.compiled = s.compiled, t.result = s.result,
         t.analysis = s.analysis
  PROVE  NodeInv("resolve_phrases", t, ran[r])
<1>1. s.attempts \in Nat /\ MaxTries \in Nat
  BY MaxAttemptsAssumption DEF PipelineState, MaxTries
<1>2. s.attempts + 1 <= MaxTries
  BY <1>1, MaxAttemptsAssumption DEF NodeInv, Unparsed, MaxTries
<1>3. Untouched(s, ran[r])
  BY DEF NodeInv, Unparsed, Planning
<1>4. Untouched(t, ran[r]) /\ Parsed(t) /\ t.attempts <= MaxTries
  BY <1>1, <1>2, <1>3 DEF Untouched, Parsed
<1>5. Faithful(t) /\ RunOnce(t, ran[r])
  BY <1>4 DEF Untouched, Faithful, RunOnce
<1> QED BY <1>4, <1>5 DEF NodeInv, Unparsed, Planning, Ending

LEMMA UnderstandKeeps ==
  ASSUME TypeOK, NodesInv, NEW r \in Requests, UnderstandIntent(r)
  PROVE  TypeOK' /\ NodesInv'
<1> DEFINE t(i) == [state[r] EXCEPT !.intent = i, !.attempts = 1]
<1>1. state[r] \in PipelineState /\ NodeInv("understand_intent", state[r], ran[r])
  BY DEF UnderstandIntent, TypeOK, NodesInv
<1>2. PICK i \in Intent : Return(r, t(i), "resolve_phrases")
  BY DEF UnderstandIntent
<1>3. state[r].attempts = 0
  BY <1>1 DEF NodeInv, Unparsed
<1>4. /\ t(i).intent = i /\ t(i).attempts = state[r].attempts + 1
      /\ t(i).status = state[r].status /\ t(i).compiled = state[r].compiled
      /\ t(i).result = state[r].result /\ t(i).analysis = state[r].analysis
  BY <1>1, <1>3 DEF PipelineState
<1>5. t(i) \in PipelineState
  BY <1>1, Zenon DEF PipelineState
<1> HIDE DEF t
<1>6. NodeInv("resolve_phrases", t(i), ran[r])
  BY <1>1, <1>4, <1>5, ParsedKeeps
<1> QED
  BY <1>2, <1>5, <1>6, RanIsKept, ReturnKeeps DEF UnderstandIntent, NodesInv, Steps, Nodes

LEMMA RepairKeeps ==
  ASSUME TypeOK, NodesInv, NEW r \in Requests, RepairIntent(r)
  PROVE  TypeOK' /\ NodesInv'
<1> DEFINE t(i) == [state[r] EXCEPT !.intent = i, !.attempts = @ + 1, !.problems = {}]
<1>1. state[r] \in PipelineState /\ NodeInv("repair_intent", state[r], ran[r])
  BY DEF RepairIntent, TypeOK, NodesInv
<1>2. PICK i \in Intent : Return(r, t(i), "resolve_phrases")
  BY DEF RepairIntent
<1>3. state[r].attempts + 1 \in Nat
  BY <1>1 DEF PipelineState
<1>4. /\ t(i).intent = i /\ t(i).attempts = state[r].attempts + 1
      /\ t(i).status = state[r].status /\ t(i).compiled = state[r].compiled
      /\ t(i).result = state[r].result /\ t(i).analysis = state[r].analysis
  BY <1>1 DEF PipelineState
<1>5. t(i) \in PipelineState
  BY <1>1, <1>3, Zenon DEF PipelineState
<1> HIDE DEF t
<1>6. NodeInv("resolve_phrases", t(i), ran[r])
  BY <1>1, <1>4, <1>5, ParsedKeeps
<1> QED
  BY <1>2, <1>5, <1>6, RanIsKept, ReturnKeeps DEF RepairIntent, NodesInv, Steps, Nodes

LEMMA ResolveKeeps ==
  ASSUME TypeOK, NodesInv, NEW r \in Requests, ResolvePhrases(r)
  PROVE  TypeOK' /\ NodesInv'
<1> DEFINE s == state[r]
           t(h) == [s EXCEPT !.resolved = h]
<1>1. s \in PipelineState /\ NodeInv("resolve_phrases", s, ran[r])
  BY DEF ResolvePhrases, TypeOK, NodesInv
<1>2. s.intent \in Intent /\ s.intent.phrases \in SUBSET Phrases
  BY <1>1 DEF NodeInv, Planning, Parsed, Intent
<1>3. PICK h \in [s.intent.phrases -> indexed \cup {None}] : Return(r, t(h), "build_plan")
  BY DEF ResolvePhrases
<1>4. h \in [s.intent.phrases -> Metrics \cup {None}]
  BY <1>3 DEF TypeOK
<1>5. h \in Resolution
  BY <1>2, <1>4 DEF Resolution
<1>6. t(h) \in PipelineState
  BY <1>1, <1>5, Zenon DEF PipelineState
<1>7. /\ t(h).resolved = h
      /\ t(h).intent = s.intent /\ t(h).attempts = s.attempts
      /\ t(h).status = s.status /\ t(h).compiled = s.compiled /\ t(h).result = s.result
      /\ t(h).analysis = s.analysis
  BY <1>1 DEF PipelineState
<1> HIDE DEF t
<1>8. Untouched(t(h), ran[r]) /\ Parsed(t(h)) /\ t(h).attempts <= MaxTries
  BY <1>1, <1>7 DEF NodeInv, Untouched, Parsed, Planning
<1>9. NodeInv("build_plan", t(h), ran[r])
  BY <1>4, <1>7, <1>8
  DEF NodeInv, Faithful, RunOnce, Untouched, Unparsed, Planning, Ending
<1> QED
  BY <1>3, <1>6, <1>9, RanIsKept, ReturnKeeps DEF ResolvePhrases, NodesInv, Steps, Nodes

\* Whatever build_plan returns, after_plan sends it where it can be handled.
LEMMA PlannedKeeps ==
  ASSUME TypeOK, NEW r \in Requests, NEW s \in PipelineState,
         NodeInv("build_plan", s, ran[r]),
         NEW query \in Plan \cup {None}, NEW problems \in SUBSET ProblemKinds,
         problems = {} => /\ query = s.resolved
                          /\ s.resolved \in [s.intent.phrases -> Metrics]
                          /\ s.intent.type # "unsupported",
         NEW t, t = [s EXCEPT !.query = query, !.problems = problems]
  PROVE  /\ t \in PipelineState
         /\ AfterPlan(t) \in Steps
         /\ NodeInv(AfterPlan(t), t, ran[r])
<1>1. t \in PipelineState
  BY Zenon DEF PipelineState
<1>2. /\ t.query = query /\ t.problems = problems
      /\ t.intent = s.intent /\ t.attempts = s.attempts /\ t.resolved = s.resolved
      /\ t.status = s.status /\ t.compiled = s.compiled /\ t.result = s.result
      /\ t.analysis = s.analysis
  BY DEF PipelineState
<1>3. Untouched(t, ran[r]) /\ Parsed(t) /\ t.attempts <= MaxTries /\ t.attempts \in Nat
  BY <1>1, <1>2 DEF NodeInv, Untouched, Parsed, Planning, PipelineState
<1>4. Faithful(t) /\ RunOnce(t, ran[r])
  BY <1>3 DEF Untouched, Faithful, RunOnce
<1>5. AfterPlan(t) \in {"compile_sql", "give_up", "repair_intent"}
      /\ (AfterPlan(t) = "compile_sql" <=> t.problems = {})
      /\ (AfterPlan(t) = "repair_intent" => ~(t.attempts >= MaxAttempts))
  BY <1>1 DEF AfterPlan
<1>6. CASE AfterPlan(t) = "compile_sql"
  BY <1>1, <1>2, <1>3, <1>4, <1>5, <1>6
  DEF NodeInv, Unparsed, Planning, Ending, Steps, Nodes
<1>7. CASE AfterPlan(t) = "give_up"
  BY <1>1, <1>3, <1>4, <1>5, <1>7 DEF NodeInv, Unparsed, Planning, Ending, Steps, Nodes
<1>8. CASE AfterPlan(t) = "repair_intent"
  <2>1. t.attempts < MaxAttempts
    BY <1>3, <1>5, <1>8, MaxAttemptsAssumption
  <2> QED
    BY <1>1, <1>3, <1>4, <1>8, <2>1 DEF NodeInv, Unparsed, Planning, Ending, Steps, Nodes
<1> QED BY <1>5, <1>6, <1>7, <1>8

LEMMA BuildKeeps ==
  ASSUME TypeOK, NodesInv, NEW r \in Requests, BuildPlan(r)
  PROVE  TypeOK' /\ NodesInv'
<1> DEFINE s == state[r]
           t(query, problems) == [s EXCEPT !.query = query, !.problems = problems]
<1>1. s \in PipelineState /\ NodeInv("build_plan", s, ran[r])
  BY DEF BuildPlan, TypeOK, NodesInv
<1>2. /\ s.intent \in Intent /\ s.intent.phrases \in SUBSET Phrases
      /\ s.resolved \in [s.intent.phrases -> Metrics \cup {None}]
  BY <1>1 DEF NodeInv, Planning, Parsed, Intent
<1>3. PICK query, problems :
         /\ Return(r, t(query, problems), AfterPlan(t(query, problems)))
         /\ \/ query = None /\ problems = ResolvedProblems(s) /\ ResolvedProblems(s) # {}
            \/ query = None /\ problems = {"plan"}
            \/ query = s.resolved /\ problems = {} /\ ResolvedProblems(s) = {}
  BY Zenon DEF BuildPlan
<1>4. ResolvedProblems(s) \in SUBSET ProblemKinds
  BY DEF ResolvedProblems, ProblemKinds
<1>5. ResolvedProblems(s) = {} =>
         s.intent.type # "unsupported" /\ \A p \in s.intent.phrases : s.resolved[p] # None
  BY <1>2 DEF ResolvedProblems
<1>6. ResolvedProblems(s) = {} => s.resolved \in [s.intent.phrases -> Metrics]
  BY <1>2, <1>5
<1>7. ResolvedProblems(s) = {} => s.resolved \in Plan
  BY <1>2, <1>6 DEF Plan
<1>8. /\ query \in Plan \cup {None} /\ problems \in SUBSET ProblemKinds
      /\ problems = {} => /\ query = s.resolved
                          /\ s.resolved \in [s.intent.phrases -> Metrics]
                          /\ s.intent.type # "unsupported"
  BY <1>3, <1>4, <1>5, <1>6, <1>7 DEF ProblemKinds
<1>9. /\ t(query, problems) \in PipelineState
      /\ AfterPlan(t(query, problems)) \in Steps
      /\ NodeInv(AfterPlan(t(query, problems)), t(query, problems), ran[r])
  BY <1>1, <1>8, PlannedKeeps
<1> HIDE DEF t
<1> QED
  BY <1>3, <1>9, RanIsKept, ReturnKeeps DEF BuildPlan, NodesInv

\* A node that fails after planning ends the question: the result is coherent
\* because nothing was fetched yet.
LEMMA FailureKeeps ==
  ASSUME TypeOK, NEW s \in PipelineState, NEW n \in Nat, NEW m \in Nat,
         \/ NodeInv("compile_sql", s, n) /\ m = n
         \/ NodeInv("execute_sql", s, n) /\ m <= 1,
         NEW problem \in ProblemKinds,
         NEW t, t = [s EXCEPT !.status = "failed", !.problems = {problem}]
  PROVE  t \in PipelineState /\ NodeInv("record", t, m)
<1>1. t \in PipelineState
  BY Zenon DEF PipelineState
<1>2. /\ t.status = "failed" /\ t.problems = {problem}
      /\ t.intent = s.intent /\ t.attempts = s.attempts /\ t.resolved = s.resolved
      /\ t.query = s.query /\ t.compiled = s.compiled /\ t.result = s.result
      /\ t.analysis = s.analysis /\ t.execute = s.execute
  BY DEF PipelineState
<1>3. /\ ~s.result /\ ~s.analysis /\ Parsed(s) /\ Faithful(s) /\ s.attempts <= MaxTries
  BY DEF NodeInv, Planning, Untouched, Compiled
<1>4. RunOnce(t, m)
  BY <1>2, <1>3 DEF NodeInv, Planning, Untouched, Compiled, RunOnce
<1>5. Coherent(t)
  BY <1>2, <1>3 DEF Coherent, PipelineState
<1>6. Faithful(t) /\ Parsed(t) /\ t.attempts <= MaxTries
  BY <1>2, <1>3 DEF Faithful, Parsed
<1> QED BY <1>1, <1>4, <1>5, <1>6 DEF NodeInv, Unparsed, Planning, Ending

LEMMA CompileKeeps ==
  ASSUME TypeOK, NodesInv, NEW r \in Requests, CompileSql(r)
  PROVE  TypeOK' /\ NodesInv'
<1> DEFINE s == state[r]
           failed(problem) == [s EXCEPT !.status = "failed", !.problems = {problem}]
           done == [s EXCEPT !.compiled = s.query, !.status = "ok"]
           next == IF s.execute THEN "execute_sql" ELSE "record"
<1>1. s \in PipelineState /\ NodeInv("compile_sql", s, ran[r]) /\ ran[r] \in Nat
  BY DEF CompileSql, TypeOK, NodesInv
<1>2. CASE \E problem \in {"missing", "model"} : Return(r, failed(problem), "record")
  <2>1. PICK problem \in {"missing", "model"} : Return(r, failed(problem), "record")
    BY <1>2
  <2>2. failed(problem) \in PipelineState /\ NodeInv("record", failed(problem), ran[r])
    BY <1>1, FailureKeeps DEF ProblemKinds
  <2> QED
    BY <2>1, <2>2, RanIsKept, ReturnKeeps DEF CompileSql, NodesInv, Steps
<1>3. CASE Return(r, done, next)
  <2>1. /\ s.problems = {} /\ s.intent.type # "unsupported" /\ s.query = s.resolved
        /\ s.resolved \in [s.intent.phrases -> Metrics]
        /\ s.intent \in Intent /\ s.attempts <= MaxTries /\ Parsed(s)
        /\ Untouched(s, ran[r])
    BY <1>1 DEF NodeInv, Planning, Parsed
  <2>2. s.query \in Plan /\ s.query # None
    BY <2>1, NoneIsNothing DEF Plan, Intent
  <2>3. done \in PipelineState
    BY <1>1, <2>2, Zenon DEF PipelineState
  <2>4. /\ done.compiled = s.query /\ done.status = "ok" /\ done.problems = {}
        /\ done.query = s.query /\ done.resolved = s.resolved /\ done.intent = s.intent
        /\ done.attempts = s.attempts /\ done.execute = s.execute
        /\ done.result = FALSE /\ done.analysis = FALSE
    BY <1>1, <2>1 DEF PipelineState, Untouched
  <2>5. Faithful(done) /\ RunOnce(done, ran[r]) /\ Parsed(done) /\ done.attempts <= MaxTries
    BY <2>1, <2>2, <2>4 DEF Faithful, RunOnce, Parsed, Untouched
  <2>6. NodeInv(next, done, ran[r])
    BY <1>1, <2>1, <2>2, <2>4, <2>5
    DEF NodeInv, Unparsed, Planning, Ending, Compiled, Coherent, Untouched, PipelineState
  <2> HIDE DEF done
  <2> QED
    BY <1>1, <1>3, <2>3, <2>6, RanIsKept, ReturnKeeps DEF CompileSql, NodesInv, Steps, Nodes
<1> QED
  BY <1>2, <1>3 DEF CompileSql

LEMMA ExecuteKeeps ==
  ASSUME TypeOK, NodesInv, NEW r \in Requests, ExecuteSql(r)
  PROVE  TypeOK' /\ NodesInv'
<1> DEFINE s == state[r]
           failed(problem) == [s EXCEPT !.status = "failed", !.problems = {problem}]
           done == [s EXCEPT !.result = TRUE]
<1>1. /\ s \in PipelineState /\ NodeInv("execute_sql", s, ran[r])
      /\ ran[r] \in Nat /\ ran \in [Requests -> Nat] /\ UNCHANGED catalogue
  BY DEF ExecuteSql, TypeOK, NodesInv
<1>2. ran[r] = 0 /\ Compiled(s) /\ ~s.result
  BY <1>1 DEF NodeInv
<1>3. CASE \E problem \in {"no_source", "warehouse"} :
              Return(r, failed(problem), "record") /\ ran' \in {ran, [ran EXCEPT ![r] = @ + 1]}
  <2>1. PICK problem \in {"no_source", "warehouse"} : Return(r, failed(problem), "record")
    BY <1>3
  <2>2. \E m \in {0, 1} : ran' = [ran EXCEPT ![r] = m]
    BY <1>1, <1>2, <1>3
  <2>3. PICK m \in {0, 1} : ran' = [ran EXCEPT ![r] = m]
    BY <2>2
  <2>4. m \in Nat /\ m <= 1 /\ problem \in ProblemKinds
    BY DEF ProblemKinds
  <2>5. failed(problem) \in PipelineState /\ NodeInv("record", failed(problem), m)
    <3> HIDE DEF s
    <3> QED BY <1>1, <2>4, FailureKeeps
  <2> HIDE DEF failed
  <2> QED
    BY <1>1, <2>1, <2>3, <2>4, <2>5, ReturnKeeps DEF NodesInv, Steps
<1>4. CASE Return(r, done, "analyze_results") /\ ran' = [ran EXCEPT ![r] = @ + 1]
  <2>1. ran' = [ran EXCEPT ![r] = 1]
    BY <1>1, <1>2, <1>4
  <2>2. done \in PipelineState
    BY <1>1, Zenon DEF PipelineState
  <2>3. /\ done.result = TRUE /\ done.analysis = s.analysis
        /\ done.compiled = s.compiled /\ done.status = s.status /\ done.problems = s.problems
        /\ done.query = s.query /\ done.resolved = s.resolved /\ done.intent = s.intent
        /\ done.attempts = s.attempts /\ done.execute = s.execute
    BY <1>1 DEF PipelineState
  <2>4. NodeInv("analyze_results", done, 1)
    BY <1>1, <1>2, <2>3
    DEF NodeInv, Unparsed, Planning, Ending, Compiled, Faithful, RunOnce, Parsed
  <2> HIDE DEF done
  <2> QED
    BY <1>1, <1>4, <2>1, <2>2, <2>4, ReturnKeeps DEF NodesInv, Steps, Nodes
<1> QED
  BY <1>3, <1>4 DEF ExecuteSql

LEMMA AnalyzeKeeps ==
  ASSUME TypeOK, NodesInv, NEW r \in Requests, AnalyzeResults(r)
  PROVE  TypeOK' /\ NodesInv'
<1> DEFINE s == state[r]
           done == [s EXCEPT !.analysis = TRUE]
<1>1. s \in PipelineState /\ NodeInv("analyze_results", s, ran[r])
  BY DEF AnalyzeResults, TypeOK, NodesInv
<1>2. done \in PipelineState
  BY <1>1, Zenon DEF PipelineState
<1>3. /\ done.result = s.result /\ done.analysis = TRUE
      /\ done.compiled = s.compiled /\ done.status = s.status /\ done.problems = s.problems
      /\ done.query = s.query /\ done.resolved = s.resolved /\ done.intent = s.intent
      /\ done.attempts = s.attempts /\ done.execute = s.execute
  BY <1>1 DEF PipelineState
<1>4. NodeInv("record", done, ran[r])
  BY <1>1, <1>3
  DEF NodeInv, Unparsed, Planning, Ending, Compiled, Coherent, Faithful, RunOnce, Parsed,
      PipelineState
<1> HIDE DEF done
<1> QED
  BY <1>2, <1>4, RanIsKept, ReturnKeeps DEF AnalyzeResults, NodesInv, Steps, done

LEMMA GiveUpKeeps ==
  ASSUME TypeOK, NodesInv, NEW r \in Requests, GiveUp(r)
  PROVE  TypeOK' /\ NodesInv'
<1> DEFINE s == state[r]
           done == [s EXCEPT !.status = "failed"]
<1>1. s \in PipelineState /\ NodeInv("give_up", s, ran[r])
  BY DEF GiveUp, TypeOK, NodesInv
<1>2. done \in PipelineState
  BY <1>1, Zenon DEF PipelineState
<1>3. /\ done.result = s.result /\ done.analysis = s.analysis
      /\ done.compiled = s.compiled /\ done.status = "failed" /\ done.problems = s.problems
      /\ done.query = s.query /\ done.resolved = s.resolved /\ done.intent = s.intent
      /\ done.attempts = s.attempts /\ done.execute = s.execute
  BY <1>1 DEF PipelineState
<1>4. NodeInv("record", done, ran[r])
  BY <1>1, <1>3
  DEF NodeInv, Unparsed, Planning, Ending, Untouched, Coherent, Faithful, RunOnce, Parsed
<1> HIDE DEF done
<1> QED
  BY <1>2, <1>4, RanIsKept, ReturnKeeps DEF GiveUp, NodesInv, Steps, done

\* Recording and committing hand the state on as it is; an exception drops it.
LEMMA HandOverKeeps ==
  ASSUME TypeOK, NodesInv, NEW r \in Requests, Record(r) \/ Commit(r) \/ Raise(r)
  PROVE  TypeOK' /\ NodesInv'
<1>1. PICK next \in {"commit", "answered", "error"} :
         /\ Return(r, state[r], next)
         /\ next # "error" => pc[r] \in Ending
  BY DEF Record, Commit, Raise, Ending
<1>2. state[r] \in PipelineState /\ NodeInv(pc[r], state[r], ran[r])
  BY DEF TypeOK, NodesInv
<1>3. NodeInv(next, state[r], ran[r])
  BY <1>1, <1>2 DEF NodeInv, Unparsed, Planning, Ending
<1>4. UNCHANGED <<ran, catalogue>>
  BY DEF Record, Commit, Raise
<1> QED
  BY <1>1, <1>2, <1>3, <1>4, RanIsKept, ReturnKeeps DEF NodesInv, Steps, Finished

LEMMA ModellerKeeps ==
  ASSUME TypeOK, NodesInv, Modeller
  PROVE  TypeOK' /\ NodesInv'
<1>1. UNCHANGED <<pc, state, ran>>
  BY DEF Modeller, DefineMetric, DropMetric, RebuildIndex, RebindVersion, DeleteSource,
     DeleteWorkspace
<1>2. /\ live' \subseteq Metrics /\ indexed' \subseteq Metrics
      /\ version' \in {"gone", "unbound", "bound"}
      /\ source' \in BOOLEAN /\ workspace' \in BOOLEAN
  BY DEF TypeOK, Modeller, DefineMetric, DropMetric, RebuildIndex, RebindVersion, DeleteSource,
     DeleteWorkspace
<1> QED
  BY <1>1, <1>2 DEF TypeOK, NodesInv

-----------------------------------------------------------------------------
\* The log: a row appears with the answer it records, and is not touched after.

OthersStay(r) == \A q \in Requests : q # r => pc'[q] = pc[q] /\ state'[q] = state[q]

LEMMA ReturnTouchesOne ==
  ASSUME TypeOK, NEW r \in Requests, NEW s, NEW next, Return(r, s, next)
  PROVE  OthersStay(r) /\ pc'[r] = next
BY DEF TypeOK, Return, OthersStay

\* A step of one question that neither answers it nor is about to.
LEMMA WorkKeepsLog ==
  ASSUME TypeOK, LogInv, NEW r \in Requests, OthersStay(r),
         pc'[r] \notin {"commit", "answered"}, pc[r] # "answered",
         UNCHANGED <<workspace, log>>
  PROVE  LogInv'
BY DEF LogInv, OthersStay

LEMMA RecordKeepsLog ==
  ASSUME TypeOK, LogInv, NEW r \in Requests, Record(r)
  PROVE  LogInv'
<1>1. \A q \in Requests : state'[q] = state[q] /\ (q # r => pc'[q] = pc[q])
  BY DEF TypeOK, Record, Return
<1>2. pc[r] = "record" /\ pc'[r] = IF workspace THEN "commit" ELSE "error"
  BY DEF TypeOK, Record, Return
<1>3. workspace' = workspace /\ log' = log
  BY DEF Record, catalogue
<1> QED BY <1>1, <1>2, <1>3 DEF LogInv

LEMMA CommitKeepsLog ==
  ASSUME TypeOK, LogInv, NEW r \in Requests, Commit(r)
  PROVE  LogInv'
<1>1. \A q \in Requests : state'[q] = state[q] /\ (q # r => pc'[q] = pc[q])
  BY DEF TypeOK, Commit, Return
<1>2. pc[r] = "commit" /\ pc'[r] = "answered"
  BY DEF TypeOK, Commit, Return
<1>3. workspace' = workspace /\ log' = log \cup {QueryRun(r, state[r])}
  BY DEF Commit, catalogue
<1>4. QueryRun(r, state[r]).request = r
  BY DEF QueryRun
<1>5. \A q \in Requests : QueryRun(q, state'[q]) = QueryRun(q, state[q])
  BY <1>1
<1> HIDE DEF QueryRun
<1> QED BY <1>1, <1>2, <1>3, <1>4, <1>5 DEF LogInv

\* The cascade empties the log; a run about to commit holds it off.
LEMMA ModellerKeepsLog ==
  ASSUME TypeOK, LogInv, Modeller
  PROVE  LogInv'
<1>1. UNCHANGED <<pc, state>>
  BY DEF Modeller, DefineMetric, DropMetric, RebuildIndex, RebindVersion, DeleteSource,
     DeleteWorkspace
<1>2. CASE UNCHANGED <<workspace, log>>
  BY <1>1, <1>2 DEF LogInv
<1>3. CASE DeleteWorkspace
  BY <1>1, <1>3 DEF LogInv, DeleteWorkspace
<1> QED
  BY <1>2, <1>3 DEF Modeller, DefineMetric, DropMetric, RebuildIndex, RebindVersion, DeleteSource

LEMMA Inductive == IInv /\ [Next]_vars => IInv'
<1> SUFFICES ASSUME IInv, [Next]_vars PROVE IInv'
  OBVIOUS
<1>1. TypeOK /\ NodesInv /\ LogInv
  BY DEF IInv, NodesInv
<1>2. CASE UNCHANGED vars
  BY <1>1, <1>2 DEF vars, catalogue, IInv, TypeOK, LogInv
<1>3. CASE \E r \in Requests : Ask(r) \/ Proceed(r) \/ Raise(r)
  <2>1. PICK r \in Requests : Ask(r) \/ Proceed(r) \/ Raise(r)
    BY <1>3
  <2>2. TypeOK' /\ NodesInv'
    BY <1>1, <2>1, AskKeeps, UnderstandKeeps, RepairKeeps, ResolveKeeps, BuildKeeps,
       CompileKeeps, ExecuteKeeps, AnalyzeKeeps, GiveUpKeeps, HandOverKeeps DEF Proceed
  <2>3. CASE Record(r)
    BY <1>1, <2>2, <2>3, RecordKeepsLog DEF IInv, NodesInv
  <2>4. CASE Commit(r)
    BY <1>1, <2>2, <2>4, CommitKeepsLog DEF IInv, NodesInv
  <2>5. CASE ~Record(r) /\ ~Commit(r)
    <3>1. /\ OthersStay(r)
          /\ pc'[r] \notin {"commit", "answered"} /\ pc[r] # "answered"
      <4>1. CASE Ask(r)
        BY <1>1, <4>1, ReturnTouchesOne DEF Ask
      <4>2. CASE UnderstandIntent(r)
        <5>1. \E s, next : Return(r, s, next) /\ pc[r] = "understand_intent" /\ next = "resolve_phrases"
          BY <4>2, Zenon DEF UnderstandIntent
        <5> QED BY <1>1, <5>1, ReturnTouchesOne
      <4>3. CASE RepairIntent(r)
        <5>1. \E s, next : Return(r, s, next) /\ pc[r] = "repair_intent" /\ next = "resolve_phrases"
          BY <4>3, Zenon DEF RepairIntent
        <5> QED BY <1>1, <5>1, ReturnTouchesOne
      <4>4. CASE ResolvePhrases(r)
        <5>1. \E s, next : Return(r, s, next) /\ pc[r] = "resolve_phrases" /\ next = "build_plan"
          BY <4>4, Zenon DEF ResolvePhrases
        <5> QED BY <1>1, <5>1, ReturnTouchesOne
      <4>5. CASE BuildPlan(r)
        <5>1. \A s : AfterPlan(s) \in {"compile_sql", "give_up", "repair_intent"}
          BY DEF AfterPlan
        <5>2. \E s : Return(r, s, AfterPlan(s)) /\ pc[r] = "build_plan"
          BY <4>5, Zenon DEF BuildPlan
        <5> QED BY <1>1, <5>1, <5>2, ReturnTouchesOne
      <4>6. CASE CompileSql(r)
        <5>1. \E s, next : /\ Return(r, s, next) /\ pc[r] = "compile_sql"
                           /\ next \in {"execute_sql", "record"}
          BY <4>6, Zenon DEF CompileSql
        <5> QED BY <1>1, <5>1, ReturnTouchesOne
      <4>7. CASE ExecuteSql(r)
        <5>1. \E s, next : Return(r, s, next) /\ pc[r] = "execute_sql" /\ next \in {"record", "analyze_results"}
          BY <4>7, Zenon DEF ExecuteSql
        <5> QED BY <1>1, <5>1, ReturnTouchesOne
      <4>8. CASE AnalyzeResults(r)
        <5>1. \E s, next : Return(r, s, next) /\ pc[r] = "analyze_results" /\ next = "record"
          BY <4>8, Zenon DEF AnalyzeResults
        <5> QED BY <1>1, <5>1, ReturnTouchesOne
      <4>9. CASE GiveUp(r)
        <5>1. \E s, next : Return(r, s, next) /\ pc[r] = "give_up" /\ next = "record"
          BY <4>9, Zenon DEF GiveUp
        <5> QED BY <1>1, <5>1, ReturnTouchesOne
      <4>10. CASE Raise(r)
        BY <1>1, <4>10, ReturnTouchesOne DEF Raise, Nodes
      <4> QED
        BY <2>1, <2>5, <4>1, <4>2, <4>3, <4>4, <4>5, <4>6, <4>7, <4>8, <4>9, <4>10 DEF Proceed
    <3>2. UNCHANGED <<workspace, log>>
      BY <2>1, <2>5
      DEF Ask, Proceed, Raise, UnderstandIntent, RepairIntent, ResolvePhrases, BuildPlan,
          CompileSql, ExecuteSql, AnalyzeResults, GiveUp, catalogue
    <3>3. LogInv'
      BY <1>1, <3>1, <3>2, WorkKeepsLog
    <3> QED BY <2>2, <3>3 DEF IInv, NodesInv
  <2> QED BY <2>3, <2>4, <2>5
<1>4. CASE Modeller
  BY <1>1, <1>4, ModellerKeeps, ModellerKeepsLog DEF IInv, NodesInv
<1> QED BY <1>2, <1>3, <1>4 DEF Next

LEMMA Invariant == Spec => []IInv
BY InitHolds, Inductive, PTL DEF Spec

-----------------------------------------------------------------------------
\* The variables of the pipeline keep to the types of the code, in every run.
THEOREM TypeCorrect == Spec => []TypeOK
<1>1. IInv => TypeOK
  BY DEF IInv
<1> QED BY <1>1, Invariant, PTL

\* The parts of an answer agree, however the graph came to end.
THEOREM AnswersAreCoherent == Spec => []ResultIsCoherent
<1>1. IInv => ResultIsCoherent
  BY DEF IInv, NodeInv, Coherent, ResultIsCoherent, Settled, Ending
<1> QED BY <1>1, Invariant, PTL

\* The compiled SQL is of the last intent, however often the question was repaired.
THEOREM SqlFollowsIntent == Spec => []SqlIsForLastIntent
<1>1. IInv => SqlIsForLastIntent
  BY DEF IInv, NodeInv, Faithful, SqlIsForLastIntent
<1> QED BY <1>1, Invariant, PTL

\* The warehouse runs one statement for a question at most, and only compiled SQL
\* that it was asked to run.
THEOREM WarehouseRunsOnce == Spec => []RunsAtMostOnce
<1>1. IInv => RunsAtMostOnce
  BY DEF IInv, NodeInv, RunOnce, RunsAtMostOnce
<1> QED BY <1>1, Invariant, PTL

\* The parser is consulted a bounded number of times, whatever MaxAttempts is.
THEOREM ParserIsBounded == Spec => []RepairIsBounded
<1>1. IInv => RepairIsBounded
  BY DEF IInv, NodeInv, MaxTries, RepairIsBounded
<1> QED BY <1>1, Invariant, PTL

\* An answer and its row appear together, agree, and stay while the workspace does.
THEOREM AnswersAreRecorded == Spec => []AnswersAreOnRecord
<1>1. ASSUME LogInv PROVE AnswersAreOnRecord
  <2>1. ASSUME workspace, NEW r \in Requests, pc[r] = "answered"
        PROVE  {row \in log : row.request = r} = {QueryRun(r, state[r])}
    <3>1. QueryRun(r, state[r]) \in log /\ QueryRun(r, state[r]).request = r
      BY <1>1, <2>1 DEF LogInv, QueryRun
    <3>2. \A row \in log : row.request = r => row = QueryRun(r, state[r])
      BY <1>1 DEF LogInv
    <3> QED BY <3>1, <3>2
  <2>2. \A row \in log : pc[row.request] = "answered"
    BY <1>1 DEF LogInv
  <2> QED BY <2>1, <2>2 DEF AnswersAreOnRecord
<1>2. IInv => AnswersAreOnRecord
  BY <1>1 DEF IInv
<1> QED BY <1>2, Invariant, PTL

-----------------------------------------------------------------------------
\* What a step may never do.

\* The only node that compiles does so from compile_sql's query; the nodes that
\* consult the parser are the first one and the repair.
LEMMA StepsOfNodes ==
  ASSUME TypeOK, [Next]_vars, NEW r \in Requests
  PROVE  /\ state'[r].attempts > state[r].attempts =>
                pc[r] \in {"understand_intent", "repair_intent"}
         /\ state'[r].compiled # state[r].compiled /\ state'[r].compiled # None =>
                /\ pc[r] = "compile_sql" /\ state'[r].compiled = state[r].query
                /\ LoadsEveryMetric(state[r].query)
<1> DEFINE s == state[r]
<1>1. s \in PipelineState /\ s.attempts \in Nat
  BY DEF TypeOK, PipelineState
<1>2. CASE state'[r] = s
  BY <1>1, <1>2
<1>3. CASE Ask(r)
  <2>1. state'[r] = s \/ \E execute, bound : state'[r] = InitialState(execute, bound)
    BY <1>3 DEF TypeOK, Ask, Return
  <2>2. \A execute, bound : /\ InitialState(execute, bound).compiled = None
                            /\ InitialState(execute, bound).attempts = 0
    BY DEF InitialState
  <2> HIDE DEF InitialState
  <2> QED BY <1>1, <1>2, <2>1, <2>2
<1>4. CASE UnderstandIntent(r) \/ RepairIntent(r)
  <2>1. /\ \A i : [s EXCEPT !.intent = i, !.attempts = 1].compiled = s.compiled
        /\ \A i : [s EXCEPT !.intent = i, !.attempts = @ + 1, !.problems = {}].compiled = s.compiled
    BY <1>1 DEF PipelineState
  <2>2. \E t, next : Return(r, t, next) /\ t.compiled = s.compiled
    BY <1>4, <2>1, Zenon DEF UnderstandIntent, RepairIntent
  <2>3. state'[r].compiled = s.compiled
    BY <2>2 DEF TypeOK, Return
  <2>4. pc[r] \in {"understand_intent", "repair_intent"}
    BY <1>4 DEF UnderstandIntent, RepairIntent
  <2> QED BY <2>3, <2>4
<1>5. CASE CompileSql(r)
  <2>1. /\ \A p : LET t == [s EXCEPT !.status = "failed", !.problems = p]
                  IN  t.compiled = s.compiled /\ t.attempts = s.attempts
        /\ LET t == [s EXCEPT !.compiled = s.query, !.status = "ok"]
           IN  t.compiled = s.query /\ t.attempts = s.attempts
    BY <1>1 DEF PipelineState
  <2>2. \E t, next :
           /\ Return(r, t, next) /\ t.attempts = s.attempts
           /\ \/ t.compiled = s.compiled
              \/ t.compiled = s.query /\ LoadsEveryMetric(s.query)
    BY <1>5, <2>1, Zenon DEF CompileSql
  <2>3. /\ state'[r].attempts = s.attempts
        /\ \/ state'[r].compiled = s.compiled
           \/ state'[r].compiled = s.query /\ LoadsEveryMetric(s.query)
    BY <2>2 DEF TypeOK, Return
  <2> QED BY <1>1, <1>5, <2>3 DEF CompileSql
<1>6. CASE \E t, next : Return(r, t, next) /\ t.attempts = s.attempts /\ t.compiled = s.compiled
  <2>1. state'[r].attempts = s.attempts /\ state'[r].compiled = s.compiled
    BY <1>6 DEF TypeOK, Return
  <2> QED BY <1>1, <2>1
<1>7. CASE \/ ResolvePhrases(r) \/ BuildPlan(r) \/ ExecuteSql(r) \/ AnalyzeResults(r)
           \/ GiveUp(r) \/ Record(r) \/ Commit(r) \/ Raise(r)
  <2> DEFINE Same(t) == t.attempts = s.attempts /\ t.compiled = s.compiled
  <2>1. /\ \A h : Same([s EXCEPT !.resolved = h])
        /\ \A q, p : Same([s EXCEPT !.query = q, !.problems = p])
        /\ \A p : Same([s EXCEPT !.status = "failed", !.problems = p])
        /\ Same([s EXCEPT !.result = TRUE])
        /\ Same([s EXCEPT !.analysis = TRUE])
        /\ Same([s EXCEPT !.status = "failed"])
        /\ Same(s)
    BY <1>1 DEF PipelineState
  <2> HIDE DEF Same
  <2>2. CASE ResolvePhrases(r) \/ BuildPlan(r) \/ ExecuteSql(r)
    <3>1. \E t, next : Return(r, t, next) /\ Same(t)
      BY <2>1, <2>2, Zenon DEF ResolvePhrases, BuildPlan, ExecuteSql
    <3> QED BY <1>6, <3>1 DEF Same
  <2>3. CASE \/ AnalyzeResults(r) \/ GiveUp(r) \/ Record(r) \/ Commit(r) \/ Raise(r)
    <3>1. \E t, next : Return(r, t, next) /\ Same(t)
      BY <2>1, <2>3, Zenon DEF AnalyzeResults, GiveUp, Record, Commit, Raise
    <3> QED BY <1>6, <3>1 DEF Same
  <2> QED BY <1>7, <2>2, <2>3
<1>8. CASE Modeller \/ UNCHANGED vars
  BY <1>2, <1>8 DEF vars, Modeller, DefineMetric, DropMetric, RebuildIndex, RebindVersion,
     DeleteSource, DeleteWorkspace
<1>9. CASE \E q \in Requests : q # r /\ (Ask(q) \/ Proceed(q) \/ Raise(q))
  <2>1. PICK q \in Requests : q # r /\ (Ask(q) \/ Proceed(q) \/ Raise(q))
    BY <1>9
  <2>2. \E t, next : Return(q, t, next)
    BY <2>1, Zenon
    DEF Ask, Proceed, Raise, UnderstandIntent, RepairIntent, ResolvePhrases, BuildPlan,
        CompileSql, ExecuteSql, AnalyzeResults, GiveUp, Record, Commit
  <2>3. state'[r] = s
    BY <2>1, <2>2 DEF TypeOK, Return
  <2> QED BY <1>2, <2>3
<1>10. CASE Ask(r) \/ Proceed(r) \/ Raise(r)
  BY <1>3, <1>4, <1>5, <1>7, <1>10 DEF Proceed
<1> QED BY <1>8, <1>9, <1>10 DEF Next

\* After compilation, or a failure to compile, no step consults the parser.
THEOREM ParserComesFirst == Spec => ParserOnlyBeforeCompilation
<1>1. ASSUME IInv, [Next]_vars, NEW r \in Requests,
             state'[r].attempts > state[r].attempts
      PROVE  state[r].compiled = None /\ state[r].status = "pending" /\ ran[r] = 0
  <2>1. pc[r] \in {"understand_intent", "repair_intent"}
    BY <1>1, StepsOfNodes DEF IInv
  <2> QED BY <1>1, <2>1 DEF IInv, NodeInv, Unparsed, Planning, Untouched
<1>2. IInv /\ [Next]_vars =>
        [\A r \in Requests :
            state'[r].attempts > state[r].attempts =>
                /\ state[r].compiled = None
                /\ state[r].status = "pending"
                /\ ran[r] = 0]_vars
  BY <1>1
<1> QED BY <1>2, Invariant, PTL DEF Spec, ParserOnlyBeforeCompilation

\* As many rows as ids, duplicates counted on one side only, still means every
\* metric of the plan was found.
LEMMA CountingFindsAll ==
  ASSUME NEW q \in Plan, IsFiniteSet(Phrases), LoadsEveryMetric(q)
  PROVE  Range(q) \subseteq live
<1>1. PICK P \in SUBSET Phrases : q \in [P -> Metrics]
  BY DEF Plan
<1>2. IsFiniteSet(P) /\ DOMAIN q = P
  BY <1>1, FS_Subset
<1>3. q \in Surjection(P, Range(q))
  BY <1>1 DEF Range, Surjection
<1>4. IsFiniteSet(Range(q)) /\ Cardinality(Range(q)) <= Cardinality(P)
  BY <1>2, <1>3, FS_Surjection
<1>5. /\ IsFiniteSet(Range(q) \cap live)
      /\ Cardinality(Range(q) \cap live) <= Cardinality(Range(q))
      /\ Cardinality(Range(q)) = Cardinality(Range(q) \cap live) => Range(q) = Range(q) \cap live
  BY <1>4, FS_Subset
<1>6. Cardinality(P) \in Nat /\ Cardinality(Range(q)) \in Nat /\ Cardinality(Range(q) \cap live) \in Nat
  BY <1>2, <1>4, <1>5, FS_CardinalityType
<1>7. Cardinality(Range(q) \cap live) = Cardinality(P)
  BY <1>2 DEF LoadsEveryMetric
<1>8. Cardinality(Range(q)) = Cardinality(Range(q) \cap live)
  BY <1>4, <1>5, <1>6, <1>7
<1> QED BY <1>5, <1>8

\* Compiled SQL computes metrics that exist at the time, whatever was dropped or
\* searched before.
THEOREM CompiledMetricsAreLive ==
  ASSUME IsFiniteSet(Phrases)
  PROVE  Spec => CompilesOnlyLiveMetrics
<1>1. ASSUME IInv, [Next]_vars, NEW r \in Requests,
             state'[r].compiled # state[r].compiled, state'[r].compiled # None
      PROVE  Range(state'[r].compiled) \subseteq live
  <2>1. /\ pc[r] = "compile_sql" /\ state'[r].compiled = state[r].query
        /\ LoadsEveryMetric(state[r].query)
    BY <1>1, StepsOfNodes DEF IInv
  <2>2. state[r].query \in Plan
    BY <1>1, <2>1 DEF IInv, TypeOK, PipelineState
  <2> QED BY <2>1, <2>2, CountingFindsAll
<1>2. IInv /\ [Next]_vars =>
        [\A r \in Requests :
            state'[r].compiled # state[r].compiled /\ state'[r].compiled # None =>
                Range(state'[r].compiled) \subseteq live]_vars
  BY <1>1
<1> QED BY <1>2, Invariant, PTL DEF Spec, CompilesOnlyLiveMetrics

-----------------------------------------------------------------------------
(***************************************************************************)
(* The pipeline implements the contract of its endpoint: a step simulation *)
(* under the refinement map of PipelineContract, from the invariant above. *)
(***************************************************************************)

\* The refinement map, by name.
Phases  == [r \in Requests |-> Phase(r)]
Opted   == [r \in Requests |-> state[r].execute]
Tries   == [r \in Requests |-> state[r].attempts]
Records == {[request |-> row.request, status |-> row.status] : row \in log}

mapped == <<Phases, Opted, Tries, workspace, Records>>

\* The phase of a question at node p that ran n statements.
PhaseOf(p, n) ==
    CASE p = "idle" -> "idle"
      [] p = "not_found" -> "refused"
      [] p = "answered" -> "answered"
      [] p = "error" -> "failed"
      [] OTHER -> IF n = 0 THEN "thinking" ELSE "queried"

\* What the contract sees of a node that returns s and moves on to next.
LEMMA ReturnIsSeen ==
  ASSUME TypeOK, NEW r \in Requests, NEW s, NEW next, NEW n,
         Return(r, s, next), ran' = [ran EXCEPT ![r] = n]
  PROVE  /\ Phases' = [Phases EXCEPT ![r] = PhaseOf(next, n)]
         /\ Opted' = [Opted EXCEPT ![r] = s.execute]
         /\ Tries' = [Tries EXCEPT ![r] = s.attempts]
<1>1. /\ pc'[r] = next /\ state'[r] = s /\ ran'[r] = n
      /\ \A q \in Requests : q # r => /\ pc'[q] = pc[q] /\ state'[q] = state[q]
                                      /\ ran'[q] = ran[q]
  BY DEF TypeOK, Return
<1>2. \A q \in Requests : Phase(q)' = IF q = r THEN PhaseOf(next, n) ELSE Phase(q)
  BY <1>1 DEF Phase, PhaseOf
<1> HIDE DEF Phase
<1> QED BY <1>1, <1>2 DEF Phases, Opted, Tries

\* The same for a node that runs no statement.
LEMMA KeptReturnIsSeen ==
  ASSUME TypeOK, NEW r \in Requests, NEW s, NEW next, Return(r, s, next), UNCHANGED ran
  PROVE  /\ Phases' = [Phases EXCEPT ![r] = PhaseOf(next, ran[r])]
         /\ Opted' = [Opted EXCEPT ![r] = s.execute]
         /\ Tries' = [Tries EXCEPT ![r] = s.attempts]
<1>1. /\ pc'[r] = next /\ state'[r] = s /\ ran' = ran
      /\ \A q \in Requests : q # r => /\ pc'[q] = pc[q] /\ state'[q] = state[q]
  BY DEF TypeOK, Return
<1>2. \A q \in Requests : Phase(q)' = IF q = r THEN PhaseOf(next, ran[r]) ELSE Phase(q)
  BY <1>1 DEF Phase, PhaseOf
<1> HIDE DEF Phase
<1>q. QED BY <1>1, <1>2 DEF Phases, Opted, Tries

\* What the contract sees of the question at r before the step.
LEMMA QuestionIsSeen ==
  ASSUME NEW r \in Requests
  PROVE  /\ Phases[r] = PhaseOf(pc[r], ran[r])
         /\ Opted[r] = state[r].execute
         /\ Tries[r] = state[r].attempts
BY DEF Phases, Opted, Tries, Phase, PhaseOf

\* A node that neither consults the parser nor runs a statement shows nothing.
LEMMA QuietReturn ==
  ASSUME TypeOK, NEW r \in Requests, NEW s, NEW next,
         Return(r, s, next), UNCHANGED <<ran, workspace, log>>,
         s.execute = state[r].execute, s.attempts = state[r].attempts,
         PhaseOf(next, ran[r]) = PhaseOf(pc[r], ran[r])
  PROVE  UNCHANGED mapped
<1>1. /\ Phases' = [Phases EXCEPT ![r] = Phases[r]]
      /\ Opted' = [Opted EXCEPT ![r] = Opted[r]]
      /\ Tries' = [Tries EXCEPT ![r] = Tries[r]]
  BY KeptReturnIsSeen, QuestionIsSeen
<1>2. UNCHANGED <<Phases, Opted, Tries>>
  BY <1>1 DEF Phases, Opted, Tries
<1> QED BY <1>2 DEF mapped, Records

LEMMA InitIsMapped == Init => Contract!Init
<1> SUFFICES ASSUME Init PROVE Contract!Init
  OBVIOUS
<1>1. \A r \in Requests : /\ Phase(r) = "idle"
                          /\ state[r].execute = FALSE /\ state[r].attempts = 0
  BY DEF Init, Phase, InitialState
<1>2. workspace = TRUE /\ log = {}
  BY DEF Init
<1> QED BY <1>1, <1>2 DEF Contract!Init

-----------------------------------------------------------------------------
\* A question is accepted with nothing spent on it, or refused.
LEMMA AskIsMapped ==
  ASSUME IInv, NEW r \in Requests, Ask(r)
  PROVE  Contract!Accept(r) \/ Contract!Refuse(r)
<1>1. TypeOK /\ NodeInv("idle", state[r], ran[r]) /\ pc[r] = "idle"
  BY DEF IInv, Ask
<1>2. state[r].attempts = 0 /\ ran[r] = 0
  BY <1>1 DEF NodeInv, Unparsed, Untouched
<1>3. Phases[r] = "idle" /\ Opted[r] = state[r].execute /\ Tries[r] = 0
  BY <1>1, <1>2, QuestionIsSeen DEF PhaseOf
<1>4. UNCHANGED <<workspace, Records, ran>>
  BY DEF Ask, Records, catalogue
<1>5. CASE Return(r, state[r], "not_found")
  <2>1. /\ Phases' = [Phases EXCEPT ![r] = "refused"]
        /\ Opted' = [Opted EXCEPT ![r] = Opted[r]]
        /\ Tries' = [Tries EXCEPT ![r] = Tries[r]]
    <3>1. PhaseOf("not_found", ran[r]) = "refused"
      BY DEF PhaseOf
    <3> QED BY <1>1, <1>2, <1>3, <1>4, <1>5, <3>1, KeptReturnIsSeen
  <2>2. UNCHANGED <<Opted, Tries>>
    BY <2>1 DEF Opted, Tries
  <2> QED
    BY <1>3, <1>4, <2>1, <2>2 DEF Contract!Refuse, Phases, Opted, Tries, Records
<1>6. CASE \E execute \in BOOLEAN :
              Return(r, InitialState(execute, version = "bound"), "understand_intent")
  <2>1. PICK execute \in BOOLEAN :
              Return(r, InitialState(execute, version = "bound"), "understand_intent")
    BY <1>6
  <2>2. /\ InitialState(execute, version = "bound").execute = execute
        /\ InitialState(execute, version = "bound").attempts = 0
    BY DEF InitialState
  <2>3. /\ Phases' = [Phases EXCEPT ![r] = "thinking"]
        /\ Opted' = [Opted EXCEPT ![r] = execute]
        /\ Tries' = [Tries EXCEPT ![r] = Tries[r]]
    <3>1. PhaseOf("understand_intent", ran[r]) = "thinking"
      BY <1>2 DEF PhaseOf
    <3> HIDE DEF InitialState
    <3> QED BY <1>1, <1>2, <1>3, <1>4, <2>1, <2>2, <3>1, KeptReturnIsSeen
  <2>4. UNCHANGED Tries
    BY <2>3 DEF Tries
  <2>5. Opted' \in {[Opted EXCEPT ![r] = b] : b \in BOOLEAN}
    BY <2>3
  <2> QED
    BY <1>3, <1>4, <2>3, <2>4, <2>5 DEF Contract!Accept, Phases, Opted, Tries, Records
<1> QED BY <1>5, <1>6 DEF Ask

\* Both parsing nodes consult the parser once, within the bound.
LEMMA ParsingIsMapped ==
  ASSUME IInv, NEW r \in Requests, UnderstandIntent(r) \/ RepairIntent(r)
  PROVE  Contract!Consult(r)
<1>1. /\ TypeOK /\ state[r] \in PipelineState /\ NodeInv(pc[r], state[r], ran[r])
      /\ pc[r] \in {"understand_intent", "repair_intent"}
  BY DEF IInv, TypeOK, UnderstandIntent, RepairIntent
<1>2. /\ ran[r] = 0 /\ state[r].attempts \in Nat /\ state[r].attempts < MaxTries
      /\ pc[r] = "understand_intent" => state[r].attempts = 0
  BY <1>1, MaxAttemptsAssumption DEF NodeInv, Unparsed, Planning, Untouched, MaxTries, PipelineState
<1>3. PICK s : /\ Return(r, s, "resolve_phrases") /\ s.execute = state[r].execute
               /\ s.attempts = state[r].attempts + 1
  <2>1. CASE UnderstandIntent(r)
    <3>1. PICK i \in Intent :
             Return(r, [state[r] EXCEPT !.intent = i, !.attempts = 1], "resolve_phrases")
      BY <2>1 DEF UnderstandIntent
    <3>2. state[r].attempts = 0
      BY <1>2, <2>1 DEF UnderstandIntent
    <3> DEFINE s == [state[r] EXCEPT !.intent = i, !.attempts = 1]
    <3>3. s.execute = state[r].execute /\ s.attempts = state[r].attempts + 1
      BY <1>1, <3>2 DEF PipelineState
    <3> HIDE DEF s
    <3> QED BY <3>1, <3>3 DEF s
  <2>2. CASE RepairIntent(r)
    <3>1. PICK i \in Intent :
             Return(r, [state[r] EXCEPT !.intent = i, !.attempts = @ + 1, !.problems = {}],
                    "resolve_phrases")
      BY <2>2 DEF RepairIntent
    <3> DEFINE s == [state[r] EXCEPT !.intent = i, !.attempts = @ + 1, !.problems = {}]
    <3>2. s.execute = state[r].execute /\ s.attempts = state[r].attempts + 1
      BY <1>1 DEF PipelineState
    <3> HIDE DEF s
    <3> QED BY <3>1, <3>2 DEF s
  <2> QED BY <2>1, <2>2
<1>4. UNCHANGED <<workspace, Records, ran>>
  BY DEF UnderstandIntent, RepairIntent, Records, catalogue
<1>5. Phases[r] = "thinking" /\ Tries[r] = state[r].attempts /\ Opted[r] = state[r].execute
  BY <1>1, <1>2, QuestionIsSeen DEF PhaseOf
<1>6. /\ Phases' = [Phases EXCEPT ![r] = Phases[r]]
      /\ Opted' = [Opted EXCEPT ![r] = Opted[r]]
      /\ Tries' = [Tries EXCEPT ![r] = @ + 1]
  <2>1. PhaseOf("resolve_phrases", ran[r]) = "thinking"
    BY <1>2 DEF PhaseOf
  <2> QED BY <1>1, <1>2, <1>3, <1>4, <1>5, <2>1, KeptReturnIsSeen
<1>7. UNCHANGED <<Phases, Opted>>
  BY <1>6 DEF Phases, Opted
<1> QED
  BY <1>2, <1>4, <1>5, <1>6, <1>7
  DEF Contract!Consult, Phases, Opted, Tries, Records, MaxTries

\* The nodes that plan and compile: a stutter.
LEMMA PlanningIsQuiet ==
  ASSUME IInv, NEW r \in Requests,
         ResolvePhrases(r) \/ BuildPlan(r) \/ CompileSql(r) \/ AnalyzeResults(r) \/ GiveUp(r)
  PROVE  UNCHANGED mapped
<1> DEFINE Working == {"resolve_phrases", "build_plan", "compile_sql", "analyze_results", "give_up",
                       "repair_intent", "execute_sql", "record"}
<1>1. TypeOK /\ state[r] \in PipelineState /\ pc[r] \in Working
  BY DEF IInv, TypeOK, ResolvePhrases, BuildPlan, CompileSql, AnalyzeResults, GiveUp
<1>2. UNCHANGED <<ran, workspace, log>>
  BY DEF ResolvePhrases, BuildPlan, CompileSql, AnalyzeResults, GiveUp, catalogue
<1>3. PICK s, next : /\ Return(r, s, next) /\ next \in Working
                     /\ s.execute = state[r].execute /\ s.attempts = state[r].attempts
  <2> DEFINE Same(s) == s.execute = state[r].execute /\ s.attempts = state[r].attempts
  <2>1. CASE ResolvePhrases(r)
    <3>1. \A h : Same([state[r] EXCEPT !.resolved = h])
      BY <1>1 DEF PipelineState
    <3> HIDE DEF Same
    <3>2. \E s : Return(r, s, "build_plan") /\ Same(s)
      BY <2>1, <3>1, Zenon DEF ResolvePhrases
    <3> QED BY <3>2 DEF Same
  <2>2. CASE BuildPlan(r)
    <3>1. \A q, p : Same([state[r] EXCEPT !.query = q, !.problems = p])
      BY <1>1 DEF PipelineState
    <3>2. \A s : AfterPlan(s) \in Working
      BY DEF AfterPlan
    <3> HIDE DEF Same, Working
    <3>3. \E s : Return(r, s, AfterPlan(s)) /\ Same(s)
      BY <2>2, <3>1, Zenon DEF BuildPlan
    <3> QED BY <3>2, <3>3 DEF Same
  <2>3. CASE CompileSql(r)
    <3>1. \A p : Same([state[r] EXCEPT !.status = "failed", !.problems = p])
      BY <1>1 DEF PipelineState
    <3>2. \A c : Same([state[r] EXCEPT !.compiled = c, !.status = "ok"])
      BY <1>1 DEF PipelineState
    <3> HIDE DEF Same
    <3>3. \E s, next : Return(r, s, next) /\ Same(s) /\ next \in {"execute_sql", "record"}
      BY <2>3, <3>1, <3>2, Zenon DEF CompileSql
    <3> QED BY <3>3 DEF Same
  <2>4. CASE AnalyzeResults(r) \/ GiveUp(r)
    <3>1. Same([state[r] EXCEPT !.analysis = TRUE]) /\ Same([state[r] EXCEPT !.status = "failed"])
      BY <1>1 DEF PipelineState
    <3> HIDE DEF Same
    <3>2. \E s : Return(r, s, "record") /\ Same(s)
      BY <2>4, <3>1, Zenon DEF AnalyzeResults, GiveUp
    <3> QED BY <3>2 DEF Same
  <2> HIDE DEF Working
  <2> QED BY <2>1, <2>2, <2>3, <2>4
<1>4. PhaseOf(next, ran[r]) = PhaseOf(pc[r], ran[r])
  BY <1>1, <1>3 DEF PhaseOf
<1> HIDE DEF Working
<1> QED BY <1>1, <1>2, <1>3, <1>4, QuietReturn

\* A statement is run once, for a question that asked for it; a failure before
\* the warehouse began shows nothing.
LEMMA ExecutionIsMapped ==
  ASSUME IInv, NEW r \in Requests, ExecuteSql(r)
  PROVE  Contract!RunStatement(r) \/ UNCHANGED mapped
<1>1. /\ TypeOK /\ state[r] \in PipelineState /\ pc[r] = "execute_sql"
      /\ NodeInv("execute_sql", state[r], ran[r])
  BY DEF IInv, TypeOK, ExecuteSql
<1>2. ran[r] = 0 /\ state[r].execute /\ state[r].attempts > 0 /\ state[r].attempts \in Nat
  BY <1>1 DEF NodeInv, Compiled, Parsed, PipelineState
<1>3. UNCHANGED <<workspace, log>>
  BY DEF ExecuteSql, catalogue
<1>4. PICK s, next : /\ Return(r, s, next) /\ next \in {"record", "analyze_results"}
                     /\ s.execute = state[r].execute /\ s.attempts = state[r].attempts
  <2> DEFINE Same(s) == s.execute = state[r].execute /\ s.attempts = state[r].attempts
  <2>1. \A p : Same([state[r] EXCEPT !.status = "failed", !.problems = p])
    BY <1>1 DEF PipelineState
  <2>2. Same([state[r] EXCEPT !.result = TRUE])
    BY <1>1 DEF PipelineState
  <2> HIDE DEF Same
  <2>3. \E s, next : Return(r, s, next) /\ Same(s) /\ next \in {"record", "analyze_results"}
    BY <2>1, <2>2, Zenon DEF ExecuteSql
  <2> QED BY <2>3 DEF Same
<1>5. ran' = ran \/ ran' = [ran EXCEPT ![r] = 1]
  <2>1. ran' = ran \/ ran' = [ran EXCEPT ![r] = ran[r] + 1]
    BY Zenon DEF ExecuteSql
  <2> QED BY <1>2, <2>1
<1>6. CASE ran' = ran
  <2>1. PhaseOf(next, ran[r]) = PhaseOf(pc[r], ran[r])
    BY <1>1, <1>4 DEF PhaseOf
  <2> QED BY <1>1, <1>3, <1>4, <1>6, <2>1, QuietReturn
<1>7. CASE ran' = [ran EXCEPT ![r] = 1]
  <2>1. PhaseOf(next, 1) = "queried" /\ PhaseOf(pc[r], ran[r]) = "thinking"
    BY <1>1, <1>2, <1>4 DEF PhaseOf
  <2>2. Phases[r] = "thinking" /\ Opted[r] = state[r].execute /\ Tries[r] = state[r].attempts
    BY <2>1, QuestionIsSeen
  <2>3. /\ Phases' = [Phases EXCEPT ![r] = "queried"]
        /\ Opted' = [Opted EXCEPT ![r] = Opted[r]]
        /\ Tries' = [Tries EXCEPT ![r] = Tries[r]]
    <3>1. /\ Phases' = [Phases EXCEPT ![r] = PhaseOf(next, 1)]
          /\ Opted' = [Opted EXCEPT ![r] = s.execute]
          /\ Tries' = [Tries EXCEPT ![r] = s.attempts]
      BY <1>1, <1>4, <1>7, ReturnIsSeen
    <3> QED BY <1>4, <2>1, <2>2, <3>1
  <2>4. UNCHANGED <<Opted, Tries, Records>>
    BY <1>3, <2>3 DEF Opted, Tries, Records
  <2> QED
    BY <1>2, <1>3, <2>2, <2>3, <2>4 DEF Contract!RunStatement, Phases, Opted, Tries, Records
<1> QED BY <1>5, <1>6, <1>7

\* An exception, or a run that has no workspace left to be recorded in.
LEMMA FailureIsMapped ==
  ASSUME IInv, NEW r \in Requests, Raise(r) \/ Record(r)
  PROVE  Contract!Fail(r) \/ UNCHANGED mapped
<1>1. TypeOK /\ pc[r] \in Nodes \cup {"record"} /\ UNCHANGED <<ran, workspace, log>>
  BY DEF IInv, Raise, Record, catalogue
<1>2. PICK next \in {"commit", "error"} :
         Return(r, state[r], next) /\ (next = "commit" => pc[r] = "record")
  BY DEF Raise, Record
<1>3. CASE next = "commit"
  <2>1. PhaseOf(next, ran[r]) = PhaseOf(pc[r], ran[r])
    BY <1>2, <1>3 DEF PhaseOf
  <2> QED BY <1>1, <1>2, <2>1, QuietReturn
<1>4. CASE next = "error"
  <2>1. PhaseOf(next, ran[r]) = "failed" /\ PhaseOf(pc[r], ran[r]) \in {"thinking", "queried"}
    BY <1>1, <1>4 DEF PhaseOf, Nodes
  <2>2. /\ Phases[r] \in {"thinking", "queried"}
        /\ Opted[r] = state[r].execute /\ Tries[r] = state[r].attempts
    BY <2>1, QuestionIsSeen
  <2>3. /\ Phases' = [Phases EXCEPT ![r] = "failed"]
        /\ Opted' = [Opted EXCEPT ![r] = Opted[r]]
        /\ Tries' = [Tries EXCEPT ![r] = Tries[r]]
    BY <1>1, <1>2, <2>1, <2>2, KeptReturnIsSeen
  <2>4. UNCHANGED <<Opted, Tries, Records>>
    BY <1>1, <2>3 DEF Opted, Tries, Records
  <2> QED
    BY <1>1, <2>2, <2>3, <2>4 DEF Contract!Fail, Phases, Opted, Tries, Records
<1> QED BY <1>2, <1>3, <1>4

\* The answer and its record, in one step, and saying what happened.
LEMMA CommitIsMapped ==
  ASSUME IInv, NEW r \in Requests, Commit(r)
  PROVE  \E status \in {"failed", "executed", "compiled"} : Contract!Answer(r, status)
<1>0. PICK status \in {"failed", "executed", "compiled"} : status = RunStatus(state[r])
  BY DEF RunStatus
<1>1. /\ TypeOK /\ LogInv /\ pc[r] = "commit" /\ NodeInv("commit", state[r], ran[r])
      /\ state[r] \in PipelineState /\ ran[r] \in Nat /\ UNCHANGED <<ran, workspace>>
  BY DEF IInv, TypeOK, Commit, catalogue
<1>2. workspace
  BY <1>1 DEF LogInv
<1>3. Coherent(state[r]) /\ RunOnce(state[r], ran[r]) /\ state[r].attempts > 0
  BY <1>1 DEF NodeInv, Ending, Parsed
<1>4. Return(r, state[r], "answered") /\ log' = log \cup {QueryRun(r, state[r])}
  BY DEF Commit
<1>5. /\ Phases[r] = IF ran[r] = 0 THEN "thinking" ELSE "queried"
      /\ Opted[r] = state[r].execute /\ Tries[r] = state[r].attempts
  BY <1>1, QuestionIsSeen DEF PhaseOf
<1>6. /\ Phases' = [Phases EXCEPT ![r] = "answered"]
      /\ UNCHANGED <<Opted, Tries>>
  <2>1. PhaseOf("answered", ran[r]) = "answered"
    BY DEF PhaseOf
  <2>2. /\ Phases' = [Phases EXCEPT ![r] = "answered"]
        /\ Opted' = [Opted EXCEPT ![r] = Opted[r]]
        /\ Tries' = [Tries EXCEPT ![r] = Tries[r]]
    BY <1>1, <1>4, <1>5, <2>1, KeptReturnIsSeen
  <2> QED BY <2>2 DEF Opted, Tries
<1>7. Records' = Records \cup {[request |-> r, status |-> status]}
  <2>1. QueryRun(r, state[r]).request = r /\ QueryRun(r, state[r]).status = status
    BY <1>0 DEF QueryRun
  <2> HIDE DEF QueryRun
  <2> QED BY <1>4, <2>1 DEF Records
<1>8. \/ status = "failed"
      \/ status = "executed" /\ Phases[r] = "queried"
      \/ status = "compiled" /\ Phases[r] = "thinking" /\ ~Opted[r]
  BY <1>0, <1>1, <1>3, <1>5 DEF RunStatus, Coherent, RunOnce, PipelineState
<1>9. Phases[r] \in {"thinking", "queried"} /\ Tries[r] > 0
  BY <1>3, <1>5
<1>10. Contract!Answer(r, status)
  BY <1>1, <1>2, <1>6, <1>7, <1>8, <1>9 DEF Contract!Answer, Phases, Opted, Tries, Records
<1> QED BY <1>10

\* Of what other sessions do the contract sees the end of the workspace.
LEMMA ModellerIsMapped ==
  ASSUME IInv, Modeller
  PROVE  Contract!Close \/ UNCHANGED mapped
<1>1. UNCHANGED <<Phases, Opted, Tries>>
  <2>1. UNCHANGED <<pc, state, ran>>
    BY DEF Modeller, DefineMetric, DropMetric, RebuildIndex, RebindVersion, DeleteSource,
       DeleteWorkspace
  <2> QED BY <2>1 DEF Phases, Opted, Tries, Phase
<1>2. CASE DeleteWorkspace
  <2>1. workspace /\ workspace' = FALSE /\ Records' = {}
    BY <1>2 DEF DeleteWorkspace, Records
  <2> QED BY <1>1, <2>1 DEF Contract!Close, Phases, Opted, Tries, Records
<1>3. CASE ~DeleteWorkspace
  <2>1. UNCHANGED <<workspace, log>>
    BY <1>3 DEF Modeller, DefineMetric, DropMetric, RebuildIndex, RebindVersion, DeleteSource
  <2> QED BY <1>1, <2>1 DEF mapped, Records
<1> QED BY <1>2, <1>3

-----------------------------------------------------------------------------
LEMMA NextIsMapped == IInv /\ [Next]_vars => [Contract!Next]_mapped
<1> SUFFICES ASSUME IInv, [Next]_vars PROVE Contract!Next \/ UNCHANGED mapped
  OBVIOUS
<1>1. CASE UNCHANGED vars
  BY <1>1 DEF vars, catalogue, mapped, Phases, Opted, Tries, Records, Phase
<1>2. CASE Modeller
  BY <1>2, ModellerIsMapped DEF Contract!Next
<1>3. CASE \E r \in Requests : Ask(r) \/ Proceed(r) \/ Raise(r)
  <2>1. PICK r \in Requests : Ask(r) \/ Proceed(r) \/ Raise(r)
    BY <1>3
  <2>2. \/ Contract!Accept(r) \/ Contract!Refuse(r) \/ Contract!Consult(r)
        \/ Contract!RunStatement(r) \/ Contract!Fail(r)
        \/ \E status \in {"failed", "executed", "compiled"} : Contract!Answer(r, status)
        \/ UNCHANGED mapped
    BY <2>1, AskIsMapped, ParsingIsMapped, PlanningIsQuiet, ExecutionIsMapped, FailureIsMapped,
       CommitIsMapped DEF Proceed
  <2> QED BY <2>2 DEF Contract!Next
<1> QED BY <1>1, <1>2, <1>3 DEF Next

\* Every run of the pipeline is one the endpoint's contract allows.
THEOREM PipelineImplementsContract == Spec => ImplementsContract
<1>1. IInv /\ [Next]_vars => [Contract!Next]_Contract!vars
  BY NextIsMapped, Zenon DEF mapped, Phases, Opted, Tries, Records, Contract!vars
<1> QED
  BY <1>1, InitIsMapped, Invariant, PTL DEF Spec, ImplementsContract, Contract!Spec
=============================================================================
