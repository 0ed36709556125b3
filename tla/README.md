# Semantic-Model: a verification project

TLA+ models of the FastAPI service in `src/app`, TLC configurations that check
them on small instances, and TLAPS proofs of what matters most for every value
of the constants. Everything here is translated from the source; `PROJECT.json`
maps each definition to the lines it stands for.

The service answers natural-language questions with SQL over customer
warehouses. A modeller describes a warehouse as *entities*, *relationships*,
*dimensions*, *measures*, *metrics* and *business rules*. A question goes
through a language model (intent), a search index (phrases to objects), a plan
builder, a compiler (plan to SQL) and, if asked for, the warehouse; the run is
then recorded.

## 1. Inventory

| Component | State it keeps | Operations | Talks to |
|---|---|---|---|
| **Question pipeline** `services/pipeline.py`, `api/ask.py` | a `PipelineState` dict per question, which every node of the graph merges its result into | eight nodes, three routing functions, `answer()`, `POST /api/ask` | all of the below, by calls |
| **Audit** `services/audit.py`, `query_runs` | one row per recorded run | `record()`; the handler commits | workspace row (foreign key) |
| **Intent parsing** `services/intent.py` | none | `understand()`, `repair()`: external model | network |
| **Phrase resolution** `services/resolution.py` | none | `resolve()` | search index |
| **Retrieval** `services/retrieval.py`, `semantic_search_index` | a copy of names, synonyms and vectors, without foreign keys | `rebuild_search_index()`, search, rank fusion | model tables, embedder |
| **Plan building** `services/query_ir.py`, `timeframe.py` | none | `build()` | resolution |
| **Timeframes** `services/timeframe.py` | none | `resolve_timeframe()` | plan building |
| **Compiler** `services/compiler.py` | locals of one compilation | `compile()`: load, required entities, joins, rules, render | model tables, several statements each with its own snapshot |
| **Join planning** `services/joins.py` | locals of one search | `resolve_join_path()` | `entities`, `relationships` |
| **Metric graph** `services/metrics.py`, `metric_references` | the edges of each metric, beside `metrics.expression` | `set_expression()`, `assert_no_cycle()`, `assert_name_available()` | other writers, through the database |
| **Execution** `services/execution.py` | none | `data_source_for()`, `execute()` | warehouse engines |
| **Warehouse engines** `services/warehouse.py` | a process-wide `OrderedDict` of engines, least recently used first | `get_engine()`, `verify_connection()` | every thread of the process; `data_sources` rows |
| **Document index** `services/indexing.py`, `chunking.py`, `embeddings.py` | `documents`, `document_chunks` with hashes and vectors | `rebuild_chunks()`, `pending_chunks()`, `embed_chunks()`, `embed_pending()` | other sessions, through the database; encoder |
| **Result analysis** `services/analysis.py` | none | `analyse()` | rows |
| **Expression validation** `services/expressions.py`, `sql_expressions.py` | none | two validators, two parsers, `emit()` | metric graph, compiler |
| **Tenancy** `api/auth.py`, `api/deps.py`, `services/tenants.py`, `api_keys.py`, `workspaces.py` | keys, tenants, workspaces; a tenant setting local to the transaction | issue, verify, revoke, create, delete; row-level security | every handler; the pool of connections |
| **Wiring** `main.py`, `core/*`, `schemas/*`, `scripts/*` | configuration | — | — |

**How they interact.** There are no queues and no callbacks. Handlers are plain
functions run in a thread pool; each has a SQLAlchemy session of its own
(`core/db.py`: no autoflush, nothing expired on commit) on PostgreSQL at READ
COMMITTED. Components therefore meet in three places only: the database, where
each *statement* has its own snapshot; the state dict the nodes of one question
share; and the engine cache, which all threads share without a lock.

**What is hard.**

- *Check, then write.* `assert_no_cycle()` and `assert_name_available()` read
  what is committed and write later; no constraint backs them.
- *Several statements, several snapshots.* A compilation reads rules twice and
  the graph in two statements; a modeller's commit can fall between any two.
- *Read, wait, write.* Chunks are read, sent to an encoder, and written when
  others may have replaced them; a plan names metrics that may be gone.
- *A loop over one mutable state.* The repair loop re-enters the graph with
  whatever the last attempt left in the state.
- *Paid or irreversible calls* (language model, warehouse) around a loop, a
  failure, and a record written afterwards.
- *Locals of a thread and a shared dict.* `get_engine()` pops, creates, puts,
  trims and evicts in separate steps.
- *Order that nobody fixes*: rows without ORDER BY, iteration over sets.
- *Connections are reused.* The tenant of a request is a setting of a
  transaction on a connection that the next request gets.
- *Collections a session keeps.* A session that rebuilds the search index twice
  deletes what it loaded the first time, whatever others did since.
- *Boundaries*: month arithmetic over year ends, cuts of a text at an overlap,
  equal scores, a `-` before a `-`.

**What makes each component correct.** Pipeline: a coherent answer, of the last
intent, at most one statement run, a bounded loop, and a record of what was
answered. Metric graph: acyclic, edges equal to the expression's names, only
cycles refused. Join planning: a tree in dependency order, over shortest
chains, refused only when impossible. Compiler: every column has its alias,
every rule in force applies, no total is multiplied. Engines: the engine of the
key, a bounded cache, nothing disposed handed out. Document index: chunks of
one text, vectors of their chunk, staleness visible. Search index: one row for
each object of the model, and a name finds what is called so. Tenancy: no request in
another's scope, no caller beyond its tenant, no untrue answer. Plan building:
a plan of all the question or every problem in it, time filtered on the only
time dimension there is. Timeframes: the periods phrases name, to the day.
Expressions: SQL that means what was written, and edges for exactly its names.
Chunks: no text lost, and a loop that gets on. `PROJECT.json` lists the
hazards one by one, at their lines, with the properties that cover them.

## 2. Plan

The order puts what the service answers and stores first, its helpers next.

| # | Module | Composes | State |
|---|---|---|---|
| 1 | `Pipeline` | catalogue of other sessions | done, proved |
| 2 | `AskContract`, `PipelineContract` | abstract specification of the endpoint, and the refinement | done, proved |
| 3 | `MetricGraph` | — | done, proved for one writer at a time |
| 4 | `JoinPath` | — | done, proved |
| 5 | `Compiler` | `JoinPath` | done, less the rendering; proved |
| 6 | `MetricExpansion` | (edges as `MetricGraph` stores them, one writer or two) | done, proved |
| 7 | `EngineCache` | — | done, proved |
| 8 | `DocumentIndex` | — | done, proved |
| 9 | `SearchIndex`: concurrent `rebuild_search_index()`; `RankFusion` | — | done, proved |
| 10 | `Tenancy`: keys, the tenant setting, row-level security, cascades | — | done, proved |
| 11 | `QueryPlan` (while modellers edit), `Timeframe`, `Expressions`, `ExpressionSql`, `Chunking` | `QueryPlan` extends `Timeframe`, `ExpressionSql` extends `Expressions`; `MCFunctions` composes them | done; proved, but for `ExpressionSql` |

Left: the rendering of SQL by the compiler, `assert_name_available()` once there
is code that creates measures and metrics, and a proof that the SQL emitted means
what was written (it is by induction over the expression, and stays with TLC).

## 3. The modules and the code

Every module has one action per node, handler or statement; its guard is the
code's condition, early return or the wait of PostgreSQL. Operators whose
comment starts with "Mutation of" are wrong variants of the definition below
them; `PROJECT.json` pairs each with the property it violates, which shows that
the property says something about the code.

**`Pipeline`.** `pc[r]` is the graph node (or `record`/`commit` of the handler)
question `r` executes next, `state[r]` its `PipelineState`. `Ask` is `ask()` up
to `answer()`; `UnderstandIntent`, `RepairIntent`, `ResolvePhrases`,
`BuildPlan`, `CompileSql`, `ExecuteSql`, `AnalyzeResults`, `GiveUp` are the
nodes, with the routing function folded into the node it follows; `Raise` is
any exception no node catches; `Record` is the flush of the audit row and
`Commit` the commit. `Modeller` is every other session: metrics defined and
dropped, the search index rebuilt, the version rebound, the data source or the
workspace deleted with its cascade. Data is abstracted to what the properties
tell apart: an intent is "declined" or a set of phrases, a plan the metric each
phrase stands for, SQL the plan it was compiled from, a problem its kind.
`bound` in the state stands for the version object in the session's identity
map, which is why a rebind during the question is not seen by execution and a
deleted data source is.

**`AskContract`** states what the endpoint promises in four phases and knows no
graph. **`PipelineContract`** maps the pipeline's state to it.

**`MetricGraph`.** `refs` is `metric_references`, `expression` the set of names
of each stored expression, `tx[w]` the transaction of a session in
`set_expression()`. The DELETE is two actions: its snapshot, and its end once
the rows of that snapshot are unlocked, since a row another session inserted
after the snapshot is not deleted. The flush waits for another update of the
same metric row. **`MCRacedMetricGraph`** starts two writers in a graph that is
already cyclic.

**`JoinPath`.** `path` holds the locals of `resolve_join_path()`; an action is
one turn of a loop, choosing any relationship row and any needed entity next.
**`Compiler`** EXTENDS it: `q` holds the compilation's locals, one action per
statement, and the modeller's commits (`Edit`) fall anywhere between them.
`standing` is a history variable: the rules in force ever since the compilation
began.

**`MetricExpansion`** has the compiler's two recursions over the metric graph as
one machine with an explicit `stack` of calls, each with what its loop has left.
The first follows `references`, the edges stored, the second `names`, what the names
of the expressions stand for. They may differ in any way: an edge is deleted with
its target while the expression keeps the name, two writers leave the edges of both,
and the two are read by statements of their own. An action is a turn of the innermost loop or a return: `ExpandMeasure`,
`ExpandMetric` and `ExpandReturn` of `_measures_for_metric()`, with the one `seen`
all its calls share, then `RenderMeasure`, `RenderMetric` and `RenderReturn` of
`_metric_sql()`, whose `seen` is the path (`OnPath`). Edges and names are taken in
any order. `loaded` are the objects the compilation's own statements returned: an
edge to anything else is refused (`stage` "refused"), a name for nothing fails
("failed"). `joined` are the measures whose entities the query joins, those found
and any others its other metrics, dimensions and rules bring in: the alias of
another is a KeyError ("raised").

**`EngineCache`.** `engines` is the OrderedDict as a sequence of entries, `call`
the locals of each thread. One dict operation is one action, since each is
atomic under the interpreter lock. An engine is identified by the details it
was created from. `disposed` remembers evicted engines as long as anything
refers to them. `edit` is a transaction that edits a data source, whose
`updated_at` is the transaction's `now()`.

**`DocumentIndex`.** One document, its chunks, and sessions that rebuild, embed,
commit or roll back at any point, while others edit and delete the document.
`LocksChunk` and `LocksDocument` are PostgreSQL's row locks, `Collides` the
unique constraint on (document, ordinal). A hash is the text it is of (assuming
no collision); where `chunk_text()` cuts is the constant `Pieces`.

**`SearchIndex`.** `index` is the committed rows of one version, `session[s]` what
a session that rebuilds holds: the rows it made from four reads, the collection
it loaded, and what it has deleted and inserted. `DeleteRow`, `Deleted` and
`InsertRow` are the two flushes; `InsertWaitsFor` and `DeleteWaitsFor` are
PostgreSQL's waits for whoever touched the same key. The version goes with its
workspace in steps as well: `LockVersion`, which waits for those who hold its key for
rows they inserted, `CascadeRow`, which waits for those who deleted a row, and
`CommitDeletion` or `RollbackDeletion`. An insert waits for it (`WaitsForDeletion`), so
a deletion that locks the version between the two flushes is deadlocked with the
rebuild; `DeadlockDetected` is PostgreSQL's remedy. After its commit a
session keeps the collection, since nothing expires. `alone`, `overtaken`,
`stale` and `outdated` are history, for the properties.

**`RankFusion`** has `retrieve()`'s fusion of three ranked lists, with scores as
exact fractions over the common denominator `Scale`, which order lists of this
length as the code's floats do, and `_resolve_one()`. `search` holds the locals of a
call: one action per statement (`Statement`, whose answer is any list of rows, so
the index may be rebuilt between two), then `Fuse` and `ResolveOne`. `MIN_SCORE` is
0.008, and the last of 20 candidates of the weakest list already scores 1/80, so
it refuses nothing and does not appear. `_exact()` compares names only, although
`retrieval.py:5` speaks of names and synonyms; the model takes the code's word.

**`Tenancy`.** `request[r]` is a request of any route with any key, one action per
statement: verification (`Verify`), the tenant setting (`Scope`), the first read
(`Handle`), the UPDATE of `last_used_at` (`Touch`) and the INSERT or DELETE in the
order in which a flush writes the tables, the refresh and the commit. `connections[c]` is a
connection of the pool with the setting of its transaction, given back by
`EndTransaction`. `Visible` is the policy of the migration. Row locks make
statements wait (`WaitsFor`), and PostgreSQL aborts one of those who wait for
each other. `Revoke` and `Issue` are other sessions.

**`QueryPlan`.** `build` holds the locals of `build()` and the rows its session has
read: `filters` and `phrase` are the filters and the time phrase of the question,
`grouped` the dimensions it groups by. `Declare`, `DropDimension` and `DropEntity`
are modellers' commits between its statements; `dropped` says which ids were in
use before, because an id is a UUID and never used again; `today` is the day the
call resolves its phrase on. It extends **`Timeframe`**, where a date is its ordinal
and a phrase a record that says which of the grammar's forms it has; a date outside
the calendar is an exception, as in Python.

**`Expressions`** takes an expression as a sequence of items (a name, a reference,
a number, a sign, or white space: "blank" for a space or a tab, which the validators
allow, "newline" for the rest, which only the parsers skip). Both validators are operators on it. The recursive
descent is a machine: `parsing.stack` has the calls that await an operand, each with
its operator ("(" for `_factor()` in parentheses, "negate" for its sign) and its left
operand; `pc` says which method the token or the returned `node` is for. `Open`,
`Atom` and `NoFactor` are `_factor()` at a token, `Operate` is another turn of a loop,
`Combine` and `Negated` are what is done with an operand that returned, `TermReturns`,
`Close` and `ParseEnds` what follows a loop. A node is written in Polish notation.
**`ExpressionSql`** extends it with `emit()` and with `Reading`, an independent
reference, which splits at the last operator of the lowest rank; what is recursive is
kept there. **`Chunking`** has a turn of `chunk_text()`'s loop per
action; a chunk is the interval of the text it holds.

**`MCFunctions`** composes what decides and keeps no state: a behaviour is one call
of one function (`function`), on every input of a small set; what is not called
stays as it is. It EXTENDS `JoinPath`, `MetricExpansion`, `Chunking`, `QueryPlan` with
`Timeframe`, `RankFusion` and `Expressions`, which the proof modules extend too, and
`ExpressionSql`.

## 4. The runs

`SYMMETRY` is used only in runs without liveness properties and over sets whose
members the modules treat alike. `CHECK_DEADLOCK FALSE` appears where the
system may really stop: every question answered, every compilation ended, the
document or the version deleted, every request answered, each racing writer done.
The other runs check deadlock.

Type invariants are not among the runs' properties, which are all about hazards:
those of `Pipeline`, `MetricGraph`, `EngineCache`, `DocumentIndex`, `JoinPath`,
`Compiler` (`CompilerTypeOK`), `SearchIndex`, `Tenancy`, `QueryPlan` (`PlanTypeOK`) and
`Chunking` (its `TypeInv`) are proved.

| Run | Question it asks | Bounds, and why they are enough | States |
|---|---|---|---|
| `pipeline` | Is the answer coherent, of the last intent, of live metrics, run at most once, on record, and always reached? Does the pipeline implement its contract? | 1 question, 2 metrics, 2 phrases, 2 attempts: the loop goes round, a phrase fails to resolve while another resolves, two phrases share a metric, and a metric disappears between search and compilation. Questions share only the catalogue and the log; that records and the contract do not depend on their number is proved, and `MCPipeline_two.cfg` checks two. | 106 k |
| `graph_serial` | Do writes one after another keep the graph acyclic and its edges equal to the expressions, and is only a cycle refused? | 4 metrics: diamonds, cycles of every length to 4, rewrites. | 169 k |
| `graph_ends` | Does every write end, even on a graph with a cycle, and do writers never wait for each other? | 2 writers, 3 metrics, one write each; fairness below. | 42 k |
| `functions` | Are the functions that keep no state right on every input? Joins form a tree over shortest chains and the search returns; the recursions of the compiler agree; chunks cover the text; a plan has all of the question; ranges are whole periods; SQL means the expression; exact names win. | joins: every subset of 7 ordered pairs over 4 entities, every set of needed and lost entities, every order of rows (chains of 3, two routes of equal and of different length). Metrics: every stored graph of up to 4 references over 3 metrics and 2 measures and every order of edges and names: diamonds, cycles on and off the way, a metric without measures; with nothing missing or any one object, which edges lead to or only names of any of the metrics stand for, or, where a metric has no edges, a name more or a name less than edges in any one metric; and with any measures joined besides. Chunks: texts of up to 6 of 4 characters, sizes 3 and 4, every overlap. Plans: 3 dimensions of 2 entities, up to 2 filters of values that read as numbers, as dates or as neither, a dimension grouped by or not, one commit of a modeller at any point. Timeframes: every day of a leap year and the month before, counts of 0, 1, 2, 12 and 14, a calendar of 2022 to 2025, which counts of days stay in and counts of months leave. Expressions: in both grammars up to 4 of 10 items (a name, a reference, a number, three operators, parentheses, a blank, a newline), and in the metric grammar 5 or 6 of 6 (two references, `-`, `*`, parentheses), which nest, negate and mix ranks. Fusion: every three lists of up to 2 of 4 rows, the first 2 hits. | 1.23 M |
| `compiler` | Do columns have aliases, rules apply, and single-fact totals stay right while a modeller commits? | 3 entities in a star with a many-to-one, a one-to-many and a keyless relationship, 1 measure, 2 commits at any two points. | 1.33 M |
| `engine` | Is the engine of the key, the cache bounded, nothing disposed handed out, no KeyError? | 2 threads, 3 data sources, 2 places, one transaction with 2 changes: an eviction of an engine in use, a key evicted and put back, and two keys of one source. | 227 k |
| `document_index` | Are chunks of one rebuild, vectors of their chunk and encoder, staleness visible? | 2 sessions, texts of 0, 1 and 2 chunks, 2 encoders, limits of one or all chunks. | 455 k |
| `search_index` | Does a rebuild leave exactly the model, and does it fail only because of another, or of a deletion? | 2 sessions that rebuild twice each, 2 objects of one table, 1 name, 1 synonym, 2 commits of modellers: two rebuilds meet at every step, a session's collection goes stale, the version is locked, deleted or kept under them. | 915 k |
| `tenancy` | Does every request stay in its tenant, and is it told the truth? | 2 requests of any routes over 2 connections, 2 tenants, 3 keys of which one is an admin's and shares a prefix with another tenant's, one name: two creations of the name, a creation against the deletion of its tenant, a revocation at any point, a connection used by both. | 1.45 M |
| `graph_cycle` | violation, see below | 2 writers, 2 metrics | |
| `compiler_totals` | violation, see below | 2 measures, no commit | |
| `expansion_diamond` | violation, see below | 3 metrics, 1 measure | |

`NoKeyError` is stated with its condition: eviction checks the size and pops
later, and between the two each other thread can evict one entry and then hold
another it popped on a hit. So the dict is never found empty if it has two
places for each other thread. The code's 32 places cover 17 threads; the
server's default pool has 40.

**Fairness.** `Pipeline`: weak fairness of what a handler does next, because
its thread runs it until it returns; no fairness for clients, modellers or
exceptions. `MetricGraph`: weak fairness of a started session, and strong
fairness of the two steps that wait for a row, because PostgreSQL queues
waiters and others cannot overtake for ever. `MCFunctions`: weak fairness of the
four calls that might go on for ever (the search for joins, the expansion of a
metric, the loop over a text, the descent of the parser), each of which its thread
runs until it returns.
All other properties are safety and assume none.

### What the code does not keep

Three runs expect a violation, of a statement of the repository:

1. `graph_cycle`, `Acyclic`. `metrics.py:3` has cycles "detected once, when a
   metric is written". Two sessions that write `a` and `b` at the same time both
   pass the check before either commits, and store `a -> b -> a`.
2. `compiler_totals`, `NoTotalIsMultiplied`. `compiler.py:343-347` refuses a
   plan that "double-counts the totals", but looks for fan-out from the first
   measure's entity only. A sum over customers beside a sum over orders is
   compiled, and repeats each customer once per order.
3. `expansion_diamond`, `OnlyCyclesAreRefused`. `tests/test_metrics.py:233` says
   "a diamond is not a cycle" and the write accepts it; the compiler shares one
   `seen` between the branches and raises "depends on itself".

More configurations, outside the listed runs, show smaller ones; each ends in a
counterexample:

| Configuration | Statement | What happens |
|---|---|---|
| `MCPipeline_recorded.cfg` | tests/test_ask_api.py:125, a run is recorded for every question | an exception no node catches leaves no row |
| `MCPipeline_missing.cfg` | compiler: "metrics no longer exist" | two phrases for one metric are reported so |
| `MCMetricGraph_edges.cfg` | edges are the expression's names | two writers of one metric leave both sets of edges |
| `MCFunctions_raises.cfg`, its invariant `SmallestTree` | joins.py: "smallest tree" | shortest chains, united, are not always a smallest tree |
| `MCFunctions_raises.cfg`, its invariant `RenderingNeverRaises` | compiler.py:150, joins are for "every measure a metric ultimately depends on" | a measure dropped and created again under its name is named without an edge; its alias is a KeyError |
| `MCEngineCache_details.cfg` | any change makes a new engine | two changes in one transaction share a key |
| `MCDocumentIndex_current.cfg` | indexing.py:22, from its current content | a session rebuilds from content it loaded before another's edit |
| `MCFunctions_raises.cfg` | query_ir.py: problems are reported "rather than" raised | "last 99999 months" leaves the calendar; an entity dropped before it is read is None |
| `MCFunctions_grammars.cfg` | an expression that is stored can be compiled | the validators accept `a a` or `a +`, the parsers do not |
| `MCFunctions_kinds.cfg` | a name of the expected kind resolves | objects of other kinds with the name fill the hits looked at |
| `MCSearchIndex_vanishing.cfg` | an indexed object stays indexed | a rebuild that read the model first commits last |
| `MCSearchIndex_again.cfg` | a rebuild alone succeeds | the session deletes the collection it loaded before another's rebuild, and meets the constraint |
| `MCSearchIndex_again.cfg` with one session and the invariant `FailsOnlyIfDeleted` | a rebuild without rivals fails only if its version goes | a deletion locks the version between the two flushes, and PostgreSQL aborts the rebuild |
| `MCTenancy_lastuse.cfg` | last use only moves forward | requests commit in another order than they were verified in |

## 5. The proofs

The theorem modules assume nothing but the named ASSUMEs on constants that the
modules declare (`MaxAttemptsAssumption`, `NoneAssumption`,
`NamespaceAssumption`, ...), which TLC evaluates in the runs, and the
hypotheses each theorem states.

**`PipelineProofs`**, for any questions, metrics, phrases and `MaxAttempts`. The
properties are not inductive: that SQL is of the last intent depends on what
`compile_sql` receives, which depends on where `build_plan` may send it. The
inductive invariant `IInv` is `TypeOK`, a `NodeInv` per question that says what
the state holds when each node is about to run (nothing compiled or run while
the loop goes round; the query is the resolution of the current intent when
compilation starts; and so on), and `LogInv` (rows of the log and questions
answered correspond). One lemma per node shows it keeps `IInv`. From it follow
`TypeCorrect`, `AnswersAreCoherent`, `SqlFollowsIntent`, `WarehouseRunsOnce`,
`ParserIsBounded`, `AnswersAreRecorded`, and the action properties
`ParserComesFirst` and `CompiledMetricsAreLive` (the last for finitely many
phrases, because the code counts rows). `PipelineImplementsContract` is proved
with the same invariant: initial states map to initial states, and under `IInv`
every node maps to one step of `AskContract` or to a stutter.

**`MetricGraphProofs`** proves `TypeCorrect` for any number of writers, and for
one writer at a time `SerialWritesKeepAcyclic`, `SerialWritesKeepEdges` and
`SerialWritesRefuseOnlyCycles`. The strengthening says what the walk has
established: every metric seen has its targets in `seen` or the frontier and does
not depend on the metric written, so when the frontier is empty no cycle can go
through the new edges. Conversely, what is in the frontier is on a way from the
metric written, so a walk that comes back to it has found a cycle
(`WalkIsReached`). With two writers the first two are false (`graph_cycle`,
`MCMetricGraph_edges.cfg`), and what a walk found may be gone when it refuses.

**`DocumentIndexProofs`**, for finitely many sessions and any texts, encoders and
cuts, proves all four properties of the run. That the chunks are of one rebuild
rests on what sessions hold, not on the table alone. The inductive invariant
says, per session, that a row it has written is locked, and so still there
(`LoadedInv`); and that a session which has inserted rows has deleted every
other row, is the only one to have inserted any, and holds rows nobody else has
seen (`AddedInv`), because the unique constraint makes a second inserter wait
and then fail.

**`EngineCacheProofs`**, for finitely many threads and any data sources, limit
and number of edits, proves all six properties of the run. `KeysInv`: entries
are under the key of their engine, one to a key, and so are the engines threads
hold. `OpenInv`: an engine about to be put back is out of the cache, open, and
held to be put by one thread. `DetailsInv`: the numbers the model gives to edits
tell changes apart when there is one to a transaction. `NoKeyError` needs a
count (`PlacesInv`): a thread that found the dict too large saw more than
`MaxCached` keys, in the dict or about to be put into it; every thread that has
stopped evicting since has taken one at most; so at an empty dict more threads
would be needed to hold the keys that are missing than there are.

**`TenancyProofs`**, for any requests, connections, tenants, keys and names, proves
all four properties of the run and the types. That a request stays in its tenant
is a matter of who holds what: `PoolInv` says that an active request holds one
connection, that a free one has no setting, and from which step on the setting
is the principal's; `SessionInv` that a request has the key and tenant of its
secret, and that rows it holds are of that tenant. That answers are true needs
locks: `LockInv` says that a key in the table is of a live tenant and that no
deletion is at its commit while a transaction holds the key's row, so a commit
never brings a dropped key back; `CreatedInv` that a new workspace appears with
its answer.

**`FunctionProofs`** is about the functions that keep no state. For every text, size
and overlap, chunks cover the text and get on (`TextIsCovered`, `PiecesGetOn`): the
text up to where the pieces reach is covered, and the next piece begins before
that point. This rests on lemmas about the least and greatest of a set of
positions, from the well-foundedness of the naturals, and on `SplitPoint` staying
in its window.

For any filters and phrases, and any number of commits between the statements of
`build()`, plans are complete and their time is unambiguous (`PlansAreComplete`,
`TimeIsUnambiguous`). `FiltersInv` says that the problems reported so far are those
of the filters judged so far. What made a filter wrong must still be so at the
end, hence `FieldsInv`: a dimension that was not found has been dropped, and
dropped ids do not come back. `TimeInv` says what is known of the candidates; they
are counted, so the theorems are for finitely many dimensions. That
`PlanOrEveryProblem` needs `FieldsInv` came out of the proof: without `dropped` the
run passed only because no value of it read as a date.

`PlannedRangesAreWhole` (`RangesAreWhole`) says of every plan that its time range is
the period of its phrase; `RangeInv` has only to remember where the range came from.
The work is in `RangesAreTheirPeriods`, which holds for any day of any calendar
(`CalendarAssumption`) and any phrase. Months are counted from the year 0, so that `MonthStart` is a strictly
growing function of one number whose values partition the calendar
(`MonthOfDate`), `Year` and `Month` invert it (`PartsOf`), and adding months is adding
to that number (`AddedMonths`). `Periods` then says of every unit that its period
holds the date and ends where the next begins.

`ExactMatchesWin` (`ExactNameWins`) holds for lists of any length and any limit. No vote is worth
more than the first place of its list, so a row without an exact match has at most
the score of the first exact match (`Scores`), which is met before it; and some
key is before all others (`BestKey`).

`ParsersAndValidatorsAgree` (`StoredAsParsed`) is about two programs that never see each
other's result: the validators look at an expression as text, the parser token by
token. It holds for expressions of any length and depth and any names and numbers
(`ItemsAssumption`: items are told apart by their spelling). `ParseInv` says what the
descent has established of the tokens taken: each was accepted by the tokenizer
(`TakenInv`); the parentheses open are those of calls on the stack, and never fewer
than none (`NestingInv`), which makes what is parsed balanced; every atom taken is in
the node returned last or in an operand that waits (`AtomsInv`), so none is lost or
invented; and no "(" follows a name but for white space (`CallsInv`), because a name is an
operand and a "(" can only be met where an operand is due. `AfterToken` and `Taking`
carry these over one token, whichever method takes it.

**`CompilerProofs`** is about the search for joins, the compilation around it, and
the expansion of metrics. For any graph it proves `PlansCanBeEmitted` (`PlanIsATree`). The walk
back from an entity ends at what is joined, without meeting itself, because
entities can be ranked so that each is above its parent (`RankInv`): the search
gives every new entity a rank above all it has. `ChainInv` says what the chain
is; `OrderInv` and `NeededInv` what the plan has so far.

`PlansAreBreadthFirst` (`ShortestChains`) needs more than a rank: the number of
steps to the root. `Levels` says that there is a `level` for which parents are one
below, the frontier is of one level or of two adjacent ones, in order, and an
entity that left the frontier has its neighbours at most one level above.
The reference notions `Within` and `Depth` are recursive functions. What they
compute is proved without induction over data: a function is exhibited that
solves the defining equation, and two solutions agree, since there is no least
argument at which they differ (`WithinIsByLevel`, `DepthIsLevel`). These notions
count to `Cardinality(Entities)`, so the theorem is for finite graphs, and
`LevelsAreFew` shows that no level is beyond that number.

While modellers commit between the statements of a compilation, three properties
hold for any number of commits. `CompileInv` carries what each statement has
established: the rules in force ever since the beginning are among those
collected, their entities are required, what is required is needed by the search,
and a plan is rendered only if no step fans out. `StandingRulesAreApplied` and
`ColumnsAreJoined` follow from it and `PlanIsATree`. `SingleFactsAreCountedOnce`
is about chains of joins, so `AncestorsStep` computes `Ancestors` the way `Depth` is
computed, again for finite graphs: an entity whose rows repeat the root's has a
step above it that fans out.

`MetricsRenderWhatTheyJoin` (`SqlUsesJoinedMeasures`) is about two recursions over two
relations, each of which may have cycles, and needs no induction over them. The
invariant `ExpansionInv` ranks the metrics in the order they were seen in.
`Discovered`: every edge of a metric seen is left to do, leads to a measure found, or
leads to a metric of a higher rank, since the expansion refuses whatever it meets
twice. When the outermost call has returned nothing is left, so `Ordered` holds: a set
of metrics each of which refers to another of the set has one of the highest rank, and
there is none (`OrderedIsAcyclic`); what was found is closed under edges, and so is
all that is reached, which is loaded (`FoundIsReached`). Rendering follows the names.
`SpelledInv` says that all it meets is named and all it rendered is joined; `Visited`
that what it left behind is rendered, or left for a call that has not returned, so
that a statement has all that is named (`SqlIsNamed`). It fails at a metric of its
path or at an object that is not there or not joined. If every name of the metrics
expanded had its edge, ranks would grow along names too (`Climbs`, `NamesLeadOn`), and
none of these could be met. The theorem is for any number of metrics; that the two
recursions end is `CallReturns`, and left to TLC.

**`SearchIndexProofs`**, for any sessions, objects, names and synonyms, proves both
properties of the run and the types; `RebuildsAreExact` is for finitely many
objects, because it counts rows. The invariant is about several sessions at
once. `CurrentInv`: a collection no other rebuild has outdated covers the
index, so once a session has deleted it nothing is left to collide with; and a
session that waits, and so could lose a deadlock, waits for a row of another that is
in progress, or for a deletion, and neither leaves it alone (`PairInv`,
`DeletionInv`): `LoneRebuildsSucceed`. `FreshInv`: while the model stands still, the rows made
and inserted are those of the model. `ForeignInv`: rows in the index that the
session did not have are about objects of the model too, and about none whose
row it has inserted, since the unique constraint makes the second of two
inserters wait and then fail. `PairInv`: sessions in progress are overtaken
together and insert rows of different objects. Each object has a table
(`TableOfAssumption`), and the bound on rebuilds is a number
(`MaxRebuildsAssumption`).

**Only model-checked.** Liveness (`EveryQuestionEnds`, `EveryWriteEnds`,
`CallReturns`), which the prover does not reach. `SqlMeansTheExpression` compares what
is emitted with what a recursive reference reads: `Emit` and `Reading` are RECURSIVE,
and the induction over the expression is out of the prover's reach. All other
properties of the passing runs are theorems.

## 6. Not modelled

- The text of SQL, prompts and messages, the contents of vectors, the rows of a
  result and their statistics, and what PostgreSQL finds for a query: no
  property tells them apart.
- The number of rows asked for and the truncation of results (`query_ir.py:142`,
  `execution.py:94`): two constants decide it, no order of steps.
- `intent.py` beyond its outcome: what an external language model answers.
- The spelling of names, numbers and time phrases, and `describe()` of a plan,
  which nothing calls.
- `assert_name_available()`: its callers are not in `src/`.
- `deps.py`, which no route uses; the routes that list and read tenants only
  read.
- `crypto.py`, `hostpolicy.py`: pure checks; that they raise is `Raise`.
- Publication and archiving of versions: no code performs them.
- Migrations other than the policies', configuration, logging, schemas, routing:
  no state of their own.
