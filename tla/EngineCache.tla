----------------------------- MODULE EngineCache -----------------------------
(***************************************************************************)
(* The engines of customer warehouses, app/services/warehouse.py: an       *)
(* OrderedDict used as an LRU cache by every thread of the process,        *)
(* without a lock.  Each operation on the dict is atomic under the         *)
(* interpreter lock; get_engine() is several of them.                      *)
(*                                                                         *)
(* The rows it is keyed by are edited meanwhile: updated_at is the         *)
(* database's now(), which stands still during a transaction.              *)
(***************************************************************************)
EXTENDS Integers, SequencesExt

CONSTANTS
    Threads,    \* threads of the pool that may be inside get_engine()
    Sources,    \* data sources
    MaxCached,  \* _MAX_CACHED_ENGINES
    MaxClock,   \* bound: transactions that edit a data source
    MaxChanges  \* bound: changes one transaction makes to a data source

ASSUME MaxCachedAssumption == MaxCached \in Nat \ {0}
ASSUME BoundsAssumption == MaxClock \in Nat /\ MaxChanges \in Nat \ {0}

VARIABLES
    row,       \* row[s]: the committed connection details of a data source
    edit,      \* the transaction that edits a data source
    clock,     \* transactions started so far
    engines,   \* _engines: entries, least recently used first
    call,      \* call[t]: the locals of a thread's get_engine()
    disposed   \* engines evicted while a thread still refers to them

vars == <<row, edit, clock, engines, call, disposed>>

-----------------------------------------------------------------------------
\* Connection details: updated_at, and the password, which is not in the key;
\* it is told apart by the transaction and the change that set it.
Details == [source : Sources, updated_at : 0..MaxClock, change : 0..MaxChanges]

\* An engine connects with the details it was created from; `id` tells two
\* engines created from the same details apart.
Engine == [details : Details, id : Nat]

\* Mutation of CacheKey: the data source alone.
CacheKeyOfSource(details) == <<details.source>>

CacheKey(details) == <<details.source, details.updated_at>>

NoEngine == [id |-> -1]

Steps == {"idle", "pop", "create", "put", "trim", "evict", "use", "key_error"}

Call == [pc : Steps, details : Details, engine : Engine \cup {NoEngine}]

Fresh(s) == [source |-> s, updated_at |-> 0, change |-> 0]

NoEdit == [open |-> FALSE]

Cached == {entry.engine : entry \in ToSet(engines)}

Held == {call[t].engine : t \in Threads} \ {NoEngine}

\* Python drops an engine nothing refers to; its identity may be used again.
Referenced == Cached \cup Held

Positions(key) == {i \in DOMAIN engines : engines[i].key = key}

-----------------------------------------------------------------------------
Init ==
    /\ row = [s \in Sources |-> Fresh(s)]
    /\ edit = NoEdit
    /\ clock = 0
    /\ engines = <<>>
    /\ \E s \in Sources :
          call = [t \in Threads |-> [pc |-> "idle", details |-> Fresh(s), engine |-> NoEngine]]
    /\ disposed = {}

Becomes(t, pc, engine) == call' = [call EXCEPT ![t].pc = pc, ![t].engine = engine]

\* get_engine(data_source), with the committed row, or with the row a
\* transaction is editing when that transaction verifies it.
GetEngine(t, details) ==
    /\ call[t].pc = "idle"
    /\ \/ \E s \in Sources : details = row[s]
       \/ edit.open /\ details = edit.details
    /\ call' = [call EXCEPT ![t] = [pc |-> "pop", details |-> details, engine |-> NoEngine]]
    /\ UNCHANGED <<row, edit, clock, engines, disposed>>

\* Mutation of Pop: a hit leaves the entry in the dict (get, then move to the end).
PopLeavesEntry(t) ==
    /\ call[t].pc = "pop"
    /\ LET at == Positions(CacheKey(call[t].details)) IN
       \/ at = {} /\ Becomes(t, "create", NoEngine)
       \/ \E i \in at : Becomes(t, "put", engines[i].engine)
    /\ UNCHANGED <<row, edit, clock, engines, disposed>>

\* engine = _engines.pop(key, None)
Pop(t) ==
    /\ call[t].pc = "pop"
    /\ LET at == Positions(CacheKey(call[t].details)) IN
       \/ /\ at = {}
          /\ Becomes(t, "create", NoEngine)
          /\ UNCHANGED engines
       \/ \E i \in at :
          /\ Becomes(t, "put", engines[i].engine)
          /\ engines' = RemoveAt(engines, i)
    /\ UNCHANGED <<row, edit, clock, disposed>>

\* Mutation of Create: the data source is read again before the engine is made.
CreateFromRow(t) ==
    /\ call[t].pc = "create"
    /\ Becomes(t, "put", [details |-> row[call[t].details.source], id |-> 0])
    /\ UNCHANGED <<row, edit, clock, engines, disposed>>

\* create_engine(build_url(data_source), ...)
Create(t) ==
    /\ call[t].pc = "create"
    /\ LET taken == {e.id : e \in {x \in Referenced : x.details = call[t].details}}
           id == CHOOSE n \in 0..Cardinality(taken) : n \notin taken
       IN  Becomes(t, "put", [details |-> call[t].details, id |-> id])
    /\ UNCHANGED <<row, edit, clock, engines, disposed>>

\* _engines[key] = engine: a new key goes last, a key another thread has put
\* back meanwhile keeps its place and loses its engine.
Put(t) ==
    /\ call[t].pc = "put"
    /\ LET key == CacheKey(call[t].details)
           entry == [key |-> key, engine |-> call[t].engine]
       IN  engines' = IF Positions(key) = {} THEN Append(engines, entry)
                      ELSE [i \in DOMAIN engines |->
                               IF engines[i].key = key THEN entry ELSE engines[i]]
    /\ Becomes(t, "trim", call[t].engine)
    /\ disposed' = disposed \cap Referenced'
    /\ UNCHANGED <<row, edit, clock>>

\* Mutation of Trim: one engine too many is kept.
TrimOffByOne(t) ==
    /\ call[t].pc = "trim"
    /\ Becomes(t, IF Len(engines) > MaxCached + 1 THEN "evict" ELSE "use", call[t].engine)
    /\ UNCHANGED <<row, edit, clock, engines, disposed>>

\* Mutation of Trim: one engine too few is kept.
TrimAtTheBound(t) ==
    /\ call[t].pc = "trim"
    /\ Becomes(t, IF Len(engines) >= MaxCached THEN "evict" ELSE "use", call[t].engine)
    /\ UNCHANGED <<row, edit, clock, engines, disposed>>

\* while len(_engines) > _MAX_CACHED_ENGINES
Trim(t) ==
    /\ call[t].pc = "trim"
    /\ Becomes(t, IF Len(engines) > MaxCached THEN "evict" ELSE "use", call[t].engine)
    /\ UNCHANGED <<row, edit, clock, engines, disposed>>

\* _engines.popitem(last=False), then evicted.dispose()
Evict(t) ==
    /\ call[t].pc = "evict"
    /\ IF engines = <<>>
       THEN /\ Becomes(t, "key_error", call[t].engine)
            /\ UNCHANGED <<engines, disposed>>
       ELSE /\ Becomes(t, "trim", call[t].engine)
            /\ engines' = Tail(engines)
            /\ disposed' = (disposed \cup {Head(engines).engine}) \cap Referenced'
    /\ UNCHANGED <<row, edit, clock>>

\* The caller is done with the engine it was given, or with the error.
Finish(t) ==
    /\ call[t].pc \in {"use", "key_error"}
    /\ Becomes(t, "idle", NoEngine)
    /\ UNCHANGED <<row, edit, clock, engines>>
    /\ disposed' = disposed \cap Referenced'

-----------------------------------------------------------------------------
\* A transaction that edits a data source: every change it makes sets
\* updated_at to now(), the time the transaction started.
StartEdit(s) ==
    /\ ~edit.open
    /\ clock < MaxClock
    /\ clock' = clock + 1
    /\ edit' = [open |-> TRUE,
                details |-> [source |-> s, updated_at |-> clock + 1, change |-> 1]]
    /\ UNCHANGED <<row, engines, call, disposed>>

ChangeAgain ==
    /\ edit.open
    /\ edit.details.change < MaxChanges
    /\ edit' = [edit EXCEPT !.details.change = @ + 1]
    /\ UNCHANGED <<row, clock, engines, call, disposed>>

EndEdit ==
    /\ edit.open
    /\ edit' = NoEdit
    /\ row' \in {row, [row EXCEPT ![edit.details.source] = edit.details]}
    /\ UNCHANGED <<clock, engines, call, disposed>>

-----------------------------------------------------------------------------
Inside(t) ==
    \/ \E s \in Sources : GetEngine(t, row[s])
    \/ edit.open /\ GetEngine(t, edit.details)
    \/ Pop(t) \/ Create(t) \/ Put(t) \/ Trim(t) \/ Evict(t) \/ Finish(t)

Editing == (\E s \in Sources : StartEdit(s)) \/ ChangeAgain \/ EndEdit

Next == (\E t \in Threads : Inside(t)) \/ Editing

Spec == Init /\ [][Next]_vars

-----------------------------------------------------------------------------
\* Properties

\* The dict and the locals have their types.
TypeOK ==
    /\ row \in [Sources -> Details]
    /\ edit = NoEdit \/ edit \in [open : {TRUE}, details : Details]
    /\ clock \in 0..MaxClock
    /\ engines \in Seq([key : Sources \X (0..MaxClock), engine : Engine])
    /\ call \in [Threads -> Call]
    /\ disposed \subseteq Engine

\* A caller never runs its query on another data source's engine, nor on one
\* made before the last committed edit it read, whatever the threads interleave.
EngineIsOfTheKey ==
    \A t \in Threads : call[t].pc \in {"put", "trim", "evict", "use"} =>
        CacheKey(call[t].engine.details) = CacheKey(call[t].details)

\* The cache is within its bound but for the entries of threads that have not
\* trimmed it yet.
CacheIsBounded ==
    Len(engines) <= MaxCached + Cardinality({t \in Threads : call[t].pc \in {"trim", "evict"}})

\* No engine is given out by the cache once it was disposed of: a thread that has
\* popped an engine is the only one that can put it back.
CachedEnginesAreOpen ==
    /\ Cached \cap disposed = {}
    /\ \A i, j \in DOMAIN engines : engines[i].engine = engines[j].engine => i = j

\* Eviction never finds the dict empty, though its check is stale when it pops:
\* between the two each other thread can evict one entry and then hold another
\* it has popped on a hit, so the cache must have two places for each of them.
NoKeyError ==
    2 * (Cardinality(Threads) - 1) <= MaxCached => \A t \in Threads : call[t].pc # "key_error"

\* The engine a caller uses connects with the details the caller read, unless
\* one transaction changed them twice: the key only tells transactions apart.
EngineHasDetails ==
    \A t \in Threads :
        call[t].pc = "use" /\ call[t].engine.details.change <= 1 /\ call[t].details.change <= 1 =>
            call[t].engine.details = call[t].details

-----------------------------------------------------------------------------
\* A statement of the repository that the code does not keep.

\* warehouse.py: "any change to connection details produces a new engine".
AnyChangeMakesAnEngine ==
    \A t \in Threads : call[t].pc = "use" => call[t].engine.details = call[t].details
=============================================================================
