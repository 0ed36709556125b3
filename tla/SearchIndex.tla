----------------------------- MODULE SearchIndex -----------------------------
(***************************************************************************)
(* The search index of one semantic model version,                        *)
(* rebuild_search_index() of app/services/retrieval.py: sessions read the  *)
(* model's tables one statement after another, delete the rows the         *)
(* version's collection holds, and insert a row for each object they read, *)
(* while modellers edit the model and the version may be deleted, its rows *)
(* with it.  A unique constraint allows one row per object; PostgreSQL     *)
(* makes whoever writes a row, or its key, wait for the transaction that   *)
(* wrote it last, an insert for a deletion of the version, and the         *)
(* deletion for rows that are inserted or deleted.                         *)
(***************************************************************************)
EXTENDS Integers, FiniteSets

CONSTANTS
    Sessions,     \* sessions that rebuild the index
    Objects,      \* entities, dimensions, metrics and glossary terms
    TableOf,      \* TableOf[o]: which of the statements reads o
    Names,        \* what an object may be called and described as
    Terms,        \* synonyms
    None,         \* the object does not exist
    MaxRebuilds,  \* bound: rebuilds of one session
    MaxEdits      \* bound: commits of modellers

\* The statements, in order: entities with their dimensions, metrics, terms.
Tables == 1..3

ASSUME TableOfAssumption == TableOf \in [Objects -> Tables]
ASSUME MaxRebuildsAssumption == MaxRebuilds \in Nat

VARIABLES
    version,   \* does the version exist?
    deleting,  \* has a deletion of it, uncommitted, locked it?
    cascaded,  \* the rows of the index which that deletion has deleted
    name,      \* name[o]: its committed name and description
    synonyms,  \* synonyms[o]: its committed synonyms
    index,     \* the committed rows of semantic_search_index
    session,   \* session[s]: the transaction and the objects of a session
    edits

vars == <<version, deleting, cascaded, name, synonyms, index, session, edits>>

-----------------------------------------------------------------------------
\* A row.  `by` is the part of the id that tells rebuilds apart; search_text
\* and the vector are determined by the name and the synonyms.
Row == [object : Objects, name : Names, synonyms : SUBSET Terms,
        by : Sessions \X (1..MaxRebuilds)]

Steps == {"idle", "synonyms", "tables", "existing", "delete", "insert", "done", "failed"}

Session ==
    [pc         : Steps,
     rebuilds   : 0..MaxRebuilds,
     table      : Tables,                       \* the table to be read next
     heard      : [Objects -> SUBSET Terms],    \* synonyms_by_target
     rows       : SUBSET Row,                   \* rows made, still to be inserted
     cached     : BOOLEAN,                      \* has the session loaded version.search_index?
     collection : SUBSET Row,                   \* what it loaded
     deleted    : SUBSET Row,                   \* committed rows it has deleted
     added      : SUBSET Row,                   \* rows it has inserted
     inserted   : BOOLEAN,                      \* does it hold the version's key for them?
     \* History: was no other rebuild, and no deletion of the version, in progress at
     \* any time during this one; was the model edited during this one, or during one
     \* in progress when it began; has another rebuild been committed since the
     \* collection was loaded; had one when this one began?
     alone      : BOOLEAN,
     overtaken  : BOOLEAN,
     stale      : BOOLEAN,
     outdated   : BOOLEAN]

NoSynonyms == [o \in Objects |-> {}]

NewSession ==
    [pc |-> "idle", rebuilds |-> 0, table |-> 1, heard |-> NoSynonyms, rows |-> {},
     cached |-> FALSE, collection |-> {}, deleted |-> {}, added |-> {},
     inserted |-> FALSE, alone |-> TRUE, overtaken |-> FALSE, stale |-> FALSE,
     outdated |-> FALSE]

TypeOK ==
    /\ version \in BOOLEAN
    /\ deleting \in BOOLEAN
    /\ cascaded \subseteq Row
    /\ name \in [Objects -> Names \cup {None}]
    /\ synonyms \in [Objects -> SUBSET Terms]
    /\ index \subseteq Row
    /\ session \in [Sessions -> Session]
    /\ edits \in Nat

\* An index built by an earlier process is one of a session's first rebuild.
Init ==
    /\ version = TRUE
    /\ deleting = FALSE
    /\ cascaded = {}
    /\ name \in [Objects -> Names \cup {None}]
    /\ synonyms = NoSynonyms
    /\ index = {}
    /\ session = [s \in Sessions |-> NewSession]
    /\ edits = 0

-----------------------------------------------------------------------------
\* Is a rebuild in progress, from its first statement to its commit?
InProgress(s) == session[s].pc \notin {"idle", "failed"}

\* What a statement of s sees of the index.
Visible(s) == (index \ session[s].deleted) \cup session[s].added

\* Mutation of UniqueObject: the table has no such constraint.
NotUnique(r, q) == FALSE

\* uq_semantic_search_index_object: two rows that cannot both be there.
UniqueObject(r, q) == r.object = q.object

\* Those whose uncommitted rows, or uncommitted deletes, of the same object
\* decide whether r can be inserted.
InsertWaitsFor(s, r) ==
    {t \in Sessions \ {s} :
        \E q \in session[t].added \cup session[t].deleted : UniqueObject(r, q)}

\* A committed row that forbids r; who meets one that is being deleted waits.
Collides(s, r) == \E q \in index \ (session[s].deleted \cup cascaded) : UniqueObject(r, q)

\* What s has still to delete of the collection it loaded.
Remaining(s) == (session[s].collection \cap index) \ session[s].deleted

\* Those who have deleted a row that s is to delete.
DeleteWaitsFor(s) ==
    {t \in Sessions \ {s} : session[t].deleted \cap Remaining(s) # {}}

\* The rows of an INSERT go in the order their tables were read; within a table
\* nothing fixes the order.
NextRows(s) ==
    {r \in session[s].rows :
        \A q \in session[s].rows : TableOf[r.object] <= TableOf[q.object]}

WaitsFor(s) ==
    CASE session[s].pc = "delete" -> DeleteWaitsFor(s)
      [] session[s].pc = "insert" -> UNION {InsertWaitsFor(s, r) : r \in NextRows(s)}
      [] OTHER -> {}

\* A session waits for the deletion to delete a row that went with the version, and
\* to insert one, which takes the version's key for its foreign key.
WaitsForDeletion(s) ==
    /\ deleting
    /\ \/ session[s].pc = "delete" /\ Remaining(s) \cap cascaded # {}
       \/ session[s].pc = "insert" /\ \E r \in NextRows(s) : ~Collides(s, r)

\* The deletion waits for those who have deleted rows that are to go with the version.
DeletionWaitsFor == {t \in Sessions : session[t].deleted \cap (index \ cascaded) # {}}

\* Those whom s waits for, in person or through the deletion.
Blocking(s) == WaitsFor(s) \cup (IF WaitsForDeletion(s) THEN DeletionWaitsFor ELSE {})

\* A flush that fails rolls the transaction back and raises.
Failed(s) ==
    [session EXCEPT ![s].pc = "failed", ![s].rows = {}, ![s].deleted = {}, ![s].added = {},
                     ![s].inserted = FALSE]

-----------------------------------------------------------------------------
\* Everyone in progress notes that another rebuild began, or an edit.
Disturbed(s) ==
    [t \in Sessions |->
        IF t # s /\ InProgress(t) THEN [session[t] EXCEPT !.alone = FALSE] ELSE session[t]]

\* db.get(): nothing is done for a version that does not exist, unless the
\* session still holds it.  A caller may rebuild again before it commits.
Begin(s) ==
    /\ session[s].pc \in {"idle", "done"}
    /\ session[s].rebuilds < MaxRebuilds
    /\ version \/ session[s].cached
    /\ session' = [Disturbed(s) EXCEPT
           ![s].pc = "synonyms",
           ![s].rebuilds = @ + 1,
           ![s].table = 1,
           ![s].alone = ~deleting /\ \A t \in Sessions \ {s} : ~InProgress(t),
           ![s].overtaken = \E t \in Sessions \ {s} : InProgress(t) /\ session[t].overtaken,
           ![s].outdated = session[s].stale]
    /\ UNCHANGED <<version, deleting, cascaded, name, synonyms, index, edits>>

ReadSynonyms(s) ==
    /\ session[s].pc = "synonyms"
    /\ session' = [session EXCEPT ![s].pc = "tables", ![s].heard = synonyms]
    /\ UNCHANGED <<version, deleting, cascaded, name, synonyms, index, edits>>

\* One of the statements, and add() for each object it returned.
ReadTable(s) ==
    LET found == {o \in Objects : name[o] # None /\ TableOf[o] = session[s].table}
        made  == {[object |-> o, name |-> name[o], synonyms |-> session[s].heard[o],
                   by |-> <<s, session[s].rebuilds>>] : o \in found}
        last  == session[s].table = 3
    IN  /\ session[s].pc = "tables"
        /\ session' = [session EXCEPT
               ![s].rows = @ \cup made,
               ![s].heard = IF last THEN NoSynonyms ELSE @,
               ![s].table = IF last THEN 1 ELSE @ + 1,
               ![s].pc = IF last THEN "existing" ELSE @]
        /\ UNCHANGED <<version, deleting, cascaded, name, synonyms, index, edits>>

\* list(version.search_index): loaded once, then the session's own copy.
LoadExisting(s) ==
    /\ session[s].pc = "existing"
    /\ session' = [session EXCEPT
           ![s].pc = "delete",
           ![s].cached = TRUE,
           ![s].collection = IF session[s].cached THEN @ ELSE Visible(s)]
    /\ UNCHANGED <<version, deleting, cascaded, name, synonyms, index, edits>>

\* The first flush: the DELETEs, row by row, by primary key.  In whatever order the
\* keys are, it is the same for all: s does not come to r, which t has still to delete
\* as well, before a row that t has deleted.
DeleteRow(s) ==
    /\ session[s].pc = "delete"
    /\ \E r \in Remaining(s) \ cascaded :
        /\ \A t \in Sessions \ {s} :
            /\ r \notin session[t].deleted
            /\ session[t].pc = "delete" /\ r \in Remaining(t)
                  => session[t].deleted \cap Remaining(s) = {}
        /\ session' = [session EXCEPT ![s].deleted = @ \cup {r}]
    /\ UNCHANGED <<version, deleting, cascaded, name, synonyms, index, edits>>

\* The first flush is over: a row that others deleted is only warned about, and one
\* that the session itself had inserted is gone.
Deleted(s) ==
    /\ session[s].pc = "delete"
    /\ Remaining(s) = {}
    /\ session' = [session EXCEPT ![s].pc = "insert", ![s].added = @ \ session[s].collection]
    /\ UNCHANGED <<version, deleting, cascaded, name, synonyms, index, edits>>

\* The second flush, row by row: the constraint, then the foreign key, which waits
\* while the version is being deleted.  embed() comes before it, and the rows deleted
\* in the first flush stay locked meanwhile.
InsertRow(s) ==
    /\ session[s].pc = "insert"
    /\ \E r \in NextRows(s) :
        /\ InsertWaitsFor(s, r) = {}
        /\ Collides(s, r) \/ ~deleting
        /\ session' = IF Collides(s, r) \/ ~version
                      THEN Failed(s)
                      ELSE [session EXCEPT ![s].rows = @ \ {r}, ![s].added = @ \cup {r},
                                           ![s].inserted = TRUE]
    /\ UNCHANGED <<version, deleting, cascaded, name, synonyms, index, edits>>

\* Mutation of Refresh: the session keeps the collection it loaded.
NoRefresh(s) ==
    /\ session[s].pc = "insert"
    /\ session[s].rows = {}
    /\ session' = [session EXCEPT ![s].pc = "done"]
    /\ UNCHANGED <<version, deleting, cascaded, name, synonyms, index, edits>>

\* db.refresh(version, ["search_index"])
Refresh(s) ==
    /\ session[s].pc = "insert"
    /\ session[s].rows = {}
    /\ session' = [session EXCEPT ![s].pc = "done", ![s].collection = Visible(s),
                               ![s].stale = FALSE]
    /\ UNCHANGED <<version, deleting, cascaded, name, synonyms, index, edits>>

\* PostgreSQL aborts one of those who wait for each other.  No second rebuild is needed:
\* one that has deleted its rows waits to insert for a deletion of the version, which
\* waits for the rows.
DeadlockDetected(s) ==
    /\ \A S \in SUBSET Sessions :
        Blocking(s) \subseteq S /\ (\A t \in S : Blocking(t) \subseteq S) => s \in S
    /\ session' = Failed(s)
    /\ UNCHANGED <<version, deleting, cascaded, name, synonyms, index, edits>>

\* The caller's commit: nothing expires, the collection stays.
Commit(s) ==
    /\ session[s].pc = "done"
    /\ index' = Visible(s)
    /\ session' = [t \in Sessions |->
           IF t = s
           THEN [session[s] EXCEPT !.pc = "idle", !.deleted = {}, !.added = {}, !.inserted = FALSE]
           ELSE [session[t] EXCEPT !.stale = session[t].cached]]
    /\ UNCHANGED <<version, deleting, cascaded, name, synonyms, edits>>

\* The caller's rollback, after a failure, an exception of the embedder or for
\* a reason of its own: everything the session holds expires.
Rollback(s) ==
    /\ session[s].pc # "idle"
    /\ session' = [session EXCEPT ![s] = [NewSession EXCEPT !.rebuilds = session[s].rebuilds]]
    /\ UNCHANGED <<version, deleting, cascaded, name, synonyms, index, edits>>

-----------------------------------------------------------------------------
\* A commit of a modeller while rebuilds are in progress overtakes them.
Overtake ==
    session' = [s \in Sessions |->
        IF InProgress(s) THEN [session[s] EXCEPT !.overtaken = TRUE] ELSE session[s]]

\* An object is created, renamed or dropped, its synonyms with it.  To create one, or
\* a synonym, takes the version's key.
EditObject(o) ==
    \E n \in (Names \cup {None}) \ {name[o]} :
        /\ version
        /\ name[o] = None => ~deleting
        /\ edits < MaxEdits
        /\ edits' = edits + 1
        /\ name' = [name EXCEPT ![o] = n]
        /\ synonyms' = IF n = None THEN [synonyms EXCEPT ![o] = {}] ELSE synonyms
        /\ Overtake
        /\ UNCHANGED <<version, deleting, cascaded, index>>

EditSynonyms(o) ==
    \E T \in (SUBSET Terms) \ {synonyms[o]} :
        /\ name[o] # None
        /\ deleting => T \subseteq synonyms[o]
        /\ edits < MaxEdits
        /\ edits' = edits + 1
        /\ synonyms' = [synonyms EXCEPT ![o] = T]
        /\ Overtake
        /\ UNCHANGED <<version, deleting, cascaded, name, index>>

\* The version is deleted with its workspace or its tenant: first it is locked, once
\* nobody holds its key.
LockVersion ==
    /\ version
    /\ ~deleting
    /\ \A s \in Sessions : ~session[s].inserted
    /\ edits < MaxEdits
    /\ deleting' = TRUE
    /\ edits' = edits + 1
    /\ session' = [s \in Sessions |->
           IF InProgress(s) THEN [session[s] EXCEPT !.alone = FALSE] ELSE session[s]]
    /\ UNCHANGED <<version, cascaded, name, synonyms, index>>

\* ... then the rows of the index go, each once nobody else is deleting it ...
CascadeRow ==
    /\ deleting
    /\ \E r \in index \ cascaded :
        /\ \A s \in Sessions : r \notin session[s].deleted
        /\ cascaded' = cascaded \cup {r}
    /\ UNCHANGED <<version, deleting, name, synonyms, index, session, edits>>

\* ... and the model is gone.
CommitDeletion ==
    /\ deleting
    /\ index \subseteq cascaded
    /\ version' = FALSE
    /\ deleting' = FALSE
    /\ cascaded' = {}
    /\ name' = [o \in Objects |-> None]
    /\ synonyms' = NoSynonyms
    /\ index' = {}
    /\ Overtake
    /\ UNCHANGED edits

\* The deletion is given up, for a reason of its own or because PostgreSQL aborts it
\* instead of a rebuild.
RollbackDeletion ==
    /\ deleting
    /\ deleting' = FALSE
    /\ cascaded' = {}
    /\ UNCHANGED <<version, name, synonyms, index, session, edits>>

-----------------------------------------------------------------------------
Rebuild(s) ==
    \/ Begin(s) \/ ReadSynonyms(s) \/ ReadTable(s) \/ LoadExisting(s)
    \/ DeleteRow(s) \/ Deleted(s) \/ InsertRow(s) \/ Refresh(s) \/ DeadlockDetected(s)
    \/ Commit(s) \/ Rollback(s)

Next ==
    \/ \E s \in Sessions : Rebuild(s)
    \/ \E o \in Objects : EditObject(o) \/ EditSynonyms(o)
    \/ LockVersion \/ CascadeRow \/ CommitDeletion \/ RollbackDeletion

Spec == Init /\ [][Next]_vars

-----------------------------------------------------------------------------
\* Properties.

\* What is in the model, as rows would say it.
Model == {[object |-> o, name |-> name[o], synonyms |-> synonyms[o]] :
            o \in {p \in Objects : name[p] # None}}

Content(rows) ==
    {[object |-> r.object, name |-> r.name, synonyms |-> r.synonyms] : r \in rows}

IsExact(rows) == Content(rows) = Model /\ Cardinality(rows) = Cardinality(Model)

\* "Rebuild every searchable row": whoever else rebuilds at the same time, a
\* rebuild that commits leaves one row for each object of the model and no other,
\* provided the model stood still meanwhile and the session's collection was not
\* outdated when it began.
RebuildIsExact ==
    [][\A s \in Sessions :
         (Commit(s) /\ version /\ ~session[s].overtaken /\ ~session[s].outdated)
             => IsExact(index')]_vars

\* A rebuild fails only because of another one or of a deletion of the version: with
\* neither in progress meanwhile, the session's collection not outdated, and after
\* earlier ones of the session, committed or not, it neither meets the constraint nor
\* loses a deadlock.
LoneRebuildSucceeds ==
    \A s \in Sessions :
        (session[s].pc = "failed" /\ version) => ~session[s].alone \/ session[s].outdated

\* An object that is in the model and in the index stays in the index: does not
\* hold, for a rebuild that read the model first and commits last.
IndexedObjectsStayIndexed ==
    [][\A o \in Objects :
         (/\ name[o] # None /\ name'[o] # None
          /\ \E r \in index : r.object = o)
             => \E r \in index' : r.object = o]_vars

\* Where only one session rebuilds, it fails only because the version is gone: does not
\* hold, for PostgreSQL may abort it for a deletion that is then given up.
FailsOnlyIfDeleted ==
    \A s \in Sessions : session[s].pc = "failed" => ~version

\* Rebuilds one after another succeed: does not hold, for a session that has
\* rebuilt before keeps its collection when another has rebuilt since.
RebuildsInTurnSucceed ==
    \A s \in Sessions : (session[s].pc = "failed" /\ version) => ~session[s].alone
=============================================================================
