-------------------------- MODULE SearchIndexProofs --------------------------
(***************************************************************************)
(* What holds of rebuild_search_index() for any sessions, any model and    *)
(* any number of rebuilds and edits.                                       *)
(***************************************************************************)
EXTENDS SearchIndex, FiniteSetTheorems, FunctionTheorems, TLAPS

-----------------------------------------------------------------------------
(***************************************************************************)
(* The inductive invariant, in parts.                                      *)
(***************************************************************************)

\* The objects of the model, and the rows a session makes of them.
Live == {o \in Objects : name[o] # None}

RowOf(s, o) == [object |-> o, name |-> name[o], synonyms |-> synonyms[o],
                by |-> <<s, session[s].rebuilds>>]

Wanted(s) == {RowOf(s, o) : o \in Live}

\* What a session holds at each step; what it has inserted is in its collection
\* again before it deletes.
LocalInv(s) ==
    LET x == session[s] IN
    /\ InProgress(s) => x.rebuilds >= 1
    /\ x.pc \notin {"tables", "existing", "delete", "insert"} => x.rows = {}
    /\ x.pc # "tables" => x.table = 1
    /\ ~InProgress(s) => x.added = {} /\ x.deleted = {}
    /\ ~x.cached => x.added = {} /\ x.deleted = {} /\ ~x.stale
    /\ x.pc \in {"delete", "insert", "done"} => x.cached
    /\ x.pc # "insert" => x.added \subseteq x.collection

\* A collection that no rebuild has outdated covers the index: once a session has
\* deleted it, nothing is left to collide with.
CurrentInv(s) ==
    LET x == session[s] IN
    x.cached /\ ~x.stale =>
        /\ x.pc \notin {"insert", "failed"} => index \subseteq x.collection \cup x.deleted
        /\ x.pc = "insert" => index \subseteq x.deleted

\* While the model stands still, the rows made and inserted are those of the model.
FreshInv(s) ==
    LET x == session[s] IN
    InProgress(s) /\ ~x.overtaken =>
        /\ x.pc = "tables" => /\ x.heard = synonyms
                              /\ x.rows = {w \in Wanted(s) : TableOf[w.object] < x.table}
        /\ x.pc \in {"existing", "delete"} => x.rows = Wanted(s)
        /\ x.pc = "insert" => x.rows \cup x.added = Wanted(s)
        /\ x.pc = "done" => x.added = Wanted(s)

\* While the model stands still, what other rebuilds commit is about objects of the
\* model as well, and about none whose row the session has inserted.
ForeignInv(s) ==
    LET x == session[s] IN
    InProgress(s) /\ ~x.overtaken /\ ~x.outdated =>
        /\ x.cached /\ x.pc \in {"synonyms", "tables", "existing", "delete"} =>
              \A r \in index : r \in x.collection \cup x.deleted \/ r.object \in Live
        /\ x.pc \in {"insert", "done"} =>
              \A r \in index \ x.deleted :
                  r.object \in Live /\ \A a \in x.added : a.object # r.object

\* Two rebuilds in progress know of each other, were overtaken together, and insert
\* rows of different objects.
PairInv(s, t) ==
    s # t =>
        /\ InProgress(s) /\ InProgress(t) =>
              ~session[s].alone /\ session[s].overtaken = session[t].overtaken
        /\ \A a \in session[s].added, b \in session[t].added : a.object # b.object

\* A rebuild whose collection is outdated was not alone, or it was when it began.
LoneInv(s) ==
    LET x == session[s] IN
    /\ InProgress(s) /\ x.stale => x.outdated \/ ~x.alone
    /\ x.pc = "failed" /\ version => ~x.alone \/ x.outdated

\* Who is in progress while the version is being deleted is not alone; nothing is left
\* of a deletion that ended.
DeletionInv ==
    /\ deleting => \A s \in Sessions : InProgress(s) => ~session[s].alone
    /\ ~deleting => cascaded = {}

SessionInv(s) == LocalInv(s) /\ CurrentInv(s) /\ FreshInv(s) /\ ForeignInv(s) /\ LoneInv(s)

IInv ==
    /\ TypeOK
    /\ DeletionInv
    /\ \A s \in Sessions : SessionInv(s)
    /\ \A s, t \in Sessions : PairInv(s, t)

-----------------------------------------------------------------------------
\* Steps of one session that leave the tables alone.

\* Two records of a session are of the same rebuild.
SameRebuild(x, y) ==
    /\ x.rebuilds = y.rebuilds /\ x.alone = y.alone
    /\ x.overtaken = y.overtaken /\ x.outdated = y.outdated

\* While neither the model nor a session's rebuild changes, what is wanted stays.
LEMMA WantedStays ==
    ASSUME NEW s, UNCHANGED <<name, synonyms>>, session'[s].rebuilds = session[s].rebuilds
    PROVE  Live' = Live /\ Wanted(s)' = Wanted(s)
BY DEF Live, Wanted, RowOf

\* A session that moves on, or ends, disturbs no other, if it inserts no row of an
\* object of theirs.
LEMMA OneSessionMoves ==
    ASSUME IInv, NEW s \in Sessions, NEW x \in Session,
           session' = [session EXCEPT ![s] = x],
           UNCHANGED <<version, deleting, cascaded, name, synonyms, index, edits>>,
           SessionInv(s)',
           \/ x.pc \in {"idle", "failed"}
           \/ InProgress(s) /\ SameRebuild(x, session[s]),
           \A a \in x.added : \/ a \in session[s].added
                              \/ \A t \in Sessions \ {s} :
                                    \A b \in session[t].added : a.object # b.object
    PROVE  IInv'
<1>1. /\ TypeOK /\ session \in [Sessions -> Session] /\ session'[s] = x
      /\ \A t \in Sessions \ {s} : session'[t] = session[t]
    BY DEF IInv, TypeOK
<1>2. TypeOK'
    BY <1>1 DEF TypeOK
<1>3. ASSUME NEW t \in Sessions \ {s} PROVE SessionInv(t)'
  <2>1. session'[t] = session[t] /\ (InProgress(t)' <=> InProgress(t)) /\ SessionInv(t)
    BY <1>1 DEF InProgress, IInv
  <2>2. Live' = Live /\ Wanted(t)' = Wanted(t)
    BY <2>1, WantedStays
  <2>3. LocalInv(t)' /\ CurrentInv(t)' /\ LoneInv(t)'
    BY <2>1 DEF SessionInv, LocalInv, CurrentInv, LoneInv
  <2>4. FreshInv(t)'
    BY <2>1, <2>2 DEF SessionInv, FreshInv
  <2>5. ForeignInv(t)'
    BY <2>1, <2>2 DEF SessionInv, ForeignInv
  <2>q. QED BY <2>3, <2>4, <2>5 DEF SessionInv
<1>4. ASSUME NEW t \in Sessions \ {s} PROVE PairInv(s, t)' /\ PairInv(t, s)'
  <2>1. PairInv(s, t) /\ PairInv(t, s) /\ session'[t] = session[t]
    BY <1>1 DEF IInv
  <2>2. InProgress(s)' => InProgress(s) /\ SameRebuild(x, session[s])
    BY <1>1 DEF InProgress
  <2>3. InProgress(t)' <=> InProgress(t)
    BY <2>1 DEF InProgress
  <2>4. \A a \in x.added, b \in session[t].added : a.object # b.object
    BY <2>1 DEF PairInv
  <2>q. QED BY <1>1, <2>1, <2>2, <2>3, <2>4 DEF PairInv, SameRebuild
<1>5. ASSUME NEW t \in Sessions \ {s}, NEW u \in Sessions \ {s} PROVE PairInv(t, u)'
  <2>1. PairInv(t, u) /\ session'[t] = session[t] /\ session'[u] = session[u]
    BY <1>1 DEF IInv
  <2>q. QED BY <2>1 DEF PairInv, InProgress
<1>6. PairInv(s, s)'
    BY DEF PairInv
<1>7. DeletionInv'
  <2>1. InProgress(s)' => InProgress(s) /\ x.alone = session[s].alone
    BY <1>1 DEF InProgress, SameRebuild
  <2>2. \A t \in Sessions \ {s} : InProgress(t)' => InProgress(t) /\ session'[t].alone = session[t].alone
    BY <1>1 DEF InProgress
  <2>q. QED BY <1>1, <2>1, <2>2 DEF IInv, DeletionInv
<1>q. QED BY <1>2, <1>3, <1>4, <1>5, <1>6, <1>7 DEF IInv

LEMMA ReadSynonymsKeeps == ASSUME IInv, NEW s \in Sessions, ReadSynonyms(s) PROVE IInv'
<1> DEFINE y == session[s]
           x == [y EXCEPT !.pc = "tables", !.heard = synonyms]
<1>1. y \in Session /\ SessionInv(s) /\ y.pc = "synonyms" /\ synonyms \in [Objects -> SUBSET Terms]
    BY DEF IInv, TypeOK, ReadSynonyms
<1>2. /\ x \in Session /\ x.pc = "tables" /\ x.heard = synonyms /\ SameRebuild(x, y)
      /\ x.table = y.table /\ x.rows = y.rows /\ x.cached = y.cached /\ x.collection = y.collection
      /\ x.deleted = y.deleted /\ x.added = y.added /\ x.stale = y.stale
    BY <1>1 DEF Session, Steps, SameRebuild
<1>3. /\ session' = [session EXCEPT ![s] = x]
      /\ UNCHANGED <<version, deleting, cascaded, name, synonyms, index, edits>>
    BY DEF ReadSynonyms, IInv, TypeOK
<1> HIDE DEF x
<1>4. session'[s] = x /\ InProgress(s) /\ InProgress(s)'
    BY <1>1, <1>2, <1>3 DEF IInv, TypeOK, InProgress
<1>5. Live' = Live /\ Wanted(s)' = Wanted(s)
    BY <1>2, <1>3, <1>4, WantedStays DEF SameRebuild
<1>6. LocalInv(s)' /\ CurrentInv(s)' /\ LoneInv(s)' /\ ForeignInv(s)'
    BY <1>1, <1>2, <1>3, <1>4, <1>5
    DEF SessionInv, LocalInv, CurrentInv, LoneInv, ForeignInv, SameRebuild
<1>7. FreshInv(s)'
  <2>1. \A w \in Wanted(s) : ~(TableOf[w.object] < 1)
    BY TableOfAssumption DEF Wanted, Live, RowOf, Tables
  <2>2. {w \in Wanted(s) : TableOf[w.object] < 1} = {}
    BY <2>1
  <2>3. x.table = 1 /\ x.rows = {}
    BY <1>1, <1>2 DEF SessionInv, LocalInv
  <2>q. QED BY <1>2, <1>3, <1>4, <1>5, <2>2, <2>3 DEF FreshInv
<1>q. QED BY <1>2, <1>3, <1>4, <1>6, <1>7, OneSessionMoves DEF SessionInv

LEMMA LoadExistingKeeps == ASSUME IInv, NEW s \in Sessions, LoadExisting(s) PROVE IInv'
<1> DEFINE y == session[s]
           x == [y EXCEPT !.pc = "delete", !.cached = TRUE,
                          !.collection = IF y.cached THEN @ ELSE Visible(s)]
<1>1. y \in Session /\ SessionInv(s) /\ y.pc = "existing" /\ index \subseteq Row
    BY DEF IInv, TypeOK, LoadExisting
<1>2. Visible(s) \in SUBSET Row
    BY <1>1 DEF Visible, Session
<1>3. /\ x \in Session /\ x.pc = "delete" /\ x.cached = TRUE /\ SameRebuild(x, y)
      /\ x.collection = (IF y.cached THEN y.collection ELSE Visible(s))
      /\ x.table = y.table /\ x.rows = y.rows
      /\ x.deleted = y.deleted /\ x.added = y.added /\ x.stale = y.stale
    BY <1>1, <1>2 DEF Session, Steps, SameRebuild
<1>4. /\ session' = [session EXCEPT ![s] = x]
      /\ UNCHANGED <<version, deleting, cascaded, name, synonyms, index, edits>>
    BY DEF LoadExisting, IInv, TypeOK
<1> HIDE DEF x
<1>5. session'[s] = x /\ InProgress(s) /\ InProgress(s)'
    BY <1>1, <1>3, <1>4 DEF IInv, TypeOK, InProgress
<1>6. Live' = Live /\ Wanted(s)' = Wanted(s)
    BY <1>3, <1>4, <1>5, WantedStays DEF SameRebuild
<1>7. ~y.cached => y.added = {} /\ y.deleted = {} /\ Visible(s) = index
    BY <1>1 DEF SessionInv, LocalInv, Visible
<1>8. LocalInv(s)' /\ LoneInv(s)' /\ FreshInv(s)'
    BY <1>1, <1>3, <1>4, <1>5, <1>6, <1>7
    DEF SessionInv, LocalInv, LoneInv, FreshInv, SameRebuild
<1>9. CurrentInv(s)' /\ ForeignInv(s)'
    BY <1>1, <1>3, <1>4, <1>5, <1>6, <1>7 DEF SessionInv, CurrentInv, ForeignInv, SameRebuild
<1>q. QED BY <1>3, <1>4, <1>5, <1>8, <1>9, OneSessionMoves DEF SessionInv

LEMMA DeleteRowKeeps == ASSUME IInv, NEW s \in Sessions, DeleteRow(s) PROVE IInv'
<1>1. PICK r \in Remaining(s) : session' = [session EXCEPT ![s].deleted = @ \cup {r}]
    BY DEF DeleteRow
<1> DEFINE y == session[s]
           x == [y EXCEPT !.deleted = @ \cup {r}]
<1>2. /\ y \in Session /\ SessionInv(s) /\ y.pc = "delete" /\ index \subseteq Row
      /\ r \in index /\ r \in y.collection
      /\ UNCHANGED <<version, deleting, cascaded, name, synonyms, index, edits>>
    BY <1>1 DEF IInv, TypeOK, DeleteRow, Remaining
<1>3. /\ x \in Session /\ x.pc = "delete" /\ SameRebuild(x, y)
      /\ x.deleted = y.deleted \cup {r} /\ x.added = y.added
      /\ x.table = y.table /\ x.rows = y.rows /\ x.cached = y.cached
      /\ x.collection = y.collection /\ x.stale = y.stale
    BY <1>2 DEF Session, SameRebuild
<1>4. session' = [session EXCEPT ![s] = x]
    BY <1>1 DEF IInv, TypeOK
<1> HIDE DEF x
<1>5. session'[s] = x /\ InProgress(s) /\ InProgress(s)'
    BY <1>2, <1>3, <1>4 DEF IInv, TypeOK, InProgress
<1>6. Live' = Live /\ Wanted(s)' = Wanted(s)
    BY <1>2, <1>3, <1>5, WantedStays DEF SameRebuild
<1>7. LocalInv(s)' /\ LoneInv(s)' /\ FreshInv(s)'
  <2>1. LocalInv(s)' /\ LoneInv(s)'
    BY <1>2, <1>3, <1>5 DEF SessionInv, LocalInv, LoneInv, SameRebuild
  <2>2. FreshInv(s)'
    BY <1>2, <1>3, <1>5, <1>6 DEF SessionInv, FreshInv, SameRebuild
  <2>q. QED BY <2>1, <2>2
<1>8. CurrentInv(s)' /\ ForeignInv(s)'
    BY <1>2, <1>3, <1>5, <1>6 DEF SessionInv, CurrentInv, ForeignInv, SameRebuild
<1>q. QED BY <1>2, <1>3, <1>4, <1>5, <1>7, <1>8, OneSessionMoves DEF SessionInv

\* Once the collection is deleted, nothing the session had inserted is left.
LEMMA DeletedKeeps == ASSUME IInv, NEW s \in Sessions, Deleted(s) PROVE IInv'
<1> DEFINE y == session[s]
           x == [y EXCEPT !.pc = "insert", !.added = @ \ y.collection]
<1>1. /\ y \in Session /\ SessionInv(s) /\ y.pc = "delete" /\ index \subseteq Row
      /\ \A r \in index : r \in y.collection => r \in y.deleted
    BY DEF IInv, TypeOK, Deleted, Remaining
<1>2. /\ x \in Session /\ x.pc = "insert" /\ SameRebuild(x, y)
      /\ x.deleted = y.deleted /\ x.added = y.added \ y.collection
      /\ x.table = y.table /\ x.rows = y.rows /\ x.cached = y.cached
      /\ x.collection = y.collection /\ x.stale = y.stale
    BY <1>1 DEF Session, Steps, SameRebuild
<1>3. /\ session' = [session EXCEPT ![s] = x]
      /\ UNCHANGED <<version, deleting, cascaded, name, synonyms, index, edits>>
    BY DEF Deleted, IInv, TypeOK
<1> HIDE DEF x
<1>4. session'[s] = x /\ InProgress(s) /\ InProgress(s)'
    BY <1>1, <1>2, <1>3 DEF IInv, TypeOK, InProgress
<1>5. Live' = Live /\ Wanted(s)' = Wanted(s)
    BY <1>2, <1>3, <1>4, WantedStays DEF SameRebuild
<1>6. x.added = {} /\ y.cached
    BY <1>1, <1>2 DEF SessionInv, LocalInv
<1>7. LocalInv(s)' /\ LoneInv(s)' /\ FreshInv(s)'
  <2>1. LocalInv(s)' /\ LoneInv(s)'
    BY <1>1, <1>2, <1>3, <1>4, <1>6 DEF SessionInv, LocalInv, LoneInv, SameRebuild
  <2>2. FreshInv(s)'
    BY <1>1, <1>2, <1>3, <1>4, <1>5, <1>6 DEF SessionInv, FreshInv, SameRebuild
  <2>q. QED BY <2>1, <2>2
<1>8. CurrentInv(s)' /\ ForeignInv(s)'
    BY <1>1, <1>2, <1>3, <1>4, <1>5, <1>6 DEF SessionInv, CurrentInv, ForeignInv, SameRebuild
<1>q. QED BY <1>2, <1>3, <1>4, <1>6, <1>7, <1>8, OneSessionMoves DEF SessionInv

LEMMA RefreshKeeps == ASSUME IInv, NEW s \in Sessions, Refresh(s) PROVE IInv'
<1> DEFINE y == session[s]
           x == [y EXCEPT !.pc = "done", !.collection = Visible(s), !.stale = FALSE]
<1>1. y \in Session /\ SessionInv(s) /\ y.pc = "insert" /\ y.rows = {} /\ index \subseteq Row
    BY DEF IInv, TypeOK, Refresh
<1>2. Visible(s) = (index \ y.deleted) \cup y.added /\ Visible(s) \in SUBSET Row
    BY <1>1 DEF Visible, Session
<1>3. /\ x \in Session /\ x.pc = "done" /\ SameRebuild(x, y)
      /\ x.collection = Visible(s) /\ x.stale = FALSE
      /\ x.table = y.table /\ x.rows = y.rows /\ x.cached = y.cached
      /\ x.deleted = y.deleted /\ x.added = y.added
    BY <1>1, <1>2 DEF Session, Steps, SameRebuild
<1>4. /\ session' = [session EXCEPT ![s] = x]
      /\ UNCHANGED <<version, deleting, cascaded, name, synonyms, index, edits>>
    BY DEF Refresh, IInv, TypeOK
<1> HIDE DEF x
<1>5. session'[s] = x /\ InProgress(s) /\ InProgress(s)'
    BY <1>1, <1>3, <1>4 DEF IInv, TypeOK, InProgress
<1>6. Live' = Live /\ Wanted(s)' = Wanted(s)
    BY <1>3, <1>4, <1>5, WantedStays DEF SameRebuild
<1>7. LocalInv(s)' /\ LoneInv(s)' /\ FreshInv(s)'
    BY <1>1, <1>2, <1>3, <1>4, <1>5, <1>6
    DEF SessionInv, LocalInv, LoneInv, FreshInv, SameRebuild
<1>8. CurrentInv(s)' /\ ForeignInv(s)'
    BY <1>1, <1>2, <1>3, <1>4, <1>5, <1>6 DEF SessionInv, CurrentInv, ForeignInv, SameRebuild
<1>q. QED BY <1>3, <1>4, <1>5, <1>7, <1>8, OneSessionMoves DEF SessionInv

LEMMA NewSessionIsSession == NewSession \in Session
<1>1. NoSynonyms \in [Objects -> SUBSET Terms] /\ 0 \in 0..MaxRebuilds /\ 1 \in Tables
    BY MaxRebuildsAssumption DEF NoSynonyms, Tables
<1>q. QED BY <1>1 DEF NewSession, Session, Steps

\* A session that rolls back holds nothing any more.
LEMMA RollbackKeeps == ASSUME IInv, NEW s \in Sessions, Rollback(s) PROVE IInv'
<1> DEFINE x == [NewSession EXCEPT !.rebuilds = session[s].rebuilds]
<1>1. session[s] \in Session
    BY DEF IInv, TypeOK
<1>2. /\ x \in Session /\ x.pc = "idle" /\ x.table = 1 /\ x.rows = {} /\ ~x.cached
      /\ x.deleted = {} /\ x.added = {} /\ ~x.stale /\ x.collection = {}
  <2>1. NewSession \in Session
    BY NewSessionIsSession
  <2>2. x \in Session /\ x = [NewSession EXCEPT !.rebuilds = session[s].rebuilds]
    BY <1>1, <2>1 DEF Session
  <2> HIDE DEF x
  <2>q. QED BY <2>2 DEF NewSession
<1>3. /\ session' = [session EXCEPT ![s] = x]
      /\ UNCHANGED <<version, deleting, cascaded, name, synonyms, index, edits>>
    BY DEF Rollback
<1> HIDE DEF x
<1>4. session'[s] = x /\ ~InProgress(s)'
    BY <1>2, <1>3 DEF IInv, TypeOK, InProgress
<1>5. SessionInv(s)'
    BY <1>2, <1>4 DEF SessionInv, LocalInv, CurrentInv, FreshInv, ForeignInv, LoneInv
<1>q. QED BY <1>2, <1>3, <1>5, OneSessionMoves

\* A session fails in the presence of another or of a deletion, or with an outdated
\* collection.
LEMMA FailureKeeps ==
    ASSUME IInv, NEW s \in Sessions, session[s].pc \in {"delete", "insert"}, session' = Failed(s),
           UNCHANGED <<version, deleting, cascaded, name, synonyms, index, edits>>,
           version => ~session[s].alone \/ session[s].outdated
    PROVE  IInv'
<1> DEFINE y == session[s]
           x == [y EXCEPT !.pc = "failed", !.rows = {}, !.deleted = {}, !.added = {}, !.inserted = FALSE]
<1>1. y \in Session /\ SessionInv(s)
    BY DEF IInv, TypeOK
<1>2. /\ x \in Session /\ x.pc = "failed" /\ SameRebuild(x, y)
      /\ x.rows = {} /\ x.deleted = {} /\ x.added = {}
      /\ x.table = y.table /\ x.cached = y.cached /\ x.collection = y.collection /\ x.stale = y.stale
    BY <1>1 DEF Session, Steps, SameRebuild
<1>3. session' = [session EXCEPT ![s] = x]
    BY DEF Failed, IInv, TypeOK
<1> HIDE DEF x
<1>4. session'[s] = x /\ ~InProgress(s)'
    BY <1>2, <1>3 DEF IInv, TypeOK, InProgress
<1>5. SessionInv(s)'
    BY <1>1, <1>2, <1>4
    DEF SessionInv, LocalInv, CurrentInv, FreshInv, ForeignInv, LoneInv, SameRebuild
<1>q. QED BY <1>2, <1>3, <1>5, OneSessionMoves

\* Who waits for another is not alone.
LEMMA WaitingIsNotAlone ==
    ASSUME IInv, NEW s \in Sessions, NEW t \in Sessions \ {s},
           session[s].pc \in {"delete", "insert"},
           session[t].added \cup session[t].deleted # {}
    PROVE  ~session[s].alone
<1>1. InProgress(s)
    BY DEF InProgress
<1>2. InProgress(t)
    BY DEF IInv, SessionInv, LocalInv
<1>q. QED BY <1>1, <1>2 DEF IInv, PairInv

LEMMA DeadlockKeeps == ASSUME IInv, NEW s \in Sessions, DeadlockDetected(s) PROVE IInv'
<1>1. session' = Failed(s) /\ UNCHANGED <<version, deleting, cascaded, name, synonyms, index, edits>>
    BY DEF DeadlockDetected
<1>2. Blocking(s) # {}
  <2>1. {} \in SUBSET Sessions /\ s \notin {}
    OBVIOUS
  <2>q. QED BY <2>1 DEF DeadlockDetected
<1>3. WaitsForDeletion(s) \/ WaitsFor(s) # {}
    BY <1>2 DEF Blocking
<1>4. session[s].pc \in {"delete", "insert"}
    BY <1>3 DEF WaitsFor, WaitsForDeletion
<1>5. CASE WaitsForDeletion(s)
  <2>1. deleting /\ InProgress(s)
    BY <1>4, <1>5 DEF WaitsForDeletion, InProgress
  <2>2. ~session[s].alone
    BY <2>1 DEF IInv, DeletionInv
  <2>q. QED BY <1>1, <1>4, <2>2, FailureKeeps
<1>6. CASE WaitsFor(s) # {}
  <2>1. PICK t \in Sessions \ {s} : session[t].added \cup session[t].deleted # {}
    BY <1>4, <1>6 DEF WaitsFor, DeleteWaitsFor, InsertWaitsFor
  <2>2. ~session[s].alone
    BY <1>4, <2>1, WaitingIsNotAlone
  <2>q. QED BY <1>1, <1>4, <2>2, FailureKeeps
<1>q. QED BY <1>3, <1>5, <1>6

\* A row is inserted, or collides with one of a rebuild that outdated the session's
\* collection.
LEMMA InsertRowKeeps == ASSUME IInv, NEW s \in Sessions, InsertRow(s) PROVE IInv'
<1> DEFINE y == session[s]
<1>1. y \in Session /\ SessionInv(s) /\ y.pc = "insert" /\ index \subseteq Row
      /\ UNCHANGED <<version, deleting, cascaded, name, synonyms, index, edits>>
    BY DEF IInv, TypeOK, InsertRow
<1>2. PICK r \in NextRows(s) :
          /\ InsertWaitsFor(s, r) = {}
          /\ session' = IF Collides(s, r) \/ ~version
                        THEN Failed(s)
                        ELSE [session EXCEPT ![s].rows = @ \ {r}, ![s].added = @ \cup {r},
                                             ![s].inserted = TRUE]
          /\ ~deleting \/ Collides(s, r)
    BY DEF InsertRow
<1>3. CASE ~version \/ Collides(s, r)
  <2>1. ASSUME Collides(s, r), ~y.stale PROVE FALSE
    <3>1. index \subseteq y.deleted
        BY <1>1, <2>1 DEF SessionInv, LocalInv, CurrentInv
    <3>q. QED BY <2>1, <3>1 DEF Collides
  <2>2. y.stale => y.outdated \/ ~y.alone
    BY <1>1 DEF SessionInv, LoneInv, InProgress
  <2>q. QED BY <1>1, <1>2, <1>3, <2>1, <2>2, FailureKeeps
<1>4. CASE version /\ ~Collides(s, r)
  <2> DEFINE x == [y EXCEPT !.rows = @ \ {r}, !.added = @ \cup {r}, !.inserted = TRUE]
  <2>1. r \in y.rows /\ r \in Row
    BY <1>1 DEF NextRows, Session
  <2>2. /\ x \in Session /\ x.pc = "insert" /\ SameRebuild(x, y)
        /\ x.rows = y.rows \ {r} /\ x.added = y.added \cup {r}
        /\ x.table = y.table /\ x.cached = y.cached /\ x.collection = y.collection
        /\ x.deleted = y.deleted /\ x.stale = y.stale
    BY <1>1, <2>1 DEF Session, Steps, SameRebuild
  <2>3. session' = [session EXCEPT ![s] = x]
    BY <1>2, <1>4 DEF IInv, TypeOK
  <2> HIDE DEF x
  <2>4. session'[s] = x /\ InProgress(s) /\ InProgress(s)'
    BY <1>1, <2>2, <2>3 DEF IInv, TypeOK, InProgress
  <2>5. Live' = Live /\ Wanted(s)' = Wanted(s)
    BY <1>1, <2>2, <2>4, WantedStays DEF SameRebuild
  <2>6. LocalInv(s)' /\ LoneInv(s)' /\ CurrentInv(s)'
    BY <1>1, <2>2, <2>4 DEF SessionInv, LocalInv, LoneInv, CurrentInv, SameRebuild
  <2>7. FreshInv(s)'
    BY <1>1, <2>1, <2>2, <2>4, <2>5 DEF SessionInv, FreshInv, SameRebuild
  <2>8. ForeignInv(s)'
    <3>1. \A q \in index \ y.deleted : q.object # r.object
        BY <1>2, <1>4 DEF Collides, UniqueObject, IInv, DeletionInv
    <3>q. QED BY <1>1, <2>2, <2>4, <2>5, <3>1 DEF SessionInv, ForeignInv, SameRebuild
  <2>9. \A t \in Sessions \ {s} : \A b \in session[t].added : r.object # b.object
    BY <1>2 DEF InsertWaitsFor, UniqueObject
  <2>q. QED BY <1>1, <2>2, <2>3, <2>4, <2>6, <2>7, <2>8, <2>9, OneSessionMoves DEF SessionInv
<1>q. QED BY <1>3, <1>4

\* The rows of a table are those of its objects, unless the model was edited.
LEMMA ReadTableKeeps == ASSUME IInv, NEW s \in Sessions, ReadTable(s) PROVE IInv'
<1> DEFINE y == session[s]
           found == {o \in Objects : name[o] # None /\ TableOf[o] = y.table}
           made == {[object |-> o, name |-> name[o], synonyms |-> y.heard[o],
                     by |-> <<s, y.rebuilds>>] : o \in found}
           last == y.table = 3
           x == [y EXCEPT !.rows = @ \cup made,
                          !.heard = IF last THEN NoSynonyms ELSE @,
                          !.table = IF last THEN 1 ELSE @ + 1,
                          !.pc = IF last THEN "existing" ELSE @]
<1>1. /\ y \in Session /\ SessionInv(s) /\ y.pc = "tables" /\ index \subseteq Row
      /\ name \in [Objects -> Names \cup {None}] /\ y.table \in 1..3 /\ InProgress(s)
    BY DEF IInv, TypeOK, ReadTable, Session, Tables, InProgress
<1>2. made \in SUBSET Row
  <2>1. y.rebuilds \in 1..MaxRebuilds /\ y.heard \in [Objects -> SUBSET Terms]
    BY <1>1, MaxRebuildsAssumption DEF SessionInv, LocalInv, Session
  <2>2. ASSUME NEW o \in found
        PROVE  [object |-> o, name |-> name[o], synonyms |-> y.heard[o], by |-> <<s, y.rebuilds>>] \in Row
    <3>1. name[o] \in Names /\ y.heard[o] \in SUBSET Terms /\ o \in Objects
        BY <1>1, <2>1
    <3>2. <<s, y.rebuilds>> \in Sessions \X (1..MaxRebuilds)
        BY <2>1
    <3>q. QED BY <3>1, <3>2 DEF Row
  <2>q. QED BY <2>2
<1> HIDE DEF made
<1>3. /\ x \in Session /\ SameRebuild(x, y)
      /\ x.pc = (IF last THEN "existing" ELSE "tables") /\ x.table = (IF last THEN 1 ELSE y.table + 1)
      /\ x.rows = y.rows \cup made /\ (~last => x.heard = y.heard)
      /\ x.cached = y.cached /\ x.collection = y.collection
      /\ x.deleted = y.deleted /\ x.added = y.added /\ x.stale = y.stale
  <2>1. NoSynonyms \in [Objects -> SUBSET Terms]
    BY DEF NoSynonyms
  <2>2. (IF last THEN 1 ELSE y.table + 1) \in Tables
    BY <1>1 DEF Tables
  <2>q. QED BY <1>1, <1>2, <2>1, <2>2 DEF Session, Steps, SameRebuild
<1>4. /\ session' = [session EXCEPT ![s] = x]
      /\ UNCHANGED <<version, deleting, cascaded, name, synonyms, index, edits>>
    BY DEF ReadTable, IInv, TypeOK, made
<1> HIDE DEF x
<1>5. session'[s] = x /\ InProgress(s)'
    BY <1>3, <1>4 DEF IInv, TypeOK, InProgress
<1>6. Live' = Live /\ Wanted(s)' = Wanted(s)
    BY <1>3, <1>4, <1>5, WantedStays DEF SameRebuild
<1>7. LocalInv(s)' /\ LoneInv(s)'
    BY <1>1, <1>3, <1>4, <1>5 DEF SessionInv, LocalInv, LoneInv, SameRebuild
<1>8. CurrentInv(s)' /\ ForeignInv(s)'
    BY <1>1, <1>3, <1>4, <1>5, <1>6 DEF SessionInv, CurrentInv, ForeignInv, SameRebuild
<1>9. FreshInv(s)'
  <2> SUFFICES ASSUME ~y.overtaken PROVE FreshInv(s)'
    BY <1>3, <1>5 DEF FreshInv, SameRebuild
  <2>1. y.heard = synonyms /\ y.rows = {w \in Wanted(s) : TableOf[w.object] < y.table}
    BY <1>1 DEF SessionInv, FreshInv
  <2>2. made = {w \in Wanted(s) : TableOf[w.object] = y.table}
    <3>1. made = {RowOf(s, o) : o \in found}
        BY <2>1 DEF made, RowOf
    <3>2. \A o \in Objects : RowOf(s, o).object = o
        BY DEF RowOf
    <3>3. \A o : o \in found <=> o \in Live /\ TableOf[o] = y.table
        BY DEF Live
    <3> HIDE DEF found
    <3>4. \A o \in found : o \in Objects
        BY <3>3 DEF Live
    <3>5. \A o \in Live : o \in Objects
        BY DEF Live
    <3>q. QED BY <3>1, <3>2, <3>3, <3>4, <3>5 DEF Wanted
  <2>3. \A w \in Wanted(s) : TableOf[w.object] \in 1..3
    BY TableOfAssumption DEF Wanted, Live, RowOf, Tables
  <2>4. x.rows = {w \in Wanted(s) : TableOf[w.object] < y.table + 1}
    BY <1>1, <1>3, <2>1, <2>2, <2>3
  <2>5. CASE last
    <3>1. x.rows = Wanted(s)
        BY <2>3, <2>4, <2>5
    <3>q. QED BY <1>3, <1>5, <1>6, <2>5, <3>1 DEF FreshInv
  <2>6. CASE ~last
    BY <1>3, <1>4, <1>5, <1>6, <2>1, <2>4, <2>6 DEF FreshInv
  <2>q. QED BY <2>5, <2>6
<1>q. QED BY <1>1, <1>3, <1>4, <1>7, <1>8, <1>9, OneSessionMoves DEF SessionInv

-----------------------------------------------------------------------------
\* Steps that others notice.

\* Who begins finds out who is in progress, and they find out about it.
LEMMA BeginKeeps == ASSUME IInv, NEW s \in Sessions, Begin(s) PROVE IInv'
<1> DEFINE y == session[s]
           x == [y EXCEPT !.pc = "synonyms", !.rebuilds = @ + 1, !.table = 1,
                          !.alone = ~deleting /\ \A t \in Sessions \ {s} : ~InProgress(t),
                          !.overtaken = \E t \in Sessions \ {s} : InProgress(t) /\ session[t].overtaken,
                          !.outdated = y.stale]
           Other(t) == IF InProgress(t) THEN [session[t] EXCEPT !.alone = FALSE] ELSE session[t]
<1>1. /\ y \in Session /\ SessionInv(s) /\ y.pc \in {"idle", "done"} /\ y.rebuilds < MaxRebuilds
      /\ session \in [Sessions -> Session] /\ TypeOK
      /\ UNCHANGED <<version, deleting, cascaded, name, synonyms, index, edits>>
    BY DEF IInv, TypeOK, Begin
<1>2. /\ x \in Session /\ x.pc = "synonyms" /\ x.rebuilds = y.rebuilds + 1 /\ x.table = 1
      /\ x.alone = (~deleting /\ \A t \in Sessions \ {s} : ~InProgress(t))
      /\ x.overtaken = (\E t \in Sessions \ {s} : InProgress(t) /\ session[t].overtaken)
      /\ x.outdated = y.stale /\ x.rows = y.rows /\ x.cached = y.cached
      /\ x.collection = y.collection /\ x.deleted = y.deleted /\ x.added = y.added
      /\ x.stale = y.stale
  <2> DEFINE alone == ~deleting /\ \A t \in Sessions \ {s} : ~InProgress(t)
             overtaken == \E t \in Sessions \ {s} : InProgress(t) /\ session[t].overtaken
  <2>1. y.rebuilds + 1 \in 0..MaxRebuilds /\ 1 \in Tables
    BY <1>1, MaxRebuildsAssumption DEF Session, Tables
  <2>2. alone \in BOOLEAN /\ overtaken \in BOOLEAN
    OBVIOUS
  <2> HIDE DEF alone, overtaken
  <2>3. x = [y EXCEPT !.pc = "synonyms", !.rebuilds = y.rebuilds + 1, !.table = 1, !.alone = alone,
                      !.overtaken = overtaken, !.outdated = y.stale]
    BY DEF alone, overtaken
  <2> HIDE DEF x
  <2>4. x \in Session
    BY <1>1, <2>1, <2>2, <2>3 DEF Session, Steps
  <2>5. /\ x.pc = "synonyms" /\ x.rebuilds = y.rebuilds + 1 /\ x.table = 1
        /\ x.alone = alone /\ x.overtaken = overtaken /\ x.outdated = y.stale
    BY <1>1, <2>3 DEF Session
  <2>6. /\ x.rows = y.rows /\ x.cached = y.cached /\ x.collection = y.collection
        /\ x.deleted = y.deleted /\ x.added = y.added /\ x.stale = y.stale
    BY <1>1, <2>3 DEF Session
  <2>q. QED BY <2>4, <2>5, <2>6 DEF alone, overtaken
<1>3. session' = [t \in Sessions |-> IF t = s THEN x ELSE Other(t)]
  <2>1. Disturbed(s)[s] = y /\ \A t \in Sessions \ {s} : Disturbed(s)[t] = Other(t)
    BY DEF Disturbed
  <2>2. Disturbed(s) = [t \in Sessions |-> Disturbed(s)[t]]
    BY DEF Disturbed
  <2>3. session' = [Disturbed(s) EXCEPT ![s] = x]
    BY <2>1, <2>2 DEF Begin
  <2> HIDE DEF x, Other
  <2>q. QED BY <2>1, <2>2, <2>3
<1> HIDE DEF x
<1>4. ASSUME NEW t \in Sessions \ {s}
      PROVE  /\ session'[t] = Other(t) /\ session'[t] \in Session
             /\ session'[t] = [session[t] EXCEPT !.alone = session'[t].alone]
             /\ InProgress(t) => ~session'[t].alone
             /\ ~InProgress(t) => session'[t].alone = session[t].alone
    BY <1>1, <1>3 DEF Session
<1>5. session'[s] = x /\ TypeOK' /\ InProgress(s)'
  <2>1. session'[s] = x
    BY <1>3
  <2>2. session' \in [Sessions -> Session]
    <3> HIDE DEF Other
    <3>q. QED BY <1>2, <1>3, <1>4
  <2>q. QED BY <1>1, <1>2, <2>1, <2>2 DEF TypeOK, InProgress
<1> HIDE DEF Other
<1>6. ASSUME NEW t \in Sessions \ {s}
      PROVE  /\ session'[t].pc = session[t].pc /\ session'[t].rebuilds = session[t].rebuilds
             /\ session'[t].table = session[t].table /\ session'[t].heard = session[t].heard
             /\ session'[t].rows = session[t].rows /\ session'[t].cached = session[t].cached
             /\ session'[t].collection = session[t].collection
             /\ session'[t].deleted = session[t].deleted /\ session'[t].added = session[t].added
             /\ session'[t].overtaken = session[t].overtaken
             /\ session'[t].stale = session[t].stale /\ session'[t].outdated = session[t].outdated
             /\ InProgress(t)' <=> InProgress(t)
  <2>1. session[t] \in Session /\ session'[t] = [session[t] EXCEPT !.alone = session'[t].alone]
    BY <1>1, <1>4
  <2>q. QED BY <2>1 DEF Session, InProgress
<1>7. SessionInv(s)'
  <2>1. LocalInv(s)' /\ CurrentInv(s)' /\ LoneInv(s)'
    BY <1>1, <1>2, <1>5 DEF SessionInv, LocalInv, CurrentInv, LoneInv, InProgress, Session
  <2>2. FreshInv(s)'
    BY <1>2, <1>5 DEF FreshInv
  <2>3. ForeignInv(s)'
    BY <1>1, <1>2, <1>5 DEF SessionInv, CurrentInv, ForeignInv
  <2>q. QED BY <2>1, <2>2, <2>3 DEF SessionInv
<1>8. ASSUME NEW t \in Sessions \ {s} PROVE SessionInv(t)'
  <2>1. SessionInv(t) /\ Live' = Live /\ Wanted(t)' = Wanted(t)
    BY <1>1, <1>6, WantedStays DEF IInv
  <2>2. LocalInv(t)' /\ CurrentInv(t)'
    BY <1>1, <1>6, <2>1 DEF SessionInv, LocalInv, CurrentInv
  <2>3. FreshInv(t)' /\ ForeignInv(t)'
    BY <1>1, <1>6, <2>1 DEF SessionInv, FreshInv, ForeignInv
  <2>4. LoneInv(t)'
    BY <1>1, <1>4, <1>6, <2>1 DEF SessionInv, LoneInv
  <2>q. QED BY <2>2, <2>3, <2>4 DEF SessionInv
<1>9. ASSUME NEW t \in Sessions \ {s} PROVE PairInv(s, t)' /\ PairInv(t, s)'
  <2>1. ASSUME InProgress(t) PROVE ~x.alone /\ x.overtaken = session[t].overtaken
    <3>1. \A u \in Sessions \ {s} : InProgress(u) => session[u].overtaken = session[t].overtaken
        BY <2>1 DEF IInv, PairInv
    <3>2. session[t].overtaken \in BOOLEAN
        BY <1>1 DEF Session
    <3>q. QED BY <1>2, <2>1, <3>1, <3>2
  <2>2. ASSUME InProgress(t)'
        PROVE  /\ ~session'[s].alone /\ ~session'[t].alone
               /\ session'[s].overtaken = session'[t].overtaken
    <3>1. InProgress(t) /\ session'[t].overtaken = session[t].overtaken /\ session'[s] = x
        BY <1>5, <1>6, <2>2
    <3>q. QED BY <1>4, <2>1, <3>1
  <2>3. \A a \in session'[s].added, c \in session'[t].added : a.object # c.object
    <3>1. session'[s].added = session[s].added /\ session'[t].added = session[t].added
        BY <1>2, <1>5, <1>6
    <3>q. QED BY <3>1 DEF IInv, PairInv
  <2>q. QED BY <2>2, <2>3 DEF PairInv
<1>10. ASSUME NEW t \in Sessions \ {s}, NEW u \in Sessions \ {s} PROVE PairInv(t, u)'
  <2>1. PairInv(t, u)
    BY DEF IInv
  <2>2. ASSUME t # u, InProgress(t)', InProgress(u)'
        PROVE  ~session'[t].alone /\ session'[t].overtaken = session'[u].overtaken
    <3>1. InProgress(t) /\ InProgress(u)
        BY <1>6, <2>2
    <3>2. session'[t].overtaken = session[t].overtaken /\ session'[u].overtaken = session[u].overtaken
        BY <1>6
    <3>q. QED BY <1>4, <2>1, <2>2, <3>1, <3>2 DEF PairInv
  <2>3. session'[t].added = session[t].added /\ session'[u].added = session[u].added
    BY <1>6
  <2>q. QED BY <2>1, <2>2, <2>3 DEF PairInv
<1>11. PairInv(s, s)'
    BY DEF PairInv
<1>12. DeletionInv'
  <2>1. UNCHANGED <<deleting, cascaded>> /\ DeletionInv
    BY <1>1 DEF IInv
  <2>2. deleting => ~session'[s].alone
    BY <1>2, <1>5
  <2>3. \A t \in Sessions \ {s} : InProgress(t)' => ~session'[t].alone
    BY <1>4, <1>6
  <2>q. QED BY <2>1, <2>2, <2>3 DEF DeletionInv
<1>q. QED BY <1>5, <1>7, <1>8, <1>9, <1>10, <1>11, <1>12 DEF IInv

\* A commit outdates the collections of the others.  While the model stands still, its
\* rows are of the model's objects, of none that another has inserted.
LEMMA CommitKeeps == ASSUME IInv, NEW s \in Sessions, Commit(s) PROVE IInv'
<1> DEFINE y == session[s]
           x == [y EXCEPT !.pc = "idle", !.deleted = {}, !.added = {}, !.inserted = FALSE]
           Other(t) == [session[t] EXCEPT !.stale = session[t].cached]
<1>1. /\ y \in Session /\ SessionInv(s) /\ y.pc = "done" /\ index \subseteq Row
      /\ session \in [Sessions -> Session] /\ TypeOK /\ InProgress(s)
      /\ index' = (index \ y.deleted) \cup y.added
      /\ UNCHANGED <<version, deleting, cascaded, name, synonyms, edits>>
    BY DEF IInv, TypeOK, Commit, Visible, InProgress
<1>2. /\ x \in Session /\ x.pc = "idle" /\ x.deleted = {} /\ x.added = {} /\ SameRebuild(x, y)
      /\ x.table = y.table /\ x.rows = y.rows /\ x.cached = y.cached
      /\ x.collection = y.collection /\ x.stale = y.stale
    BY <1>1 DEF Session, Steps, SameRebuild
<1>3. session' = [t \in Sessions |-> IF t = s THEN x ELSE Other(t)]
    BY DEF Commit
<1> HIDE DEF x
<1>4. ASSUME NEW t \in Sessions \ {s}
      PROVE  /\ session'[t] \in Session
             /\ session'[t].pc = session[t].pc /\ session'[t].rebuilds = session[t].rebuilds
             /\ session'[t].table = session[t].table /\ session'[t].heard = session[t].heard
             /\ session'[t].rows = session[t].rows /\ session'[t].cached = session[t].cached
             /\ session'[t].collection = session[t].collection
             /\ session'[t].deleted = session[t].deleted /\ session'[t].added = session[t].added
             /\ session'[t].alone = session[t].alone /\ session'[t].overtaken = session[t].overtaken
             /\ session'[t].stale = session[t].cached /\ session'[t].outdated = session[t].outdated
             /\ InProgress(t)' <=> InProgress(t)
  <2>1. session[t] \in Session /\ session'[t] = Other(t)
    BY <1>1, <1>3
  <2>q. QED BY <2>1 DEF Session, InProgress
<1> HIDE DEF Other
<1>5. session'[s] = x /\ TypeOK' /\ ~InProgress(s)'
  <2>1. session'[s] = x
    BY <1>3
  <2>2. session' \in [Sessions -> Session]
    BY <1>2, <1>3, <1>4
  <2>3. index' \subseteq Row
    BY <1>1 DEF Session
  <2>q. QED BY <1>1, <1>2, <2>1, <2>2, <2>3 DEF TypeOK, InProgress
<1>6. SessionInv(s)'
  <2>1. LocalInv(s)' /\ LoneInv(s)' /\ FreshInv(s)' /\ ForeignInv(s)'
    BY <1>1, <1>2, <1>5 DEF SessionInv, LocalInv, LoneInv, FreshInv, ForeignInv
  <2>2. CurrentInv(s)'
    BY <1>1, <1>2, <1>5 DEF SessionInv, LocalInv, CurrentInv
  <2>q. QED BY <2>1, <2>2 DEF SessionInv
<1>7. ASSUME NEW t \in Sessions \ {s} PROVE SessionInv(t)'
  <2>1. SessionInv(t) /\ PairInv(s, t) /\ PairInv(t, s) /\ Live' = Live /\ Wanted(t)' = Wanted(t)
    BY <1>1, <1>4, WantedStays DEF IInv
  <2>2. LocalInv(t)' /\ CurrentInv(t)'
    BY <1>4, <2>1 DEF SessionInv, LocalInv, CurrentInv
  <2>3. FreshInv(t)'
    BY <1>1, <1>4, <2>1 DEF SessionInv, FreshInv
  <2>4. LoneInv(t)'
    BY <1>1, <1>4, <2>1 DEF SessionInv, LoneInv, PairInv
  <2>5. ForeignInv(t)'
    <3> SUFFICES ASSUME InProgress(t), ~session[t].overtaken, ~session[t].outdated
                 PROVE  ForeignInv(t)'
        BY <1>4 DEF ForeignInv
    <3>1. \A r \in y.added : r.object \in Live
      <4>1. ~y.overtaken
        BY <1>1, <2>1 DEF PairInv
      <4>2. y.added = Wanted(s)
        BY <1>1, <4>1 DEF SessionInv, FreshInv
      <4>q. QED BY <4>2 DEF Wanted, RowOf
    <3>2. \A r \in y.added, a \in session[t].added : a.object # r.object
        BY <2>1 DEF PairInv
    <3>q. QED BY <1>1, <1>4, <2>1, <3>1, <3>2 DEF SessionInv, ForeignInv
  <2>q. QED BY <2>2, <2>3, <2>4, <2>5 DEF SessionInv
<1>8. ASSUME NEW t \in Sessions \ {s} PROVE PairInv(s, t)' /\ PairInv(t, s)'
    BY <1>2, <1>5 DEF PairInv
<1>9. ASSUME NEW t \in Sessions \ {s}, NEW u \in Sessions \ {s} PROVE PairInv(t, u)'
  <2>1. PairInv(t, u)
    BY DEF IInv
  <2>q. QED BY <1>4, <2>1 DEF PairInv
<1>10. PairInv(s, s)'
    BY DEF PairInv
<1>11. DeletionInv'
  <2>1. UNCHANGED <<deleting, cascaded>> /\ DeletionInv
    BY <1>1 DEF IInv
  <2>2. \A t \in Sessions \ {s} : InProgress(t)' => InProgress(t) /\ session'[t].alone = session[t].alone
    BY <1>4
  <2>q. QED BY <1>5, <2>1, <2>2 DEF DeletionInv
<1>q. QED BY <1>5, <1>6, <1>7, <1>8, <1>9, <1>10, <1>11 DEF IInv

-----------------------------------------------------------------------------
\* The modellers' commits.

\* Everyone in progress is overtaken, so nothing is said any more of what they read;
\* what they deleted and inserted is as before, and so is the index, or it is gone.
LEMMA OvertakeKeeps ==
    ASSUME IInv, Overtake, TypeOK', index' \subseteq index, version' => version,
           deleting' => deleting, ~deleting' => cascaded' = {}
    PROVE  IInv'
<1>1. ASSUME NEW s \in Sessions
      PROVE  /\ session'[s].pc = session[s].pc /\ session'[s].rebuilds = session[s].rebuilds
             /\ session'[s].table = session[s].table /\ session'[s].rows = session[s].rows
             /\ session'[s].cached = session[s].cached
             /\ session'[s].collection = session[s].collection
             /\ session'[s].deleted = session[s].deleted /\ session'[s].added = session[s].added
             /\ session'[s].alone = session[s].alone
             /\ session'[s].stale = session[s].stale /\ session'[s].outdated = session[s].outdated
             /\ InProgress(s)' <=> InProgress(s)
             /\ InProgress(s) => session'[s].overtaken
  <2>1. session[s] \in Session
    BY DEF IInv, TypeOK
  <2>2. session'[s] = IF InProgress(s) THEN [session[s] EXCEPT !.overtaken = TRUE] ELSE session[s]
    BY DEF Overtake
  <2>q. QED BY <2>1, <2>2 DEF Session, InProgress
<1>2. ASSUME NEW s \in Sessions PROVE SessionInv(s)'
  <2>1. SessionInv(s)
    BY DEF IInv
  <2>2. LocalInv(s)' /\ CurrentInv(s)' /\ LoneInv(s)'
    BY <1>1, <2>1 DEF SessionInv, LocalInv, CurrentInv, LoneInv
  <2>3. FreshInv(s)' /\ ForeignInv(s)'
    BY <1>1 DEF FreshInv, ForeignInv
  <2>q. QED BY <2>2, <2>3 DEF SessionInv
<1>3. ASSUME NEW s \in Sessions, NEW t \in Sessions PROVE PairInv(s, t)'
  <2>1. PairInv(s, t)
    BY DEF IInv
  <2>2. session'[s].overtaken \in BOOLEAN /\ session'[t].overtaken \in BOOLEAN
    BY DEF TypeOK, Session
  <2>q. QED BY <1>1, <2>1, <2>2 DEF PairInv
<1>4. DeletionInv'
    BY <1>1 DEF IInv, DeletionInv
<1>q. QED BY <1>2, <1>3, <1>4 DEF IInv

LEMMA OvertakeIsTyped == ASSUME TypeOK, Overtake PROVE session' \in [Sessions -> Session]
<1>1. ASSUME NEW s \in Sessions
      PROVE  (IF InProgress(s) THEN [session[s] EXCEPT !.overtaken = TRUE] ELSE session[s]) \in Session
  <2>1. session[s] \in Session
    BY DEF TypeOK
  <2>q. QED BY <2>1 DEF Session
<1>q. QED BY <1>1 DEF Overtake

LEMMA EditObjectKeeps == ASSUME IInv, NEW o \in Objects, EditObject(o) PROVE IInv'
<1>1. TypeOK /\ DeletionInv
    BY DEF IInv
<1>2. PICK n \in (Names \cup {None}) \ {name[o]} :
          /\ edits' = edits + 1 /\ name' = [name EXCEPT ![o] = n]
          /\ synonyms' = IF n = None THEN [synonyms EXCEPT ![o] = {}] ELSE synonyms
          /\ Overtake /\ UNCHANGED <<version, deleting, cascaded, index>>
    BY DEF EditObject
<1>3. TypeOK'
  <2>1. name' \in [Objects -> Names \cup {None}] /\ synonyms' \in [Objects -> SUBSET Terms]
    BY <1>1, <1>2 DEF TypeOK
  <2>q. QED BY <1>1, <1>2, <2>1, OvertakeIsTyped DEF TypeOK
<1>q. QED BY <1>1, <1>2, <1>3, OvertakeKeeps DEF DeletionInv

LEMMA EditSynonymsKeeps == ASSUME IInv, NEW o \in Objects, EditSynonyms(o) PROVE IInv'
<1>1. TypeOK /\ DeletionInv
    BY DEF IInv
<1>2. PICK T \in (SUBSET Terms) \ {synonyms[o]} :
          /\ edits' = edits + 1 /\ synonyms' = [synonyms EXCEPT ![o] = T]
          /\ Overtake /\ UNCHANGED <<version, deleting, cascaded, name, index>>
    BY DEF EditSynonyms
<1>3. TypeOK'
  <2>1. synonyms' \in [Objects -> SUBSET Terms]
    BY <1>1, <1>2 DEF TypeOK
  <2>q. QED BY <1>1, <1>2, <2>1, OvertakeIsTyped DEF TypeOK
<1>q. QED BY <1>1, <1>2, <1>3, OvertakeKeeps DEF DeletionInv

LEMMA CommitDeletionKeeps == ASSUME IInv, CommitDeletion PROVE IInv'
<1>1. /\ version' = FALSE /\ deleting' = FALSE /\ cascaded' = {} /\ edits' = edits
      /\ name' = [o \in Objects |-> None] /\ synonyms' = NoSynonyms /\ index' = {} /\ Overtake
    BY DEF CommitDeletion
<1>2. TypeOK'
  <2>1. name' \in [Objects -> Names \cup {None}] /\ synonyms' \in [Objects -> SUBSET Terms]
    BY <1>1 DEF NoSynonyms
  <2>2. version' \in BOOLEAN /\ deleting' \in BOOLEAN /\ cascaded' \subseteq Row /\ index' \subseteq Row
    BY <1>1
  <2>3. session' \in [Sessions -> Session] /\ edits' \in Nat
    BY <1>1, OvertakeIsTyped DEF IInv, TypeOK
  <2>q. QED BY <2>1, <2>2, <2>3 DEF TypeOK
<1>q. QED BY <1>1, <1>2, OvertakeKeeps

\* Steps of a deletion that the sessions do not notice.
LEMMA UnnoticedKeeps ==
    ASSUME IInv, UNCHANGED <<version, name, synonyms, index, session>>, TypeOK', DeletionInv'
    PROVE  IInv'
<1>1. ASSUME NEW s \in Sessions PROVE SessionInv(s)'
  <2>1. SessionInv(s) /\ (InProgress(s)' <=> InProgress(s)) /\ Live' = Live /\ Wanted(s)' = Wanted(s)
    BY WantedStays DEF IInv, InProgress
  <2>2. LocalInv(s)' /\ CurrentInv(s)' /\ LoneInv(s)'
    BY <2>1 DEF SessionInv, LocalInv, CurrentInv, LoneInv
  <2>3. FreshInv(s)' /\ ForeignInv(s)'
    BY <2>1 DEF SessionInv, FreshInv, ForeignInv
  <2>q. QED BY <2>2, <2>3 DEF SessionInv
<1>2. ASSUME NEW s \in Sessions, NEW t \in Sessions PROVE PairInv(s, t)'
    BY DEF IInv, PairInv, InProgress
<1>q. QED BY <1>1, <1>2 DEF IInv

LEMMA CascadeKeeps == ASSUME IInv, CascadeRow \/ RollbackDeletion PROVE IInv'
<1>1. CASE CascadeRow
  <2>1. PICK r \in index : cascaded' = cascaded \cup {r}
    BY <1>1 DEF CascadeRow
  <2>2. deleting /\ UNCHANGED <<version, deleting, name, synonyms, index, session, edits>>
    BY <1>1 DEF CascadeRow
  <2>3. TypeOK'
    BY <2>1, <2>2 DEF IInv, TypeOK
  <2>4. DeletionInv'
    BY <2>2 DEF IInv, DeletionInv, InProgress
  <2>q. QED BY <2>2, <2>3, <2>4, UnnoticedKeeps
<1>2. CASE RollbackDeletion
  <2>1. deleting' = FALSE /\ cascaded' = {} /\ UNCHANGED <<version, name, synonyms, index, session, edits>>
    BY <1>2 DEF RollbackDeletion
  <2>2. TypeOK'
    BY <2>1 DEF IInv, TypeOK
  <2>3. DeletionInv'
    BY <2>1 DEF DeletionInv
  <2>q. QED BY <2>1, <2>2, <2>3, UnnoticedKeeps
<1>q. QED BY <1>1, <1>2

\* Once the version is locked, nobody in progress is alone; all else stays.
LEMMA LockKeeps == ASSUME IInv, LockVersion PROVE IInv'
<1> DEFINE Noticed(s) == IF InProgress(s) THEN [session[s] EXCEPT !.alone = FALSE] ELSE session[s]
<1>1. /\ TypeOK /\ session \in [Sessions -> Session] /\ deleting' = TRUE /\ edits' = edits + 1
      /\ session' = [s \in Sessions |-> Noticed(s)]
      /\ UNCHANGED <<version, cascaded, name, synonyms, index>>
    BY DEF IInv, TypeOK, LockVersion
<1>2. ASSUME NEW s \in Sessions
      PROVE  /\ session'[s] \in Session
             /\ session'[s].pc = session[s].pc /\ session'[s].rebuilds = session[s].rebuilds
             /\ session'[s].table = session[s].table /\ session'[s].heard = session[s].heard
             /\ session'[s].rows = session[s].rows /\ session'[s].cached = session[s].cached
             /\ session'[s].collection = session[s].collection
             /\ session'[s].deleted = session[s].deleted /\ session'[s].added = session[s].added
             /\ session'[s].overtaken = session[s].overtaken
             /\ session'[s].stale = session[s].stale /\ session'[s].outdated = session[s].outdated
             /\ InProgress(s) => ~session'[s].alone
             /\ ~InProgress(s) => session'[s].alone = session[s].alone
             /\ InProgress(s)' <=> InProgress(s)
  <2>1. session[s] \in Session /\ session'[s] = Noticed(s)
    BY <1>1
  <2>q. QED BY <2>1 DEF Session, InProgress
<1> HIDE DEF Noticed
<1>3. TypeOK'
  <2>1. session' \in [Sessions -> Session]
    BY <1>1, <1>2
  <2>q. QED BY <1>1, <2>1 DEF TypeOK
<1>4. DeletionInv'
    BY <1>1, <1>2 DEF DeletionInv
<1>5. ASSUME NEW s \in Sessions PROVE SessionInv(s)'
  <2>1. SessionInv(s) /\ Live' = Live /\ Wanted(s)' = Wanted(s)
    BY <1>1, <1>2, WantedStays DEF IInv
  <2>2. LocalInv(s)' /\ CurrentInv(s)'
    BY <1>1, <1>2, <2>1 DEF SessionInv, LocalInv, CurrentInv
  <2>3. FreshInv(s)' /\ ForeignInv(s)'
    BY <1>1, <1>2, <2>1 DEF SessionInv, FreshInv, ForeignInv
  <2>4. LoneInv(s)'
    BY <1>1, <1>2, <2>1 DEF SessionInv, LoneInv
  <2>q. QED BY <2>2, <2>3, <2>4 DEF SessionInv
<1>6. ASSUME NEW s \in Sessions, NEW t \in Sessions PROVE PairInv(s, t)'
  <2>1. PairInv(s, t)
    BY DEF IInv
  <2>2. ASSUME s # t, InProgress(s)', InProgress(t)'
        PROVE  ~session'[s].alone /\ session'[s].overtaken = session'[t].overtaken
    BY <1>2, <2>1, <2>2 DEF PairInv
  <2>3. session'[s].added = session[s].added /\ session'[t].added = session[t].added
    BY <1>2
  <2>q. QED BY <2>1, <2>2, <2>3 DEF PairInv
<1>q. QED BY <1>3, <1>4, <1>5, <1>6 DEF IInv

LEMMA StutterKeeps == ASSUME IInv, UNCHANGED vars PROVE IInv'
<1>1. TypeOK' /\ DeletionInv'
    BY DEF IInv, TypeOK, DeletionInv, InProgress, vars
<1>q. QED BY <1>1, UnnoticedKeeps DEF vars

LEMMA InitInv == Init => IInv
<1> SUFFICES ASSUME Init PROVE IInv
    OBVIOUS
<1>1. TypeOK
    BY NewSessionIsSession DEF Init, TypeOK, NoSynonyms
<1>2. \A s \in Sessions : session[s] = NewSession /\ ~InProgress(s)
    BY DEF Init, NewSession, InProgress
<1>3. ASSUME NEW s \in Sessions PROVE SessionInv(s)
    BY <1>2 DEF SessionInv, LocalInv, CurrentInv, FreshInv, ForeignInv, LoneInv, NewSession
<1>4. ASSUME NEW s \in Sessions, NEW t \in Sessions PROVE PairInv(s, t)
    BY <1>2 DEF PairInv, NewSession
<1>5. DeletionInv
    BY DEF Init, DeletionInv
<1>q. QED BY <1>1, <1>3, <1>4, <1>5 DEF IInv

LEMMA Invariant == Spec => []IInv
<1>1. ASSUME IInv, [Next]_vars PROVE IInv'
  <2>1. ASSUME NEW s \in Sessions, Rebuild(s) PROVE IInv'
    BY <1>1, <2>1, BeginKeeps, ReadSynonymsKeeps, ReadTableKeeps, LoadExistingKeeps, DeleteRowKeeps,
       DeletedKeeps, InsertRowKeeps, RefreshKeeps, DeadlockKeeps, CommitKeeps, RollbackKeeps DEF Rebuild
  <2>2. ASSUME NEW o \in Objects, EditObject(o) \/ EditSynonyms(o) PROVE IInv'
    BY <1>1, <2>2, EditObjectKeeps, EditSynonymsKeeps
  <2>3. CASE LockVersion \/ CascadeRow \/ CommitDeletion \/ RollbackDeletion
    BY <1>1, <2>3, LockKeeps, CascadeKeeps, CommitDeletionKeeps
  <2>4. CASE UNCHANGED vars
    BY <1>1, <2>4, StutterKeeps
  <2>q. QED BY <1>1, <2>1, <2>2, <2>3, <2>4 DEF Next
<1>q. QED BY <1>1, InitInv, PTL DEF Spec

-----------------------------------------------------------------------------
(***************************************************************************)
(* What the callers rely on.                                               *)
(***************************************************************************)

\* The tables and the sessions of rebuild_search_index() keep their types.
THEOREM TypeCorrect == Spec => []TypeOK
<1>1. IInv => TypeOK
    BY DEF IInv
<1>q. QED BY <1>1, Invariant, PTL

\* However many sessions rebuild, retry and roll back, and whatever modellers commit
\* meanwhile, a rebuild fails only in the presence of another or of a deletion of the
\* version, or with a collection that another had outdated.
THEOREM LoneRebuildsSucceed == Spec => []LoneRebuildSucceeds
<1>1. IInv => LoneRebuildSucceeds
    BY DEF IInv, SessionInv, LoneInv, LoneRebuildSucceeds
<1>q. QED BY <1>1, Invariant, PTL

\* The rows a session wants are the model, one for each object.
LEMMA WantedIsExact == ASSUME IsFiniteSet(Objects), NEW s PROVE IsExact(Wanted(s))
<1> DEFINE Entry(o) == [object |-> o, name |-> name[o], synonyms |-> synonyms[o]]
           rows == [o \in Live |-> RowOf(s, o)]
           entries == [o \in Live |-> Entry(o)]
<1>1. Model = {Entry(o) : o \in Live}
    BY DEF Model, Live
<1>2. Content(Wanted(s)) = Model
  <2>1. \A o \in Live : /\ RowOf(s, o).object = o /\ RowOf(s, o).name = name[o]
                        /\ RowOf(s, o).synonyms = synonyms[o]
    BY DEF RowOf
  <2>2. Content(Wanted(s)) = {Entry(o) : o \in Live}
    BY <2>1 DEF Content, Wanted
  <2>q. QED BY <1>1, <2>2
<1>3. IsFiniteSet(Live)
    BY FS_Subset DEF Live
<1>4. rows \in Bijection(Live, Wanted(s))
  <2>1. \A o, p \in Live : RowOf(s, o) = RowOf(s, p) => o = p
    BY DEF RowOf
  <2>2. rows \in [Live -> Wanted(s)] /\ \A r \in Wanted(s) : \E o \in Live : rows[o] = r
    BY DEF Wanted
  <2>3. \A o, p \in Live : rows[o] = rows[p] => o = p
    BY <2>1
  <2> HIDE DEF rows
  <2>q. QED BY <2>2, <2>3, Fun_IsBij
<1>5. entries \in Bijection(Live, Model)
  <2>1. \A o, p \in Live : Entry(o) = Entry(p) => o = p
    OBVIOUS
  <2> HIDE DEF Entry
  <2>2. entries \in [Live -> Model] /\ \A r \in Model : \E o \in Live : entries[o] = r
    BY <1>1
  <2>3. \A o, p \in Live : entries[o] = entries[p] => o = p
    BY <2>1
  <2> HIDE DEF entries
  <2>q. QED BY <2>2, <2>3, Fun_IsBij
<1>6. Cardinality(Wanted(s)) = Cardinality(Live) /\ Cardinality(Model) = Cardinality(Live)
    BY <1>3, <1>4, <1>5, FS_Bijection DEF ExistsBijection
<1>q. QED BY <1>2, <1>6 DEF IsExact

\* Whoever else rebuilds at the same time, a rebuild that commits leaves one row for
\* each object of the model and no other, if the model stood still and its collection
\* was not outdated when it began.
THEOREM RebuildsAreExact == ASSUME IsFiniteSet(Objects) PROVE Spec => RebuildIsExact
<1>1. ASSUME IInv, NEW s \in Sessions, Commit(s), ~session[s].overtaken, ~session[s].outdated
      PROVE  IsExact(index')
  <2> DEFINE y == session[s]
  <2>1. /\ SessionInv(s) /\ y.pc = "done" /\ InProgress(s)
        /\ index' = (index \ y.deleted) \cup y.added
    BY <1>1 DEF IInv, Commit, Visible, InProgress
  <2>2. y.added = Wanted(s)
    BY <1>1, <2>1 DEF SessionInv, FreshInv
  <2>3. ASSUME NEW r \in index \ y.deleted PROVE FALSE
    <3>1. r.object \in Live /\ \A a \in y.added : a.object # r.object
        BY <1>1, <2>1, <2>3 DEF SessionInv, ForeignInv
    <3>2. RowOf(s, r.object) \in y.added /\ RowOf(s, r.object).object = r.object
        BY <2>2, <3>1 DEF Wanted, RowOf
    <3>q. QED BY <3>1, <3>2
  <2>4. index' = Wanted(s)
    BY <2>1, <2>2, <2>3
  <2>q. QED BY <2>4, WantedIsExact
<1>2. IInv /\ [Next]_vars =>
        [\A s \in Sessions :
            (Commit(s) /\ version /\ ~session[s].overtaken /\ ~session[s].outdated)
                => IsExact(index')]_vars
    BY <1>1
<1>q. QED BY <1>2, Invariant, PTL DEF Spec, RebuildIsExact
=============================================================================
