------------------------- MODULE DocumentIndexProofs -------------------------
(***************************************************************************)
(* What holds of DocumentIndex for every finite set of sessions, every     *)
(* text and every encoder.                                                 *)
(***************************************************************************)
EXTENDS DocumentIndex, FiniteSetTheorems, TLAPS

-----------------------------------------------------------------------------
(***************************************************************************)
(* The inductive invariant.  That the chunks are of one rebuild rests on   *)
(* the row locks and on the unique constraint: a session that has inserted *)
(* chunks has deleted all there are, it is the only such session, and the  *)
(* rows another session has written are still there when it commits.       *)
(***************************************************************************)

\* A row on its own: it has its type, its place in its text, the hash of its
\* text, and a vector of its own or none.
RowInv(c) ==
    /\ c \in DocumentChunk
    /\ c.ordinal < Pieces[c.text]
    /\ c.source_hash = c.text
    /\ c.embedding = None <=> c.embedding_model = None
    /\ c.embedding # None =>
          c.embedding = [text |-> c.text, ordinal |-> c.ordinal, encoder |-> c.embedding_model]

\* The rows a session has loaded or written.
Loaded(s) == session[s].todo \cup session[s].written

SessionInv(s) ==
    LET x == session[s] IN
    /\ x \in Session
    /\ IsFiniteSet(x.found) /\ IsFiniteSet(x.added)
    /\ IsFiniteSet(x.todo) /\ IsFiniteSet(x.written)
    /\ \A c \in x.added \cup Loaded(s) : RowInv(c)
    /\ x.pc \in {"delete", "deleting", "flush"} => Loaded(s) = {}
    /\ x.pc = "embed" => x.found = {} /\ x.encoder \in Encoders
    /\ x.added # {} => x.pc = "commit" /\ x.written = {}
    /\ x.written # {} => x.found = {}

\* The chunks are all the pieces of one text, from one rebuild.
OneRebuild ==
    \A c \in chunks :
        /\ \A d \in chunks : /\ d.rebuild = c.rebuild
                             /\ d.text = c.text
                             /\ d.ordinal = c.ordinal => d = c
        /\ \A i \in 0..(Pieces[c.text] - 1) : \E d \in chunks : d.ordinal = i

TablesInv ==
    /\ document \in Document
    /\ document.content_hash = document.text
    /\ ~document.exists => chunks = {}
    /\ IsFiniteSet(chunks)
    /\ \A c \in chunks : RowInv(c)
    /\ OneRebuild

\* The rows a session holds are, or were, the rows of the table; those it has
\* written are locked, hence still there.
LoadedInv(s) ==
    /\ session[s].todo \cap session[s].written = {}
    /\ \A d \in Loaded(s) : \A c \in chunks : Same(c, d) => c.text = d.text
    /\ \A d \in Loaded(s) : \A e \in Loaded(s) : Same(d, e) => d = e
    /\ \A d \in session[s].written :
          /\ \E c \in chunks : Same(c, d)
          /\ \A v \in Sessions \ {s} : d.rebuild \notin Deleted(v)

\* The rows a session has inserted are a whole text's, under an id of their own,
\* and will be alone once it commits.
AddedInv(s) ==
    session[s].added # {} =>
        /\ document.exists
        /\ \A c \in chunks : c.rebuild \in session[s].found
        /\ \A v \in Sessions \ {s} : session[v].added = {}
        /\ \E n \in Nat, t \in Texts :
              /\ session[s].added = [rebuild : {n}, ordinal : 0..(Pieces[t] - 1), text : {t},
                                     source_hash : {t}, embedding : {None},
                                     embedding_model : {None}]
              /\ n \notin Rebuilds(chunks)
              /\ \A v \in Sessions : n \notin Rebuilds(Loaded(v))

IInv ==
    /\ session \in [Sessions -> Session]
    /\ TablesInv
    /\ \A s \in Sessions : SessionInv(s) /\ LoadedInv(s) /\ AddedInv(s)

-----------------------------------------------------------------------------
\* Row ids.

\* Finitely many rows are of finitely many rebuilds.
LEMMA RebuildsAreFinite ==
  ASSUME NEW R, IsFiniteSet(R)
  PROVE  IsFiniteSet(Rebuilds(R))
<1> DEFINE f == [c \in R |-> c.rebuild]
<1>1. f \in Surjection(R, Rebuilds(R))
  BY DEF Rebuilds, Surjection
<1> QED BY <1>1, FS_Surjection

\* Among the numbers from 0 to the size of a finite set there is one outside it.
LEMMA SomeNumberIsOutside ==
  ASSUME NEW S, IsFiniteSet(S)
  PROVE  \E n \in 0..Cardinality(S) : n \notin S
<1>1. Cardinality(S) \in Nat
  BY FS_CardinalityType
<1>2. Cardinality(0..Cardinality(S)) = Cardinality(S) + 1
  BY <1>1, FS_Interval
<1>3. ~(0..Cardinality(S) \subseteq S)
  BY <1>1, <1>2, FS_Subset
<1> QED BY <1>3

\* The id of new rows is no row's, and no session holds a row that has it.
LEMMA UnusedIsNew ==
  ASSUME IsFiniteSet(Sessions), IInv
  PROVE  /\ Unused \in Nat
         /\ Unused \notin Rebuilds(chunks)
         /\ \A v \in Sessions : Unused \notin Rebuilds(Loaded(v))
<1> DEFINE rows(s) == session[s].added \cup session[s].todo \cup session[s].written
           ids(s) == session[s].found \cup Rebuilds(rows(s))
           used == Rebuilds(chunks) \cup UNION {ids(s) : s \in Sessions}
<1>1. ASSUME NEW s \in Sessions PROVE IsFiniteSet(ids(s))
  <2>1. /\ IsFiniteSet(session[s].found) /\ IsFiniteSet(session[s].added)
        /\ IsFiniteSet(session[s].todo) /\ IsFiniteSet(session[s].written)
    BY DEF IInv, SessionInv
  <2>2. IsFiniteSet(session[s].added \cup session[s].todo)
    BY <2>1, FS_Union
  <2>3. IsFiniteSet(rows(s))
    BY <2>1, <2>2, FS_Union
  <2>4. IsFiniteSet(Rebuilds(rows(s)))
    BY <2>3, RebuildsAreFinite
  <2> QED BY <2>1, <2>4, FS_Union
<1> DEFINE f == [s \in Sessions |-> ids(s)]
           T == {ids(s) : s \in Sessions}
<1>2. f \in Surjection(Sessions, T)
  <2> HIDE DEF ids
  <2> QED BY DEF Surjection
<1>3. IsFiniteSet(T)
  BY <1>2, FS_Surjection
<1>4. IsFiniteSet(UNION T)
  <2>1. \A t \in T : IsFiniteSet(t)
    <3> HIDE DEF ids
    <3> QED BY <1>1
  <2> HIDE DEF T
  <2> QED BY <1>3, <2>1, FS_UNION
<1>5. IsFiniteSet(used)
  <2>1. IsFiniteSet(Rebuilds(chunks))
    BY RebuildsAreFinite DEF IInv, TablesInv
  <2> HIDE DEF ids
  <2> QED BY <1>4, <2>1, FS_Union
<1>6. Unused = CHOOSE n \in 0..Cardinality(used) : n \notin used
  BY DEF Unused
<1>7. Unused \in 0..Cardinality(used) /\ Unused \notin used
  <2> HIDE DEF used
  <2> QED BY <1>5, <1>6, SomeNumberIsOutside
<1>8. Cardinality(used) \in Nat
  BY <1>5, FS_CardinalityType
<1>9. ASSUME NEW v \in Sessions PROVE Unused \notin Rebuilds(Loaded(v))
  <2>1. Rebuilds(Loaded(v)) \subseteq ids(v)
    BY DEF Rebuilds, Loaded
  <2>2. ids(v) \subseteq used
    <3> HIDE DEF ids
    <3> QED OBVIOUS
  <2> HIDE DEF used, ids
  <2> QED BY <1>7, <2>1, <2>2
<1> QED
  <2>1. Rebuilds(chunks) \subseteq used
    OBVIOUS
  <2> HIDE DEF used
  <2> QED BY <1>7, <1>8, <1>9, <2>1

\* The rows made for a text: finitely many, each of them sound.
LEMMA NewChunksAreSound ==
  ASSUME IsFiniteSet(Sessions), IInv, NEW t \in Texts
  PROVE  LET new == NewChunks(t, t) IN
         /\ IsFiniteSet(new)
         /\ \A c \in new : RowInv(c)
         /\ \E n \in Nat :
              /\ new = [rebuild : {n}, ordinal : 0..(Pieces[t] - 1), text : {t},
                        source_hash : {t}, embedding : {None}, embedding_model : {None}]
              /\ n \notin Rebuilds(chunks)
              /\ \A v \in Sessions : n \notin Rebuilds(Loaded(v))
<1>1. PICK n \in Nat : n = Unused
  BY UnusedIsNew
<1> DEFINE new == [rebuild : {n}, ordinal : 0..(Pieces[t] - 1), text : {t},
                   source_hash : {t}, embedding : {None}, embedding_model : {None}]
<1>2. NewChunks(t, t) = new
  BY <1>1 DEF NewChunks
<1>3. Pieces[t] \in Nat
  BY PiecesAssumption
<1>4. IsFiniteSet(new)
  <2> DEFINE f == [i \in 0..(Pieces[t] - 1) |->
                     [rebuild |-> n, ordinal |-> i, text |-> t, source_hash |-> t,
                      embedding |-> None, embedding_model |-> None]]
  <2>1. f \in Surjection(0..(Pieces[t] - 1), new)
    BY DEF Surjection
  <2>2. IsFiniteSet(0..(Pieces[t] - 1))
    BY <1>3, FS_Interval
  <2> QED BY <2>1, <2>2, FS_Surjection
<1>5. ASSUME NEW c \in new PROVE RowInv(c)
  BY <1>3 DEF RowInv, DocumentChunk
<1> HIDE DEF new
<1> QED
  BY <1>1, <1>2, <1>4, <1>5, UnusedIsNew DEF new

-----------------------------------------------------------------------------
\* Steps that leave the tables alone and touch one session.

\* A session that moves on without touching the tables, and without deleting a row another
\* has written, disturbs no other.
LEMMA OneSessionMoves ==
  ASSUME IInv, NEW s \in Sessions, NEW x \in Session,
         session' = [session EXCEPT ![s] = x], UNCHANGED <<document, chunks>>,
         SessionInv(s)', LoadedInv(s)', AddedInv(s)',
         Rebuilds(x.todo \cup x.written) \subseteq Rebuilds(chunks) \cup Rebuilds(Loaded(s)),
         \A v \in Sessions \ {s} : \A d \in session[v].written : d.rebuild \notin Deleted(s)',
         x.added = {} \/ \A v \in Sessions \ {s} : session[v].added = {}
  PROVE  IInv'
<1>1. session' \in [Sessions -> Session] /\ session'[s] = x
  BY DEF IInv
<1>2. TablesInv'
  BY DEF IInv, TablesInv, OneRebuild
<1>3. ASSUME NEW v \in Sessions \ {s}
      PROVE  /\ session'[v] = session[v]
             /\ Loaded(v)' = Loaded(v)
             /\ Deleted(v)' = Deleted(v)
  BY DEF IInv, Loaded, Deleted
<1>4. ASSUME NEW v \in Sessions \ {s} PROVE SessionInv(v)'
  BY <1>3 DEF IInv, SessionInv
<1>5. ASSUME NEW v \in Sessions \ {s} PROVE LoadedInv(v)'
  <2>1. LoadedInv(v)
    BY DEF IInv
  <2>2. ASSUME NEW d \in session[v].written, NEW u \in Sessions \ {v}
        PROVE  d.rebuild \notin Deleted(u)'
    BY <1>3, <2>1, <2>2 DEF LoadedInv
  <2> QED BY <1>3, <2>1, <2>2 DEF LoadedInv
<1>6. ASSUME NEW v \in Sessions \ {s}, session[v].added # {} PROVE AddedInv(v)'
  <2>1. AddedInv(v)
    BY DEF IInv
  <2>2. x.added = {}
    BY <1>6
  <2>3. Loaded(s)' = x.todo \cup x.written
    BY <1>1 DEF Loaded
  <2>4. \A u \in Sessions : Rebuilds(Loaded(u))' \subseteq Rebuilds(chunks) \cup Rebuilds(Loaded(u))
    BY <1>3, <2>3 DEF Rebuilds
  <2>5. \A u \in Sessions \ {v} : session'[u].added = {}
    BY <1>1, <1>3, <1>6, <2>1, <2>2 DEF AddedInv
  <2>6. Rebuilds(chunks)' = Rebuilds(chunks)
    BY DEF Rebuilds
  <2>7. \A n : /\ n \notin Rebuilds(chunks)
               /\ \A u \in Sessions : n \notin Rebuilds(Loaded(u))
               => \A u \in Sessions : n \notin Rebuilds(Loaded(u))'
    BY <2>4
  <2> QED BY <1>3, <1>6, <2>1, <2>5, <2>6, <2>7 DEF AddedInv
<1>7. ASSUME NEW v \in Sessions \ {s} PROVE AddedInv(v)'
  BY <1>3, <1>6 DEF AddedInv
<1> QED
  BY <1>1, <1>2, <1>4, <1>5, <1>7 DEF IInv

\* An idle session is typed.
LEMMA IdleIsSession == Texts # {} => Idle \in Session
BY FS_EmptySet DEF Idle, Session, Steps

\* Loading a document keeps the invariant.
LEMMA StartRebuildKeeps ==
  ASSUME IInv, NEW s \in Sessions, NEW text \in Texts, StartRebuild(s, text)
  PROVE  IInv'
<1> DEFINE x == [Idle EXCEPT !.pc = "delete", !.loaded = document.text, !.text = text]
<1>1. Idle \in Session /\ document.text \in Texts
  BY IdleIsSession DEF IInv, TablesInv, Document
<1>2. /\ x \in Session /\ x.pc = "delete"
      /\ x.found = {} /\ x.added = {} /\ x.todo = {} /\ x.written = {}
  BY <1>1 DEF Session, Steps, Idle
<1>3. session' = [session EXCEPT ![s] = x] /\ UNCHANGED <<document, chunks>>
  BY DEF StartRebuild
<1> HIDE DEF x
<1>4. session'[s] = x
  BY <1>3 DEF IInv
<1>5. Loaded(s)' = {} /\ Deleted(s)' = {}
  BY <1>2, <1>4 DEF Loaded, Deleted
<1>6. SessionInv(s)'
  BY <1>2, <1>4, <1>5, FS_EmptySet DEF SessionInv
<1>7. LoadedInv(s)' /\ AddedInv(s)'
  BY <1>2, <1>4, <1>5 DEF LoadedInv, AddedInv
<1> QED
  BY <1>2, <1>3, <1>5, <1>6, <1>7, OneSessionMoves DEF Rebuilds

\* Rolling back keeps the invariant: the rows written or inserted were never in the table.
LEMMA RollbackKeeps ==
  ASSUME IInv, NEW s \in Sessions, Rollback(s)
  PROVE  IInv'
<1>1. Idle \in Session
  BY IdleIsSession DEF IInv, TablesInv, Document
<1>2. /\ Idle.pc = "idle" /\ Idle.found = {} /\ Idle.added = {}
      /\ Idle.todo = {} /\ Idle.written = {}
  BY DEF Idle
<1>3. session' = [session EXCEPT ![s] = Idle] /\ UNCHANGED <<document, chunks>>
  BY DEF Rollback
<1>4. session'[s] = Idle
  BY <1>3 DEF IInv
<1>5. Loaded(s)' = {} /\ Deleted(s)' = {}
  BY <1>2, <1>4 DEF Loaded, Deleted
<1>6. SessionInv(s)'
  BY <1>1, <1>2, <1>4, <1>5, FS_EmptySet DEF SessionInv
<1>7. LoadedInv(s)' /\ AddedInv(s)'
  BY <1>2, <1>4, <1>5 DEF LoadedInv, AddedInv
<1> QED
  BY <1>1, <1>2, <1>3, <1>5, <1>6, <1>7, OneSessionMoves DEF Rebuilds

\* The rows a DELETE finds are no session's own yet: taking its snapshot keeps the invariant.
LEMMA DeleteStartsKeeps ==
  ASSUME IInv, NEW s \in Sessions, DeleteStarts(s)
  PROVE  IInv'
<1> DEFINE x == [session[s] EXCEPT !.pc = "deleting", !.found = Rebuilds(chunks)]
<1>1. SessionInv(s) /\ Rebuilds(chunks) \subseteq Nat /\ IsFiniteSet(Rebuilds(chunks))
  BY RebuildsAreFinite DEF IInv, TablesInv, RowInv, DocumentChunk, Rebuilds
<1>2. session[s] \in Session /\ Loaded(s) = {} /\ session[s].added = {}
  BY <1>1 DEF SessionInv, DeleteStarts
<1>3. /\ x \in Session /\ x.pc = "deleting" /\ x.found = Rebuilds(chunks)
      /\ x.added = {} /\ x.todo = {} /\ x.written = {}
  BY <1>1, <1>2 DEF Session, Steps, Loaded
<1>4. session' = [session EXCEPT ![s] = x] /\ UNCHANGED <<document, chunks>>
  BY DEF DeleteStarts, IInv
<1> HIDE DEF x
<1>5. session'[s] = x
  BY <1>4 DEF IInv
<1>6. Loaded(s)' = {} /\ Deleted(s)' = {}
  BY <1>3, <1>5 DEF Loaded, Deleted
<1>7. SessionInv(s)'
  BY <1>1, <1>3, <1>5, <1>6, FS_EmptySet DEF SessionInv
<1>8. LoadedInv(s)' /\ AddedInv(s)'
  BY <1>3, <1>5, <1>6 DEF LoadedInv, AddedInv
<1> QED
  BY <1>3, <1>4, <1>6, <1>7, <1>8, OneSessionMoves DEF Rebuilds

\* The DELETE waits for the rows others have written, and so never takes one.
LEMMA DeleteEndsKeeps ==
  ASSUME IInv, NEW s \in Sessions, DeleteEnds(s)
  PROVE  IInv'
<1> DEFINE x == [session[s] EXCEPT !.pc = "flush"]
<1>1. SessionInv(s) /\ session[s] \in Session /\ session[s].pc = "deleting"
  BY DEF IInv, SessionInv, DeleteEnds
<1>2. Loaded(s) = {} /\ session[s].added = {}
  BY <1>1 DEF SessionInv
<1>3. /\ x \in Session /\ x.pc = "flush" /\ x.found = session[s].found
      /\ x.added = {} /\ x.todo = {} /\ x.written = {}
  BY <1>1, <1>2 DEF Session, Steps, Loaded
<1>4. session' = [session EXCEPT ![s] = x] /\ UNCHANGED <<document, chunks>>
  BY DEF DeleteEnds, IInv
<1> HIDE DEF x
<1>5. session'[s] = x
  BY <1>4 DEF IInv
<1>6. Loaded(s)' = {} /\ Deleted(s)' = session[s].found
  BY <1>3, <1>5 DEF Loaded, Deleted
<1>7. ASSUME NEW v \in Sessions \ {s}, NEW d \in session[v].written
      PROVE  d.rebuild \notin session[s].found
  <2>1. PICK c \in chunks : Same(c, d)
    BY DEF IInv, LoadedInv
  <2>2. LocksChunk(v, c)
    BY <2>1 DEF LocksChunk
  <2> QED BY <2>1, <2>2 DEF DeleteEnds, Same
<1>8. SessionInv(s)'
  BY <1>1, <1>3, <1>5, <1>6, FS_EmptySet DEF SessionInv
<1>9. LoadedInv(s)' /\ AddedInv(s)'
  BY <1>3, <1>5, <1>6 DEF LoadedInv, AddedInv
<1> QED
  BY <1>3, <1>4, <1>6, <1>7, <1>8, <1>9, OneSessionMoves DEF Rebuilds

\* Chunks go in beside none but those the session has deleted: every text that
\* has chunks has a first one, and the unique constraint keeps two apart.
LEMMA FlushKeeps ==
  ASSUME IInv, IsFiniteSet(Sessions), NEW s \in Sessions, Flush(s)
  PROVE  IInv'
<1> DEFINE t == session[s].text
           new == NewChunks(t, t)
           failed == [session[s] EXCEPT !.pc = "error"]
           done == [session[s] EXCEPT !.pc = "commit", !.added = new]
<1>1. SessionInv(s) /\ session[s] \in Session /\ session[s].pc = "flush" /\ t \in Texts
  BY DEF IInv, SessionInv, Flush, Session
<1>2. Loaded(s) = {} /\ session[s].added = {}
  BY <1>1 DEF SessionInv
<1>3. Deleted(s) = session[s].found
  BY <1>1 DEF Deleted
<1>4. \A v \in Sessions \ {s} : \A d \in session[v].written : d.rebuild \notin session[s].found
  BY <1>3 DEF IInv, LoadedInv
<1>5. UNCHANGED <<document, chunks>>
  BY DEF Flush
<1>6. CASE session' = [session EXCEPT ![s].pc = "error"]
  <2>1. /\ failed \in Session /\ failed.pc = "error" /\ failed.found = session[s].found
        /\ failed.added = {} /\ failed.todo = {} /\ failed.written = {}
    BY <1>1, <1>2 DEF Session, Steps, Loaded
  <2>2. session' = [session EXCEPT ![s] = failed]
    BY <1>6 DEF IInv
  <2> HIDE DEF failed
  <2>3. session'[s] = failed
    BY <2>2 DEF IInv
  <2>4. Loaded(s)' = {} /\ Deleted(s)' = {}
    BY <2>1, <2>3 DEF Loaded, Deleted
  <2>5. SessionInv(s)'
    BY <1>1, <2>1, <2>3, <2>4, FS_EmptySet DEF SessionInv
  <2>6. LoadedInv(s)' /\ AddedInv(s)'
    BY <2>1, <2>3, <2>4 DEF LoadedInv, AddedInv
  <2> QED
    BY <1>5, <2>1, <2>2, <2>4, <2>5, <2>6, OneSessionMoves DEF Rebuilds
<1>7. CASE /\ session' = [session EXCEPT ![s].pc = "commit", ![s].added = new]
           /\ \A v \in Sessions \ {s} : new = {} \/ session[v].added = {}
           /\ document.exists \/ new = {}
           /\ ~Collides(s, new)
  <2>1. /\ IsFiniteSet(new)
        /\ \A c \in new : RowInv(c)
        /\ \E n \in Nat :
             /\ new = [rebuild : {n}, ordinal : 0..(Pieces[t] - 1), text : {t},
                       source_hash : {t}, embedding : {None}, embedding_model : {None}]
             /\ n \notin Rebuilds(chunks)
             /\ \A v \in Sessions : n \notin Rebuilds(Loaded(v))
    BY <1>1, NewChunksAreSound
  <2> HIDE DEF new
  <2>2. /\ done \in Session /\ done.pc = "commit" /\ done.found = session[s].found
        /\ done.added = new /\ done.todo = {} /\ done.written = {}
    BY <1>1, <1>2, <2>1 DEF Session, Steps, Loaded, RowInv
  <2>3. session' = [session EXCEPT ![s] = done]
    BY <1>7 DEF IInv
  <2> HIDE DEF done
  <2>4. session'[s] = done
    BY <2>3 DEF IInv
  <2>5. Loaded(s)' = {} /\ Deleted(s)' = session[s].found
    BY <2>2, <2>4 DEF Loaded, Deleted
  <2>6. SessionInv(s)'
    BY <1>1, <2>1, <2>2, <2>4, <2>5, FS_EmptySet DEF SessionInv
  <2>7. LoadedInv(s)'
    BY <2>2, <2>4, <2>5 DEF LoadedInv
  <2>8. ASSUME new # {}, NEW c \in chunks PROVE c.rebuild \in session[s].found
    <3>1. PICK d \in new : d.ordinal = 0
      <4>1. PICK n \in Nat : new = [rebuild : {n}, ordinal : 0..(Pieces[t] - 1), text : {t},
                                    source_hash : {t}, embedding : {None},
                                    embedding_model : {None}]
        BY <2>1
      <4>2. Pieces[t] \in Nat
        BY <1>1, PiecesAssumption
      <4>3. 0 \in 0..(Pieces[t] - 1)
        BY <2>8, <4>1, <4>2
      <4>4. [rebuild |-> n, ordinal |-> 0, text |-> t, source_hash |-> t,
             embedding |-> None, embedding_model |-> None] \in new
        BY <4>1, <4>3
      <4> QED BY <4>4
    <3>2. RowInv(c) /\ 0 \in 0..(Pieces[c.text] - 1)
      BY PiecesAssumption DEF IInv, TablesInv, RowInv, DocumentChunk
    <3>3. PICK e \in chunks : e.ordinal = 0 /\ e.rebuild = c.rebuild
      BY <3>2 DEF IInv, TablesInv, OneRebuild
    <3> QED BY <1>7, <3>1, <3>3 DEF Collides
  <2>9. AddedInv(s)'
    <3> SUFFICES ASSUME new # {} PROVE AddedInv(s)'
      BY <2>2, <2>4 DEF AddedInv
    <3>1. \A v \in Sessions : v # s => session'[v] = session[v] /\ Loaded(v)' = Loaded(v)
      BY <2>3 DEF IInv, Loaded
    <3>2. \A v \in Sessions : Rebuilds(Loaded(v))' \subseteq Rebuilds(Loaded(v))
      BY <2>5, <3>1 DEF Rebuilds
    <3>3. document'.exists /\ \A c \in chunks' : c.rebuild \in session'[s].found
      BY <1>5, <1>7, <2>2, <2>4, <2>8
    <3>4. \A v \in Sessions \ {s} : session'[v].added = {}
      BY <1>7, <3>1
    <3>5. Rebuilds(chunks)' = Rebuilds(chunks)
      BY <1>5 DEF Rebuilds
    <3>6. session'[s].added = new
      BY <2>2, <2>4
    <3> QED BY <1>1, <2>1, <3>2, <3>3, <3>4, <3>5, <3>6 DEF AddedInv
  <2> QED
    BY <1>4, <1>5, <1>7, <2>2, <2>3, <2>5, <2>6, <2>7, <2>9, OneSessionMoves DEF Rebuilds
<1> QED
  BY <1>6, <1>7 DEF Flush

\* Reading the pending chunks keeps the invariant.
LEMMA StartEmbeddingKeeps ==
  ASSUME IInv, NEW s \in Sessions, NEW encoder \in Encoders, NEW limit,
         StartEmbedding(s, encoder, limit)
  PROVE  IInv'
<1>1. PICK first \in SUBSET chunks :
        /\ session' = [session EXCEPT ![s] = [Idle EXCEPT
                          !.pc = "embed", !.todo = first, !.encoder = encoder]]
        /\ UNCHANGED <<document, chunks>>
  BY DEF StartEmbedding
<1> DEFINE x == [Idle EXCEPT !.pc = "embed", !.todo = first, !.encoder = encoder]
<1>2. /\ IsFiniteSet(first)
      /\ \A c \in first : RowInv(c) /\ c \in DocumentChunk
  BY FS_Subset DEF IInv, TablesInv, RowInv
<1>3. Idle \in Session
  BY IdleIsSession DEF IInv, TablesInv, Document
<1>4. /\ x \in Session /\ x.pc = "embed" /\ x.encoder = encoder /\ x.todo = first
      /\ x.found = {} /\ x.added = {} /\ x.written = {}
  BY <1>2, <1>3 DEF Session, Steps, Idle
<1>5. session' = [session EXCEPT ![s] = x]
  BY <1>1
<1> HIDE DEF x
<1>6. session'[s] = x
  BY <1>5 DEF IInv
<1>7. Loaded(s)' = first /\ Deleted(s)' = {}
  BY <1>4, <1>6 DEF Loaded, Deleted
<1>8. SessionInv(s)'
  BY <1>2, <1>4, <1>6, <1>7, FS_EmptySet DEF SessionInv
<1>9. LoadedInv(s)'
  <2>1. \A c, d \in chunks : Same(c, d) => c = d
    BY DEF IInv, TablesInv, OneRebuild, Same
  <2> QED BY <1>1, <1>4, <1>6, <1>7, <2>1 DEF LoadedInv
<1>10. AddedInv(s)'
  BY <1>4, <1>6 DEF AddedInv
<1>11. Rebuilds(x.todo \cup x.written) \subseteq Rebuilds(chunks)
  BY <1>4 DEF Rebuilds
<1> QED
  BY <1>1, <1>4, <1>5, <1>7, <1>8, <1>9, <1>10, <1>11, OneSessionMoves

\* A row written is one that is there and that nobody is deleting.
LEMMA EmbedChunkKeeps ==
  ASSUME IInv, NEW s \in Sessions, NEW c \in session[s].todo, EmbedChunk(s, c)
  PROVE  IInv'
<1> DEFINE e == Encode(c, session[s].encoder)
           written == [session[s] EXCEPT !.todo = @ \ {c}, !.written = @ \cup {e}]
           skipped == [session[s] EXCEPT !.todo = @ \ {c}]
           failed == [session[s] EXCEPT !.pc = "error"]
<1>1. /\ SessionInv(s) /\ LoadedInv(s) /\ session[s] \in Session
      /\ session[s].pc = "embed" /\ RowInv(c)
  BY DEF IInv, SessionInv, EmbedChunk, Loaded
<1>2. session[s].found = {} /\ session[s].added = {} /\ session[s].encoder \in Encoders
  BY <1>1 DEF SessionInv
<1>3. UNCHANGED <<document, chunks>>
  BY DEF EmbedChunk
<1>4. /\ IsFiniteSet(session[s].todo \ {c})
      /\ IsFiniteSet(session[s].written \cup {e})
      /\ IsFiniteSet({})
  BY <1>1, FS_RemoveElement, FS_AddElement, FS_EmptySet DEF SessionInv
<1>5. e.rebuild = c.rebuild /\ e.ordinal = c.ordinal /\ e.text = c.text /\ RowInv(e)
  <2> DEFINE v == [text |-> c.text, ordinal |-> c.ordinal, encoder |-> session[s].encoder]
  <2>1. c \in DocumentChunk /\ v \in Vector
    BY <1>1, <1>2 DEF RowInv, DocumentChunk, Vector
  <2>2. v # None /\ session[s].encoder # None
    BY <1>2, <2>1, NoneAssumption
  <2>3. e = [c EXCEPT !.embedding = v, !.embedding_model = session[s].encoder]
    BY DEF Encode
  <2> HIDE DEF v, e
  <2>4. /\ e.rebuild = c.rebuild /\ e.ordinal = c.ordinal /\ e.text = c.text
        /\ e.source_hash = c.source_hash
        /\ e.embedding = v /\ e.embedding_model = session[s].encoder
        /\ e \in DocumentChunk
    BY <1>2, <2>1, <2>3 DEF DocumentChunk
  <2> QED BY <1>1, <2>2, <2>4 DEF RowInv, v
<1>6. CASE /\ session' = [session EXCEPT ![s].todo = @ \ {c}, ![s].written = @ \cup {e}]
           /\ \E d \in chunks : Same(c, d)
           /\ \A v \in Sessions \ {s} : ~LocksChunk(v, c)
  <2> HIDE DEF e
  <2>1. /\ written \in Session /\ written.pc = "embed"
        /\ written.found = {} /\ written.added = {}
        /\ written.encoder = session[s].encoder
        /\ written.todo = session[s].todo \ {c}
        /\ written.written = session[s].written \cup {e}
    BY <1>1, <1>2, <1>5 DEF Session, Steps, RowInv
  <2>2. session' = [session EXCEPT ![s] = written]
    BY <1>6 DEF IInv
  <2> HIDE DEF written
  <2>3. session'[s] = written
    BY <2>2 DEF IInv
  <2>4. Loaded(s)' = (session[s].todo \ {c}) \cup session[s].written \cup {e} /\ Deleted(s)' = {}
    BY <2>1, <2>3 DEF Loaded, Deleted
  <2>5. SessionInv(s)'
    BY <1>1, <1>2, <1>4, <1>5, <2>1, <2>3, <2>4 DEF SessionInv, Loaded
  <2>6. LoadedInv(s)'
    <3>1. \A d \in Loaded(s) : Same(d, e) => d = c
      BY <1>1, <1>5 DEF LoadedInv, Loaded, Same
    <3>2. c \notin session[s].written
      BY <1>1 DEF LoadedInv
    <3>3. session'[s].todo \cap session'[s].written = {}
      BY <1>1, <2>1, <2>3, <3>1 DEF LoadedInv, Loaded, Same
    <3>4. \A d \in Loaded(s)' : \A b \in chunks : Same(b, d) => b.text = d.text
      BY <1>1, <1>5, <2>4 DEF LoadedInv, Loaded, Same
    <3>5. \A d, f \in Loaded(s)' : Same(d, f) => d = f
      BY <1>1, <2>4, <3>1, <3>2 DEF LoadedInv, Loaded, Same
    <3>6. ASSUME NEW v \in Sessions \ {s} PROVE Deleted(v)' = Deleted(v) /\ c.rebuild \notin Deleted(v)
      BY <1>6, <2>2 DEF IInv, Deleted, LocksChunk
    <3>7. \A d \in session'[s].written :
              /\ \E b \in chunks : Same(b, d)
              /\ \A v \in Sessions \ {s} : d.rebuild \notin Deleted(v)'
      BY <1>1, <1>5, <1>6, <2>1, <2>3, <3>6 DEF LoadedInv, Same
    <3> QED BY <1>3, <3>3, <3>4, <3>5, <3>7 DEF LoadedInv
  <2>7. AddedInv(s)'
    BY <2>1, <2>3 DEF AddedInv
  <2>8. Rebuilds(written.todo \cup written.written) \subseteq Rebuilds(Loaded(s))
    BY <1>5, <2>1 DEF Rebuilds, Loaded
  <2> QED
    BY <1>3, <2>1, <2>2, <2>4, <2>5, <2>6, <2>7, <2>8, OneSessionMoves
<1>7. CASE session' = [session EXCEPT ![s].pc = "error"]
  <2> HIDE DEF e
  <2>1. /\ failed \in Session /\ failed.pc = "error"
        /\ failed.found = {} /\ failed.added = {}
        /\ failed.todo = session[s].todo /\ failed.written = session[s].written
    BY <1>1, <1>2 DEF Session, Steps
  <2>2. session' = [session EXCEPT ![s] = failed]
    BY <1>7 DEF IInv
  <2> HIDE DEF failed
  <2>3. session'[s] = failed
    BY <2>2 DEF IInv
  <2>4. Loaded(s)' = Loaded(s) /\ Deleted(s)' = {}
    BY <2>1, <2>3 DEF Loaded, Deleted
  <2>5. SessionInv(s)'
    BY <1>1, <1>4, <2>1, <2>3, <2>4 DEF SessionInv
  <2>6. \A v \in Sessions \ {s} : Deleted(v)' = Deleted(v)
    BY <2>2 DEF IInv, Deleted
  <2>7. LoadedInv(s)'
    BY <1>1, <1>3, <2>1, <2>3, <2>4, <2>6 DEF LoadedInv
  <2>8. AddedInv(s)'
    BY <2>1, <2>3 DEF AddedInv
  <2>9. failed.todo \cup failed.written = Loaded(s)
    BY <2>1 DEF Loaded
  <2> QED
    BY <1>3, <2>1, <2>2, <2>4, <2>5, <2>7, <2>8, <2>9, OneSessionMoves
<1>8. CASE session' = [session EXCEPT ![s].todo = @ \ {c}]
  <2> HIDE DEF e
  <2>1. /\ skipped \in Session /\ skipped.pc = "embed"
        /\ skipped.found = {} /\ skipped.added = {}
        /\ skipped.encoder = session[s].encoder
        /\ skipped.todo = session[s].todo \ {c} /\ skipped.written = session[s].written
    BY <1>1, <1>2 DEF Session, Steps
  <2>2. session' = [session EXCEPT ![s] = skipped]
    BY <1>8 DEF IInv
  <2> HIDE DEF skipped
  <2>3. session'[s] = skipped
    BY <2>2 DEF IInv
  <2>4. Loaded(s)' \subseteq Loaded(s) /\ Deleted(s)' = {}
    BY <2>1, <2>3 DEF Loaded, Deleted
  <2>5. SessionInv(s)'
    BY <1>1, <1>2, <1>4, <2>1, <2>3, <2>4 DEF SessionInv
  <2>6. \A v \in Sessions \ {s} : Deleted(v)' = Deleted(v)
    BY <2>2 DEF IInv, Deleted
  <2>7. LoadedInv(s)'
    BY <1>1, <1>3, <2>1, <2>3, <2>4, <2>6 DEF LoadedInv
  <2>8. AddedInv(s)'
    BY <2>1, <2>3 DEF AddedInv
  <2>9. Rebuilds(skipped.todo \cup skipped.written) \subseteq Rebuilds(Loaded(s))
    BY <2>1 DEF Loaded, Rebuilds
  <2> QED
    BY <1>3, <2>1, <2>2, <2>4, <2>5, <2>7, <2>8, <2>9, OneSessionMoves
<1> QED
  BY <1>6, <1>7, <1>8 DEF EmbedChunk

\* Ending embed_chunks() keeps the invariant.
LEMMA EmbeddingEndsKeeps ==
  ASSUME IInv, NEW s \in Sessions, EmbeddingEnds(s)
  PROVE  IInv'
<1> DEFINE x == [session[s] EXCEPT !.pc = "commit"]
<1>1. /\ SessionInv(s) /\ LoadedInv(s) /\ session[s] \in Session
      /\ session[s].pc = "embed" /\ session[s].found = {} /\ session[s].added = {}
  BY DEF IInv, SessionInv, EmbeddingEnds
<1>2. /\ x \in Session /\ x.pc = "commit" /\ x.found = {} /\ x.added = {}
      /\ x.todo = session[s].todo /\ x.written = session[s].written
  BY <1>1 DEF Session, Steps
<1>3. session' = [session EXCEPT ![s] = x] /\ UNCHANGED <<document, chunks>>
  BY DEF EmbeddingEnds, IInv
<1> HIDE DEF x
<1>4. session'[s] = x
  BY <1>3 DEF IInv
<1>5. Loaded(s)' = Loaded(s) /\ Deleted(s)' = {}
  BY <1>2, <1>4 DEF Loaded, Deleted
<1>6. SessionInv(s)'
  BY <1>1, <1>2, <1>4, <1>5 DEF SessionInv
<1>7. \A v \in Sessions \ {s} : Deleted(v)' = Deleted(v)
  BY <1>3 DEF IInv, Deleted
<1>8. LoadedInv(s)' /\ AddedInv(s)'
  BY <1>1, <1>2, <1>3, <1>4, <1>5, <1>7 DEF LoadedInv, AddedInv
<1>9. x.todo \cup x.written = Loaded(s)
  BY <1>2 DEF Loaded
<1> QED
  BY <1>2, <1>3, <1>5, <1>6, <1>8, <1>9, OneSessionMoves

-----------------------------------------------------------------------------
\* Steps that change the tables.

\* What a session that commits does to the chunks, row by row: a row that is
\* there afterwards was there before, written or not, or was inserted; a row the
\* session has not deleted stays.
LEMMA CommitOfRows ==
  ASSUME IInv, NEW s \in Sessions, Commit(s)
  PROVE  /\ \A c \in chunks' : \/ \E b \in chunks : Same(b, c) /\ b.text = c.text
                               \/ c \in session[s].added
         /\ \A b \in chunks : b.rebuild \notin session[s].found => \E c \in chunks' : Same(b, c)
         /\ session[s].added # {} => chunks' = session[s].added
         /\ chunks' \subseteq chunks \cup session[s].written \cup session[s].added
<1>1. SessionInv(s) /\ LoadedInv(s) /\ AddedInv(s)
  BY DEF IInv
<1>2. chunks' = {c \in chunks : /\ c.rebuild \notin session[s].found
                                /\ ~\E d \in session[s].written : Same(c, d)}
                    \cup session[s].written \cup session[s].added
  BY DEF Commit
<1>3. \A d \in session[s].written : \E b \in chunks : Same(b, d) /\ b.text = d.text
  BY <1>1 DEF LoadedInv, Loaded
<1>4. \A c \in chunks' : \/ \E b \in chunks : Same(b, c) /\ b.text = c.text
                         \/ c \in session[s].added
  BY <1>2, <1>3 DEF Same
<1>5. \A b \in chunks : b.rebuild \notin session[s].found => \E c \in chunks' : Same(b, c)
  BY <1>2 DEF Same
<1>6. session[s].added # {} => chunks' = session[s].added
  BY <1>1, <1>2 DEF SessionInv, AddedInv
<1> QED BY <1>2, <1>4, <1>5, <1>6

\* A commit leaves chunks of one rebuild.
LEMMA CommitKeepsTables ==
  ASSUME IInv, NEW s \in Sessions, Commit(s)
  PROVE  TablesInv'
<1>1. SessionInv(s) /\ LoadedInv(s) /\ AddedInv(s) /\ TablesInv /\ session[s] \in Session
  BY DEF IInv, SessionInv
<1>2. document' \in Document /\ document'.content_hash = document'.text
      /\ document'.exists = document.exists
  BY <1>1 DEF Commit, TablesInv, Document, Session
<1>3. IsFiniteSet(chunks') /\ \A c \in chunks' : RowInv(c)
  <2>1. IsFiniteSet(chunks \cup session[s].written)
    BY <1>1, FS_Union DEF TablesInv, SessionInv
  <2>2. IsFiniteSet(chunks \cup session[s].written \cup session[s].added)
    BY <1>1, <2>1, FS_Union DEF SessionInv
  <2>3. \A c \in chunks \cup session[s].written \cup session[s].added : RowInv(c)
    BY <1>1 DEF TablesInv, SessionInv, Loaded
  <2> QED BY <2>2, <2>3, CommitOfRows, FS_Subset
<1>4. ~document'.exists => chunks' = {}
  <2> SUFFICES ASSUME ~document.exists PROVE chunks' = {}
    BY <1>2
  <2>1. chunks = {} /\ session[s].written = {} /\ session[s].added = {}
    BY <1>1 DEF TablesInv, LoadedInv, AddedInv
  <2> QED BY <2>1, CommitOfRows
<1>5. CASE session[s].added # {}
  <2>1. PICK n \in Nat, t \in Texts :
          chunks' = [rebuild : {n}, ordinal : 0..(Pieces[t] - 1), text : {t},
                     source_hash : {t}, embedding : {None}, embedding_model : {None}]
    BY <1>1, <1>5, CommitOfRows DEF AddedInv
  <2>2. \A c \in chunks' : /\ c.rebuild = n /\ c.text = t
                           /\ \A d \in chunks' : d.ordinal = c.ordinal => d = c
    BY <2>1
  <2>3. ASSUME NEW i \in 0..(Pieces[t] - 1) PROVE \E d \in chunks' : d.ordinal = i
    <3>1. [rebuild |-> n, ordinal |-> i, text |-> t, source_hash |-> t,
           embedding |-> None, embedding_model |-> None] \in chunks'
      BY <2>1
    <3> QED BY <3>1
  <2>4. OneRebuild'
    BY <2>2, <2>3 DEF OneRebuild
  <2> QED BY <1>2, <1>3, <1>4, <2>4 DEF TablesInv
<1>6. CASE session[s].added = {} /\ session[s].written = {}
  <2>1. chunks' = {c \in chunks : c.rebuild \notin session[s].found}
    BY <1>6 DEF Commit
  <2>2. chunks' = {} \/ chunks' = chunks
    BY <1>1, <2>1 DEF TablesInv, OneRebuild
  <2>3. OneRebuild'
    BY <1>1, <2>2 DEF TablesInv, OneRebuild
  <2> QED BY <1>2, <1>3, <1>4, <2>3 DEF TablesInv
<1>7. CASE session[s].added = {} /\ session[s].written # {}
  <2>1. session[s].found = {}
    BY <1>1, <1>7 DEF SessionInv
  <2>2. \A c \in chunks' : \E b \in chunks : Same(b, c) /\ b.text = c.text
    BY <1>7, CommitOfRows
  <2>3. \A b \in chunks : \E c \in chunks' : Same(b, c)
    BY <2>1, CommitOfRows
  <2>4. ASSUME NEW c \in chunks', NEW d \in chunks'
        PROVE  d.rebuild = c.rebuild /\ d.text = c.text
    BY <1>1, <2>2 DEF TablesInv, OneRebuild, Same
  <2>5. ASSUME NEW c \in chunks', NEW d \in chunks', d.ordinal = c.ordinal
        PROVE  d = c
    <3>1. Same(c, d) /\ Same(d, c)
      BY <2>4, <2>5 DEF Same
    <3>2. /\ c \in chunks \cup session[s].written /\ d \in chunks \cup session[s].written
          /\ c \notin session[s].written => ~\E e \in session[s].written : Same(c, e)
          /\ d \notin session[s].written => ~\E e \in session[s].written : Same(d, e)
      BY <1>7 DEF Commit
    <3>3. c \in session[s].written <=> d \in session[s].written
      BY <3>1, <3>2
    <3> QED
      BY <1>1, <2>5, <3>1, <3>2, <3>3 DEF TablesInv, OneRebuild, LoadedInv, Loaded, Same
  <2>6. ASSUME NEW c \in chunks', NEW i \in 0..(Pieces[c.text] - 1)
        PROVE  \E d \in chunks' : d.ordinal = i
    <3>1. PICK b \in chunks : Same(b, c) /\ b.text = c.text
      BY <2>2
    <3>2. PICK e \in chunks : e.ordinal = i
      BY <1>1, <3>1 DEF TablesInv, OneRebuild
    <3> QED BY <2>3, <3>2 DEF Same
  <2>7. OneRebuild'
    BY <2>4, <2>5, <2>6 DEF OneRebuild
  <2> QED BY <1>2, <1>3, <1>4, <2>7 DEF TablesInv
<1> QED BY <1>5, <1>6, <1>7

\* A commit keeps the invariant.
LEMMA CommitKeeps ==
  ASSUME IInv, NEW s \in Sessions, Commit(s)
  PROVE  IInv'
<1>1. Idle \in Session
  BY IdleIsSession DEF IInv, TablesInv, Document
<1>2. /\ Idle.pc = "idle" /\ Idle.found = {} /\ Idle.added = {}
      /\ Idle.todo = {} /\ Idle.written = {}
  BY DEF Idle
<1>3. session' = [session EXCEPT ![s] = Idle]
  BY DEF Commit
<1>4. session'[s] = Idle /\ session' \in [Sessions -> Session]
  BY <1>1, <1>3 DEF IInv
<1>5. Loaded(s)' = {} /\ Deleted(s)' = {} /\ Deleted(s) = session[s].found
  BY <1>2, <1>4 DEF Loaded, Deleted, Commit
<1>6. SessionInv(s)' /\ LoadedInv(s)' /\ AddedInv(s)'
  BY <1>1, <1>2, <1>4, <1>5, FS_EmptySet DEF SessionInv, LoadedInv, AddedInv
<1>7. ASSUME NEW v \in Sessions \ {s}
      PROVE  /\ session'[v] = session[v]
             /\ Loaded(v)' = Loaded(v)
             /\ Deleted(v)' = Deleted(v)
             /\ SessionInv(v) /\ LoadedInv(v) /\ AddedInv(v)
  BY <1>3 DEF IInv, Loaded, Deleted
<1>8. ASSUME NEW v \in Sessions \ {s} PROVE SessionInv(v)'
  BY <1>7 DEF SessionInv
<1>9. ASSUME NEW v \in Sessions \ {s} PROVE LoadedInv(v)'
  <2>1. ASSUME NEW d \in Loaded(v), NEW c \in chunks', Same(c, d) PROVE c.text = d.text
    <3>1. CASE c \in session[s].added
      <4>1. AddedInv(s) /\ session[s].added # {}
        BY <3>1 DEF IInv
      <4>2. PICK n \in Nat, t \in Texts :
              /\ session[s].added = [rebuild : {n}, ordinal : 0..(Pieces[t] - 1), text : {t},
                                     source_hash : {t}, embedding : {None},
                                     embedding_model : {None}]
              /\ n \notin Rebuilds(Loaded(v))
        BY <4>1 DEF AddedInv
      <4>3. c.rebuild = n
        BY <3>1, <4>2
      <4> QED BY <2>1, <4>2, <4>3 DEF Rebuilds, Same
    <3>2. CASE \E b \in chunks : Same(b, c) /\ b.text = c.text
      BY <1>7, <2>1, <3>2 DEF LoadedInv, Same
    <3> QED BY <3>1, <3>2, CommitOfRows
  <2>2. ASSUME NEW d \in session[v].written
        PROVE  /\ \E c \in chunks' : Same(c, d)
               /\ \A u \in Sessions \ {v} : d.rebuild \notin Deleted(u)'
    <3>1. PICK b \in chunks : Same(b, d)
      BY <1>7 DEF LoadedInv
    <3>2. d.rebuild \notin session[s].found
      BY <1>5, <1>7 DEF LoadedInv
    <3>3. PICK c \in chunks' : Same(b, c)
      BY <3>1, <3>2, CommitOfRows DEF Same
    <3>4. Same(c, d)
      BY <3>1, <3>3 DEF Same
    <3> QED BY <1>5, <1>7, <3>4 DEF LoadedInv
  <2> QED BY <1>7, <2>1, <2>2 DEF LoadedInv
<1>10. ASSUME NEW v \in Sessions \ {s} PROVE AddedInv(v)'
  <2> SUFFICES ASSUME session[v].added # {} PROVE AddedInv(v)'
    BY <1>7 DEF AddedInv
  <2>1. session[s].added = {}
    BY <1>7 DEF AddedInv
  <2>2. \A c \in chunks' : \E b \in chunks : Same(b, c)
    BY <2>1, CommitOfRows
  <2>3. Rebuilds(chunks)' \subseteq Rebuilds(chunks)
    BY <2>2 DEF Rebuilds, Same
  <2>4. \A c \in chunks' : c.rebuild \in session'[v].found
    BY <1>7, <2>2 DEF AddedInv, Same
  <2>5. document'.exists
    <3>1. document'.exists = document.exists
      BY DEF Commit, IInv, TablesInv, Document
    <3> QED BY <1>7, <3>1 DEF AddedInv
  <2>6. \A u \in Sessions : Rebuilds(Loaded(u))' \subseteq Rebuilds(Loaded(u))
    BY <1>5, <1>7 DEF Rebuilds
  <2>7. \A u \in Sessions \ {v} : session'[u].added = {}
    BY <1>2, <1>4, <1>7 DEF AddedInv
  <2>8. \A n : /\ n \notin Rebuilds(chunks)
               /\ \A u \in Sessions : n \notin Rebuilds(Loaded(u))
               => /\ n \notin Rebuilds(chunks)'
                  /\ \A u \in Sessions : n \notin Rebuilds(Loaded(u))'
    BY <2>3, <2>6
  <2>9. AddedInv(v) /\ session'[v].added = session[v].added
    BY <1>7
  <2> QED BY <2>4, <2>5, <2>7, <2>8, <2>9 DEF AddedInv
<1> QED
  BY <1>4, <1>6, <1>8, <1>9, <1>10, CommitKeepsTables DEF IInv

\* Editing the document keeps the invariant.
LEMMA EditDocumentKeeps ==
  ASSUME IInv, NEW text \in Texts, EditDocument(text)
  PROVE  IInv'
<1>1. /\ document' \in Document /\ document'.content_hash = document'.text
      /\ document'.exists
  BY DEF EditDocument, IInv, TablesInv, Document
<1>2. UNCHANGED <<chunks, session>>
  BY DEF EditDocument
<1>3. TablesInv'
  BY <1>1, <1>2 DEF IInv, TablesInv, OneRebuild
<1>4. ASSUME NEW s \in Sessions PROVE SessionInv(s)' /\ LoadedInv(s)' /\ AddedInv(s)'
  <2>1. SessionInv(s) /\ LoadedInv(s) /\ AddedInv(s)
    BY DEF IInv
  <2>2. \A v \in Sessions : Loaded(v)' = Loaded(v) /\ Deleted(v)' = Deleted(v)
    BY <1>2 DEF Loaded, Deleted
  <2>3. Rebuilds(chunks)' = Rebuilds(chunks)
        /\ \A v \in Sessions : Rebuilds(Loaded(v))' = Rebuilds(Loaded(v))
    BY <1>2, <2>2 DEF Rebuilds
  <2>4. SessionInv(s)'
    BY <1>2, <2>1, <2>2 DEF SessionInv
  <2>5. LoadedInv(s)'
    BY <1>2, <2>1, <2>2 DEF LoadedInv
  <2>6. AddedInv(s)'
    BY <1>1, <1>2, <2>1, <2>3 DEF AddedInv
  <2> QED BY <2>4, <2>5, <2>6
<1> QED BY <1>2, <1>3, <1>4 DEF IInv

\* The document goes only when no session has written or inserted a chunk of it.
LEMMA DropDocumentKeeps ==
  ASSUME IInv, DropDocument
  PROVE  IInv'
<1>1. UNCHANGED session /\ chunks' = {}
  BY DEF DropDocument
<1>2. ASSUME NEW s \in Sessions PROVE session[s].added = {} /\ session[s].written = {}
  <2>1. session[s].added = {} /\ \A c \in chunks : ~LocksChunk(s, c)
    BY DEF DropDocument, KeepsDocument
  <2>2. \A d \in session[s].written : \E c \in chunks : Same(c, d)
    BY DEF IInv, LoadedInv
  <2> QED BY <2>1, <2>2 DEF LocksChunk
<1>3. TablesInv'
  BY <1>1, FS_EmptySet DEF DropDocument, IInv, TablesInv, OneRebuild, Document
<1>4. ASSUME NEW s \in Sessions PROVE SessionInv(s)' /\ LoadedInv(s)' /\ AddedInv(s)'
  <2>1. Loaded(s)' = Loaded(s)
    BY <1>1 DEF Loaded
  <2> QED BY <1>1, <1>2, <2>1 DEF IInv, SessionInv, LoadedInv, AddedInv
<1> QED BY <1>1, <1>3, <1>4 DEF IInv

-----------------------------------------------------------------------------
\* The invariant holds at first.
LEMMA InitHolds == Init => IInv
<1> SUFFICES ASSUME Init PROVE IInv
  OBVIOUS
<1>1. PICK t \in Texts : document = [exists |-> TRUE, text |-> t, content_hash |-> t]
  BY DEF Init
<1>2. Idle \in Session
  BY <1>1, IdleIsSession
<1>3. /\ Idle.pc = "idle" /\ Idle.found = {} /\ Idle.added = {}
      /\ Idle.todo = {} /\ Idle.written = {}
  BY DEF Idle
<1>4. chunks = {} /\ session = [s \in Sessions |-> Idle]
  BY DEF Init
<1>5. TablesInv
  BY <1>1, <1>4, FS_EmptySet DEF TablesInv, Document, OneRebuild
<1>6. ASSUME NEW s \in Sessions PROVE SessionInv(s) /\ LoadedInv(s) /\ AddedInv(s)
  <2>1. session[s] = Idle
    BY <1>4
  <2>2. Loaded(s) = {}
    BY <1>3, <2>1 DEF Loaded
  <2> QED
    BY <1>2, <1>3, <2>1, <2>2, FS_EmptySet DEF SessionInv, LoadedInv, AddedInv
<1> QED BY <1>2, <1>4, <1>5, <1>6 DEF IInv

\* Every step keeps the invariant.
LEMMA Inductive ==
  ASSUME IsFiniteSet(Sessions), IInv, [Next]_vars
  PROVE  IInv'
<1>1. ASSUME NEW s \in Sessions, Index(s) PROVE IInv'
  BY <1>1, StartRebuildKeeps, DeleteStartsKeeps, DeleteEndsKeeps, FlushKeeps,
     StartEmbeddingKeeps, EmbedChunkKeeps, EmbeddingEndsKeeps, CommitKeeps, RollbackKeeps
     DEF Index
<1>2. ASSUME UNCHANGED vars PROVE IInv'
  <2>1. document' = document /\ chunks' = chunks /\ session' = session
    BY <1>2 DEF vars
  <2>2. TablesInv'
    BY <2>1 DEF IInv, TablesInv, OneRebuild
  <2>3. ASSUME NEW s \in Sessions PROVE SessionInv(s)' /\ LoadedInv(s)' /\ AddedInv(s)'
    <3>1. SessionInv(s) /\ LoadedInv(s) /\ AddedInv(s)
      BY DEF IInv
    <3>2. \A v : Loaded(v)' = Loaded(v) /\ Deleted(v)' = Deleted(v)
      BY <2>1 DEF Loaded, Deleted
    <3>3. \A v : Rebuilds(chunks)' = Rebuilds(chunks) /\ Rebuilds(Loaded(v))' = Rebuilds(Loaded(v))
      BY <2>1, <3>2 DEF Rebuilds
    <3>4. SessionInv(s)'
      BY <2>1, <3>1, <3>2 DEF SessionInv
    <3>5. LoadedInv(s)'
      BY <2>1, <3>1, <3>2 DEF LoadedInv
    <3>6. AddedInv(s)'
      BY <2>1, <3>1, <3>3 DEF AddedInv
    <3> QED BY <3>4, <3>5, <3>6
  <2> QED BY <2>1, <2>2, <2>3 DEF IInv
<1> QED
  BY <1>1, <1>2, EditDocumentKeeps, DropDocumentKeeps DEF Next

\* The invariant holds of every reachable state.
LEMMA Invariant ==
  ASSUME IsFiniteSet(Sessions)
  PROVE  Spec => []IInv
<1>1. IInv /\ [Next]_vars => IInv'
  BY Inductive
<1> QED BY <1>1, InitHolds, PTL DEF Spec

-----------------------------------------------------------------------------
\* The tables and the sessions' objects keep their types.
THEOREM TypeCorrect ==
  ASSUME IsFiniteSet(Sessions)
  PROVE  Spec => []TypeOK
<1>1. IInv => TypeOK
  <2> SUFFICES ASSUME IInv PROVE TypeOK
    OBVIOUS
  <2>1. document \in Document /\ chunks \subseteq DocumentChunk
    BY DEF IInv, TablesInv, RowInv
  <2>2. ASSUME NEW s \in Sessions
        PROVE  LET x == session[s] IN
               /\ DOMAIN x = DOMAIN Idle
               /\ x.pc \in Steps
               /\ {x.loaded, x.text} \subseteq Texts
               /\ x.found \subseteq Nat
               /\ x.added \cup x.todo \cup x.written \subseteq DocumentChunk
               /\ x.encoder \in Encoders \cup {None}
    <3>1. session[s] \in Session
      BY DEF IInv, SessionInv
    <3> QED BY <3>1 DEF Session, Idle
  <2> QED BY <2>1, <2>2 DEF TypeOK
<1> QED BY <1>1, Invariant, PTL

\* However many sessions rebuild and embed at once, the chunks of a document are
\* all the pieces of one text, from one rebuild, and go with the document.
THEOREM ChunksComeFromOneRebuild ==
  ASSUME IsFiniteSet(Sessions)
  PROVE  Spec => []ChunksAreOfOneRebuild
<1>1. IInv => ChunksAreOfOneRebuild
  <2> SUFFICES ASSUME IInv PROVE ChunksAreOfOneRebuild
    OBVIOUS
  <2>1. ASSUME NEW c \in chunks PROVE {d.ordinal : d \in chunks} = 0..(Pieces[c.text] - 1)
    <3>1. \A i \in 0..(Pieces[c.text] - 1) : \E d \in chunks : d.ordinal = i
      BY DEF IInv, TablesInv, OneRebuild
    <3>2. ASSUME NEW d \in chunks PROVE d.ordinal \in 0..(Pieces[c.text] - 1)
      <4>1. RowInv(d) /\ d.text = c.text /\ c.text \in Texts
        BY DEF IInv, TablesInv, OneRebuild, RowInv, DocumentChunk
      <4> QED BY <4>1, PiecesAssumption DEF RowInv, DocumentChunk
    <3> QED BY <3>1, <3>2
  <2> QED BY <2>1 DEF ChunksAreOfOneRebuild, IInv, TablesInv, OneRebuild
<1> QED BY <1>1, Invariant, PTL

\* A vector is always of the text beside it, by the encoder named beside it.
THEOREM VectorsMatchTheirText ==
  ASSUME IsFiniteSet(Sessions)
  PROVE  Spec => []VectorsAreOfTheirText
<1>1. IInv => VectorsAreOfTheirText
  BY DEF IInv, TablesInv, RowInv, VectorsAreOfTheirText
<1> QED BY <1>1, Invariant, PTL

\* Stale chunks always show in the hashes, and fresh ones never look stale.
THEOREM HashesTellStaleness ==
  ASSUME IsFiniteSet(Sessions)
  PROVE  Spec => []HashTellsStaleness
<1>1. IInv => HashTellsStaleness
  BY DEF IInv, TablesInv, RowInv, HashTellsStaleness
<1> QED BY <1>1, Invariant, PTL
=============================================================================
