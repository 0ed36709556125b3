---------------------------- MODULE DocumentIndex ----------------------------
(***************************************************************************)
(* The chunks of one document, app/services/indexing.py: rebuild_chunks()  *)
(* replaces them from the text its session holds, embed_pending() fills in *)
(* the vectors of those that have none from the encoder configured.  Both  *)
(* leave the transaction to their caller, and PostgreSQL runs it at READ   *)
(* COMMITTED: a DELETE sees the rows of its own snapshot, and whoever      *)
(* writes a row waits for the transaction that wrote it last.              *)
(***************************************************************************)
EXTENDS Integers, FiniteSets

CONSTANTS
    Sessions,  \* sessions at work on the document
    Texts,     \* what the document may say
    Pieces,    \* Pieces[t]: the number of chunks chunk_text() cuts t into
    Encoders,  \* the embedders a process may be configured with
    None       \* NULL

ASSUME PiecesAssumption == Pieces \in [Texts -> Nat]

VARIABLES
    document,  \* the committed row of documents
    chunks,    \* the committed rows of document_chunks
    session    \* session[s]: the transaction and the objects of a session

vars == <<document, chunks, session>>

-----------------------------------------------------------------------------
\* content_hash() is taken to tell texts apart, so a hash is the text it is of.
Document == [exists : BOOLEAN, text : Texts, content_hash : Texts]

\* A vector: the piece it was computed from, and the encoder that computed it.
Vector == [text : Texts, ordinal : Nat, encoder : Encoders]

ASSUME NoneAssumption == None \notin Encoders \cup Vector

\* A chunk.  `rebuild` is the part of the rows' ids that tells apart the rows of
\* two rebuilds; `text` and `ordinal` determine its content.
DocumentChunk ==
    [rebuild         : Nat,
     ordinal         : Nat,
     text            : Texts,
     source_hash     : Texts,
     embedding       : Vector \cup {None},
     embedding_model : Encoders \cup {None}]

Steps == {"idle", "delete", "deleting", "flush", "embed", "commit", "error"}

Session ==
    [pc      : Steps,
     loaded  : Texts,                 \* document.content as it was read
     text    : Texts,                 \* document.content, edited or not
     found   : SUBSET Nat,            \* the rebuilds whose rows the DELETE found
     added   : SUBSET DocumentChunk,  \* rows inserted
     todo    : SUBSET DocumentChunk,  \* rows loaded, still to be embedded
     written : SUBSET DocumentChunk,  \* rows updated
     encoder : Encoders \cup {None}]

\* A session between two transactions.
Idle == LET t == CHOOSE x \in Texts : TRUE IN
        [pc |-> "idle", loaded |-> t, text |-> t, found |-> {}, added |-> {},
         todo |-> {}, written |-> {}, encoder |-> None]

Rebuilds(rows) == {c.rebuild : c \in rows}

Same(c, d) == c.rebuild = d.rebuild /\ c.ordinal = d.ordinal

\* A row id no row and no session refers to.
Unused ==
    LET used == Rebuilds(chunks) \cup UNION {session[s].found
                    \cup Rebuilds(session[s].added \cup session[s].todo \cup session[s].written) :
                    s \in Sessions}
    IN  CHOOSE n \in 0..Cardinality(used) : n \notin used

-----------------------------------------------------------------------------
\* Row locks: a session keeps those it takes until it commits or rolls back.

Deleted(s) == IF session[s].pc \in {"flush", "commit"} THEN session[s].found ELSE {}

LocksChunk(s, c) ==
    \/ c.rebuild \in Deleted(s)
    \/ \E d \in session[s].written : Same(c, d)

\* Only the attributes that changed are written; the two go together.
UpdatesDocument(s) == session[s].text # session[s].loaded

LocksDocument(s) == session[s].pc = "commit" /\ UpdatesDocument(s)

\* The foreign key of a row inserted keeps the document from being deleted.
KeepsDocument(s) ==
    LocksDocument(s) \/ session[s].added # {} \/ \E c \in chunks : LocksChunk(s, c)

-----------------------------------------------------------------------------
Init ==
    /\ \E t \in Texts : document = [exists |-> TRUE, text |-> t, content_hash |-> t]
    /\ chunks = {}
    /\ session = [s \in Sessions |-> Idle]

\* A session loads the document, edits its content or not, and rebuild_chunks()
\* hashes it.
StartRebuild(s, text) ==
    /\ session[s].pc = "idle"
    /\ document.exists
    /\ session' = [session EXCEPT ![s] = [Idle EXCEPT !.pc = "delete",
                                                        !.loaded = document.text,
                                                        !.text = text]]
    /\ UNCHANGED <<document, chunks>>

\* The DELETE takes its snapshot ...
DeleteStarts(s) ==
    /\ session[s].pc = "delete"
    /\ session' = [session EXCEPT ![s].pc = "deleting", ![s].found = Rebuilds(chunks)]
    /\ UNCHANGED <<document, chunks>>

\* ... and waits for the rows of it that other sessions have written.
DeleteEnds(s) ==
    /\ session[s].pc = "deleting"
    /\ \A v \in Sessions \ {s}, c \in chunks :
          c.rebuild \in session[s].found => ~LocksChunk(v, c)
    /\ session' = [session EXCEPT ![s].pc = "flush"]
    /\ UNCHANGED <<document, chunks>>

\* The rows for text `text`, all of them of one rebuild.
NewChunks(text, source_hash) ==
    [rebuild : {Unused}, ordinal : 0..(Pieces[text] - 1), text : {text},
     source_hash : {source_hash}, embedding : {None}, embedding_model : {None}]

\* uq_document_chunks_document_ordinal: rows that are there already, committed
\* and not deleted by s, with an ordinal of the new ones.
Collides(s, new) ==
    \E c \in chunks, d \in new : c.rebuild \notin session[s].found /\ c.ordinal = d.ordinal

\* Mutation of Flush: the unique constraint is not there.
FlushUnchecked(s) ==
    /\ session[s].pc = "flush"
    /\ LET new == NewChunks(session[s].text, session[s].text) IN
       session' = [session EXCEPT ![s].pc = "commit", ![s].added = new]
    /\ UNCHANGED <<document, chunks>>

\* Mutation of Flush: the chunks are made before the content is hashed again.
FlushWithOldHash(s) ==
    /\ session[s].pc = "flush"
    /\ LET new == NewChunks(session[s].text, session[s].loaded) IN
       /\ ~Collides(s, new)
       /\ session' = [session EXCEPT ![s].pc = "commit", ![s].added = new]
    /\ UNCHANGED <<document, chunks>>

\* db.flush(): the document is updated, which waits for another update of it,
\* and the chunks are inserted, which waits for those another session inserts.
Flush(s) ==
    /\ session[s].pc = "flush"
    /\ LET new == NewChunks(session[s].text, session[s].text) IN
       /\ \A v \in Sessions \ {s} :
             /\ ~(UpdatesDocument(s) /\ LocksDocument(v))
             /\ new = {} \/ session[v].added = {}
       /\ IF \/ ~document.exists /\ (UpdatesDocument(s) \/ new # {})
             \/ Collides(s, new)
          THEN session' = [session EXCEPT ![s].pc = "error"]
          ELSE session' = [session EXCEPT ![s].pc = "commit", ![s].added = new]
    /\ UNCHANGED <<document, chunks>>

-----------------------------------------------------------------------------
IsPending(c, encoder) == c.embedding = None \/ c.embedding_model # encoder

\* pending_chunks(): the first of the chunks without a vector of this encoder.
StartEmbedding(s, encoder, limit) ==
    /\ session[s].pc = "idle"
    /\ LET pending == {c \in chunks : IsPending(c, encoder)}
           Before(c) == {d \in pending : d.ordinal < c.ordinal}
           first == {c \in pending : Cardinality(Before(c)) < limit}
       IN  /\ first # {}
           /\ session' = [session EXCEPT ![s] = [Idle EXCEPT
                             !.pc = "embed", !.todo = first, !.encoder = encoder]]
    /\ UNCHANGED <<document, chunks>>

Encode(c, encoder) ==
    [c EXCEPT !.embedding = [text |-> c.text, ordinal |-> c.ordinal, encoder |-> encoder],
              !.embedding_model = encoder]

\* Mutation of EmbedChunk: the row is found by its ordinal.
EmbedByOrdinal(s, c) ==
    /\ session[s].pc = "embed"
    /\ \E d \in chunks :
          /\ d.ordinal = c.ordinal
          /\ \A v \in Sessions \ {s} : ~LocksChunk(v, d)
          /\ session' = [session EXCEPT ![s].todo = @ \ {c},
                             ![s].written = @ \cup {[d EXCEPT
                                 !.embedding = Encode(c, session[s].encoder).embedding,
                                 !.embedding_model = session[s].encoder]}]
    /\ UNCHANGED <<document, chunks>>

\* embed_chunks(): a row is written when its batch is flushed, and waits for
\* whoever has written it.  A row that is gone by then is an error if the driver
\* counts the rows it matched, and otherwise nothing at all.
EmbedChunk(s, c) ==
    /\ session[s].pc = "embed"
    /\ \A v \in Sessions \ {s} : ~LocksChunk(v, c)
    /\ \/ /\ \E d \in chunks : Same(c, d)
          /\ session' = [session EXCEPT ![s].todo = @ \ {c},
                                        ![s].written = @ \cup {Encode(c, session[s].encoder)}]
       \/ /\ ~\E d \in chunks : Same(c, d)
          /\ session' \in {[session EXCEPT ![s].pc = "error"],
                           [session EXCEPT ![s].todo = @ \ {c}]}
    /\ UNCHANGED <<document, chunks>>

EmbeddingEnds(s) ==
    /\ session[s].pc = "embed"
    /\ session[s].todo = {}
    /\ session' = [session EXCEPT ![s].pc = "commit"]
    /\ UNCHANGED <<document, chunks>>

-----------------------------------------------------------------------------
Commit(s) ==
    /\ session[s].pc = "commit"
    /\ document' = IF UpdatesDocument(s)
                   THEN [document EXCEPT !.text = session[s].text, !.content_hash = session[s].text]
                   ELSE document
    /\ chunks' = {c \in chunks : /\ c.rebuild \notin session[s].found
                                 /\ ~\E d \in session[s].written : Same(c, d)}
                     \cup session[s].written \cup session[s].added
    /\ session' = [session EXCEPT ![s] = Idle]

\* An error was raised, a deadlock was broken, or the caller gives up.
Rollback(s) ==
    /\ session[s].pc # "idle"
    /\ session' = [session EXCEPT ![s] = Idle]
    /\ UNCHANGED <<document, chunks>>

\* Another session edits the document, with its hash, and leaves the chunks.
EditDocument(text) ==
    /\ document.exists
    /\ text # document.text
    /\ \A s \in Sessions : ~LocksDocument(s)
    /\ document' = [document EXCEPT !.text = text, !.content_hash = text]
    /\ UNCHANGED <<chunks, session>>

\* Another session deletes the document; its chunks go with it.
DropDocument ==
    /\ document.exists
    /\ \A s \in Sessions : ~KeepsDocument(s)
    /\ document' = [document EXCEPT !.exists = FALSE]
    /\ chunks' = {}
    /\ UNCHANGED session

-----------------------------------------------------------------------------
Index(s) ==
    \/ \E text \in Texts : StartRebuild(s, text)
    \/ DeleteStarts(s) \/ DeleteEnds(s) \/ Flush(s)
    \/ \E encoder \in Encoders, limit \in {1, Cardinality(chunks)} : StartEmbedding(s, encoder, limit)
    \/ \E c \in session[s].todo : EmbedChunk(s, c)
    \/ EmbeddingEnds(s) \/ Commit(s) \/ Rollback(s)

Next ==
    \/ \E s \in Sessions : Index(s)
    \/ \E text \in Texts : EditDocument(text)
    \/ DropDocument

Spec == Init /\ [][Next]_vars

-----------------------------------------------------------------------------
\* Properties

\* The tables and the sessions' objects have their types.
TypeOK ==
    /\ document \in Document
    /\ chunks \subseteq DocumentChunk
    /\ \A s \in Sessions :
          LET x == session[s] IN
          /\ DOMAIN x = DOMAIN Idle
          /\ x.pc \in Steps
          /\ {x.loaded, x.text} \subseteq Texts
          /\ x.found \subseteq Nat
          /\ x.added \cup x.todo \cup x.written \subseteq DocumentChunk
          /\ x.encoder \in Encoders \cup {None}

\* Rebuilds replace, however they overlap: the chunks of a document are the
\* pieces of one text, all of them, from one rebuild, and go with the document.
ChunksAreOfOneRebuild ==
    /\ \A c \in chunks :
          /\ {d.ordinal : d \in chunks} = 0..(Pieces[c.text] - 1)
          /\ \A d \in chunks : d.rebuild = c.rebuild /\ d.text = c.text
          /\ \A d \in chunks : d.ordinal = c.ordinal => d = c
    /\ ~document.exists => chunks = {}

\* A distance is only ever taken to a vector that the named encoder made from
\* the very text of the chunk, though chunks are replaced and re-embedded by
\* other sessions between the time they are read and the time they are written.
VectorsAreOfTheirText ==
    \A c \in chunks :
        /\ c.embedding = None <=> c.embedding_model = None
        /\ c.embedding # None =>
              c.embedding = [text |-> c.text, ordinal |-> c.ordinal, encoder |-> c.embedding_model]

\* "content_hash is what tells you the chunks are stale": it differs from the
\* chunks' source_hash exactly when they are not of the document's text.
HashTellsStaleness ==
    document.exists =>
        \A c \in chunks : c.source_hash = document.content_hash <=> c.text = document.text

-----------------------------------------------------------------------------
\* A statement of the repository that the code does not keep.

\* indexing.py: "Replace a document's chunks from its current content."
ChunksAreOfCurrentContent ==
    [][Rebuilds(chunks') # Rebuilds(chunks) => \A c \in chunks' : c.text = document'.text]_vars
=============================================================================
