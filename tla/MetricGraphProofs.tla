-------------------------- MODULE MetricGraphProofs --------------------------
(* What holds of MetricGraph for every set of metrics, measures and writers. *)
EXTENDS MetricGraph, TLAPS

-----------------------------------------------------------------------------
LEMMA InitHasTypes == Init => TypeOK
BY DEF Init, TypeOK, Idle, Transaction, Steps, Names

LEMMA TypeIsKept ==
  ASSUME TypeOK, [Next]_vars
  PROVE  TypeOK'
<1> USE DEF TypeOK
<1>1. ASSUME NEW w \in Writers, NEW m \in Metrics, NEW names \in SUBSET Names,
             SetExpression(w, m, names)
      PROVE  TypeOK'
  BY <1>1 DEF SetExpression, Transaction, Steps, Names
<1>2. ASSUME NEW w \in Writers, NEW current \in Metrics, Visit(w, current)
      PROVE  TypeOK'
  BY <1>2 DEF Visit, Transaction, Steps, Dependencies, Targets
<1>3. ASSUME NEW w \in Writers, WalkEnds(w) PROVE TypeOK'
  BY <1>3 DEF WalkEnds, Transaction, Steps
<1>4. ASSUME NEW w \in Writers, DeleteStarts(w) PROVE TypeOK'
  <2>1. {row \in refs : row.metric = tx[w].metric} \subseteq Row
    OBVIOUS
  <2> DEFINE R == {row \in refs : row.metric = tx[w].metric}
  <2> HIDE DEF R
  <2>2. tx' = [tx EXCEPT ![w].pc = "deleting", ![w].rows = R]
    BY <1>4 DEF DeleteStarts, R
  <2>3. R \in SUBSET Row
    BY <2>1 DEF R
  <2>4. [tx[w] EXCEPT !.pc = "deleting", !.rows = R] \in Transaction
    BY <2>3 DEF Transaction, Steps
  <2>5. tx' \in [Writers -> Transaction]
    BY <2>2, <2>4
  <2> QED
    BY <1>4, <2>5 DEF DeleteStarts
<1>5. ASSUME NEW w \in Writers, DeleteEnds(w) PROVE TypeOK'
  BY <1>5 DEF DeleteEnds, Transaction, Steps
<1>6. ASSUME NEW w \in Writers, Flush(w) PROVE TypeOK'
  BY <1>6 DEF Flush, Transaction, Steps
<1>7. ASSUME NEW w \in Writers, Commit(w) PROVE TypeOK'
  <2>1. NewRows(w) \subseteq Row
    BY DEF NewRows, Row, Transaction
  <2>2. refs' \subseteq Row
    BY <1>7, <2>1 DEF Commit
  <2>3. expression' \in [Metrics -> SUBSET Names]
    BY <1>7 DEF Commit, Transaction
  <2>4. ASSUME NEW v \in Writers PROVE tx'[v] \in Transaction
    BY <1>7, <2>4 DEF Commit, Idle, Transaction, Steps, Names
  <2>5. tx' \in [Writers -> Transaction]
    BY <1>7, <2>4 DEF Commit
  <2> QED BY <2>2, <2>3, <2>5
<1>8. ASSUME NEW w \in Writers, Rollback(w) PROVE TypeOK'
  BY <1>8 DEF Rollback, Idle, Transaction, Steps, Names
<1>9. CASE UNCHANGED vars
  BY <1>9 DEF vars
<1> QED
  BY <1>1, <1>2, <1>3, <1>4, <1>5, <1>6, <1>7, <1>8, <1>9 DEF Next, Proceed

\* The tables and the locals keep their types, whatever writers run at once.
THEOREM TypeCorrect == Spec => []TypeOK
<1> QED
  BY InitHasTypes, TypeIsKept, PTL DEF Spec

-----------------------------------------------------------------------------
(***************************************************************************)
(* One writer at a time.  The walk of assert_no_cycle() is sound because   *)
(* what it has seen is closed: a metric's dependencies are seen already or *)
(* still in the deque.  Acyclic alone is not inductive, because the commit *)
(* relies on what the walk established several steps earlier.              *)
(***************************************************************************)
Checked == {"walk", "delete", "deleting", "flush", "commit"}

\* The metrics seen and those in the deque contain what the new expression names
\* and what the metrics seen depend on, and never the metric being written.
WalkIsClosed(w) ==
    tx[w].pc \in Checked =>
        /\ tx[w].metric \notin tx[w].seen \cup tx[w].frontier \cup tx[w].names
        /\ tx[w].names \cap Metrics \subseteq tx[w].seen \cup tx[w].frontier
        /\ \A x \in tx[w].seen : Dependencies(x) \subseteq tx[w].seen \cup tx[w].frontier
        /\ tx[w].pc # "walk" => tx[w].frontier = {}

\* Nothing has changed behind the writer's back.
ReadsAreCurrent(w) ==
    /\ tx[w].pc \in Checked => tx[w].loaded = expression[tx[w].metric]
    /\ tx[w].pc \in {"deleting", "flush", "commit"} =>
           tx[w].rows = {row \in refs : row.metric = tx[w].metric}

WriterInv(w) == WalkIsClosed(w) /\ ReadsAreCurrent(w)

IInv == TypeOK /\ Acyclic /\ EdgesMatchExpression /\ \A w \in Writers : WriterInv(w)

\* An edge of a set of rows is a row of it.
LEMMA EdgeIsRow ==
  ASSUME NEW R, NEW x \in Metrics, NEW y \in Metrics
  PROVE  <<x, y>> \in Edges(R) <=> \E row \in R : row.metric = x /\ row.target = y
<1>1. ASSUME <<x, y>> \in Edges(R)
      PROVE  \E row \in R : row.metric = x /\ row.target = y
  <2>1. PICK row \in R : row.target \in Metrics /\ <<x, y>> = <<row.metric, row.target>>
    BY <1>1 DEF Edges
  <2>2. row.metric = x /\ row.target = y
    BY <2>1
  <2> QED BY <2>2
<1>2. ASSUME NEW row \in R, row.metric = x, row.target = y
      PROVE  <<x, y>> \in Edges(R)
  BY <1>2 DEF Edges
<1> QED BY <1>1, <1>2

\* The rows inserted are those of the new expression.
LEMMA NewRowsAre ==
  ASSUME NEW w \in Writers, NEW row
  PROVE  row \in NewRows(w) => row.metric = tx[w].metric /\ row.target \in tx[w].names
BY DEF NewRows

LEMMA NewRowExists ==
  ASSUME NEW w \in Writers, NEW y \in tx[w].names
  PROVE  \E row \in NewRows(w) : row.metric = tx[w].metric /\ row.target = y
<1>1. [metric |-> tx[w].metric, target |-> y, by |-> w] \in NewRows(w)
  BY DEF NewRows
<1> QED BY <1>1

\* Replacing the outgoing edges of a metric keeps an acyclic graph acyclic, if
\* what the new edges lead to is in a closed set the metric is not in.
LEMMA ReplacingEdgesKeepsAcyclic ==
  ASSUME NEW E, NEW F, NEW m \in Metrics, NEW C \in SUBSET Metrics,
         AcyclicGraph(E),
         m \notin C,
         \A x \in C, y \in Metrics : <<x, y>> \in E => y \in C,
         \A y \in Metrics : <<m, y>> \in F => y \in C,
         \A x \in Metrics \ {m}, y \in Metrics : <<x, y>> \in F => <<x, y>> \in E
  PROVE  AcyclicGraph(F)
<1> SUFFICES ASSUME NEW S \in SUBSET Metrics, S # {}
             PROVE  \E x \in S : \A y \in S : <<x, y>> \notin F
  BY DEF AcyclicGraph
<1>1. CASE m \notin S
  <2>1. PICK x \in S : \A y \in S : <<x, y>> \notin E
    BY DEF AcyclicGraph
  <2> QED BY <1>1, <2>1
<1>2. CASE m \in S /\ S \cap C = {}
  BY <1>2
<1>3. CASE S \cap C # {}
  <2>1. PICK x \in S \cap C : \A y \in S \cap C : <<x, y>> \notin E
    BY <1>3 DEF AcyclicGraph
  <2>2. ASSUME NEW y \in S, <<x, y>> \in F PROVE FALSE
    <3>1. <<x, y>> \in E
      BY <2>1, <2>2
    <3>2. y \in C
      BY <2>1, <3>1
    <3> QED BY <2>1, <3>1, <3>2
  <2> QED BY <2>1, <2>2
<1> QED BY <1>1, <1>2, <1>3

\* A commit keeps the graph acyclic: it replaces the metric's edges by edges to
\* what the walk has seen.
LEMMA CommitKeepsAcyclic ==
  ASSUME NEW w \in Writers, IInv, Commit(w)
  PROVE  Acyclic'
<1> DEFINE m == tx[w].metric
           C == tx[w].seen
<1>1. /\ tx[w] \in Transaction
      /\ m \in Metrics /\ C \in SUBSET Metrics
  BY DEF IInv, TypeOK, Transaction
<1>2. /\ tx[w].pc \in Checked /\ tx[w].pc # "walk"
      /\ tx[w].pc \in {"deleting", "flush", "commit"}
  BY DEF Commit, Checked
<1>3. /\ m \notin C
      /\ tx[w].names \cap Metrics \subseteq C
      /\ \A x \in C : Dependencies(x) \subseteq C
  BY <1>2 DEF IInv, WriterInv, WalkIsClosed
<1>4. tx[w].rows = {row \in refs : row.metric = m}
  BY <1>2 DEF IInv, WriterInv, ReadsAreCurrent
<1>5. refs' = (refs \ {row \in refs : row.metric = m}) \cup NewRows(w)
  BY <1>4 DEF Commit
<1>6. AcyclicGraph(Edges(refs))
  BY DEF IInv, Acyclic
<1>7. ASSUME NEW x \in C, NEW y \in Metrics, <<x, y>> \in Edges(refs)
      PROVE  y \in C
  <2>1. PICK row \in refs : row.metric = x /\ row.target = y
    BY <1>1, <1>7, EdgeIsRow
  <2>2. y \in Dependencies(x)
    BY <2>1 DEF Dependencies, Targets
  <2> QED BY <1>3, <2>2
<1>8. ASSUME NEW y \in Metrics, <<m, y>> \in Edges(refs')
      PROVE  y \in C
  <2>1. PICK row \in refs' : row.metric = m /\ row.target = y
    BY <1>1, <1>8, EdgeIsRow
  <2>2. row \in NewRows(w)
    BY <1>5, <2>1
  <2> QED BY <1>3, <2>1, <2>2, NewRowsAre
<1>9. ASSUME NEW x \in Metrics \ {m}, NEW y \in Metrics, <<x, y>> \in Edges(refs')
      PROVE  <<x, y>> \in Edges(refs)
  <2>1. PICK row \in refs' : row.metric = x /\ row.target = y
    BY <1>9, EdgeIsRow
  <2>2. row \in refs
    BY <1>5, <2>1, NewRowsAre
  <2> QED BY <2>1, <2>2, EdgeIsRow
<1>10. AcyclicGraph(Edges(refs'))
  <2> HIDE DEF m, C
  <2> QED BY <1>1, <1>3, <1>6, <1>7, <1>8, <1>9, ReplacingEdgesKeepsAcyclic
<1> QED BY <1>10 DEF Acyclic

\* A commit leaves the rows of the metric written to be those of its expression,
\* and the rows of the other metrics alone.
LEMMA CommitKeepsEdges ==
  ASSUME NEW w \in Writers, IInv, Commit(w)
  PROVE  EdgesMatchExpression'
<1> DEFINE m == tx[w].metric
<1>1. m \in Metrics /\ expression \in [Metrics -> SUBSET Names]
  BY DEF IInv, TypeOK, Transaction
<1>2. tx[w].rows = {row \in refs : row.metric = m} /\ tx[w].loaded = expression[m]
  BY DEF IInv, WriterInv, ReadsAreCurrent, Commit, Checked
<1>3. refs' = (refs \ {row \in refs : row.metric = m}) \cup NewRows(w)
  BY <1>2 DEF Commit
<1>4. expression' = [expression EXCEPT ![m] = tx[w].names]
  BY <1>1, <1>2 DEF Commit, Updates
<1>5. Targets(refs', m) = tx[w].names
  <2>1. ASSUME NEW y \in Targets(refs', m) PROVE y \in tx[w].names
    BY <1>3, <2>1, NewRowsAre DEF Targets
  <2>2. ASSUME NEW y \in tx[w].names PROVE y \in Targets(refs', m)
    BY <1>3, <2>2, NewRowExists DEF Targets
  <2> QED BY <2>1, <2>2
<1>6. ASSUME NEW x \in Metrics, x # m PROVE Targets(refs', x) = Targets(refs, x)
  <2>1. {row \in refs' : row.metric = x} = {row \in refs : row.metric = x}
    BY <1>3, <1>6, NewRowsAre
  <2> QED BY <2>1 DEF Targets
<1>7. \A x \in Metrics : Targets(refs, x) = expression[x]
  BY DEF IInv, EdgesMatchExpression
<1>8. \A x \in Metrics : Targets(refs', x) = expression'[x]
  BY <1>1, <1>4, <1>5, <1>6, <1>7
<1> QED BY <1>8 DEF EdgesMatchExpression

\* The invariant is kept, by a writer that is alone.
LEMMA Inductive ==
  ASSUME NEW w \in Writers, Writers = {w}, IInv, [Next]_vars
  PROVE  IInv'
<1>1. TypeOK'
  BY TypeIsKept DEF IInv
<1>2. tx[w] \in Transaction /\ tx \in [Writers -> Transaction] /\ WriterInv(w)
  BY DEF IInv, TypeOK
<1> DEFINE TablesKept == UNCHANGED <<refs, expression>>
<1>3. ASSUME TablesKept
      PROVE  /\ Acyclic' /\ EdgesMatchExpression'
             /\ \A x : Dependencies(x)' = Dependencies(x)
  BY <1>3 DEF IInv, Acyclic, EdgesMatchExpression, Dependencies
<1>4. ASSUME WriterInv(w)', Acyclic', EdgesMatchExpression' PROVE IInv'
  BY <1>1, <1>4 DEF IInv
<1>5. ASSUME NEW m \in Metrics, NEW names \in SUBSET Names, SetExpression(w, m, names)
      PROVE  IInv'
  <2>1. tx'[w] = [pc |-> IF m \in names THEN "rejected" ELSE "walk", metric |-> m,
                  names |-> names, loaded |-> expression[m], seen |-> {},
                  frontier |-> names \cap Metrics, rows |-> {}]
    BY <1>2, <1>5 DEF SetExpression
  <2>2. TablesKept
    BY <1>5 DEF SetExpression
  <2>3. WalkIsClosed(w)'
    BY <2>1 DEF WalkIsClosed, Checked
  <2>4. ReadsAreCurrent(w)'
    BY <2>1, <2>2 DEF ReadsAreCurrent, Checked
  <2> QED BY <1>3, <1>4, <2>2, <2>3, <2>4 DEF WriterInv
<1>6. ASSUME NEW current \in Metrics, Visit(w, current)
      PROVE  IInv'
  <2>1. TablesKept /\ tx[w].pc = "walk" /\ current \in tx[w].frontier
    BY <1>6 DEF Visit
  <2>2. WalkIsClosed(w)
    BY <1>2 DEF WriterInv
  <2>3. /\ tx'[w].metric = tx[w].metric /\ tx'[w].names = tx[w].names
        /\ tx'[w].loaded = tx[w].loaded
        /\ tx'[w].pc \in {"walk", "rejected"}
    BY <1>2, <1>6, <2>1 DEF Visit, Transaction
  <2>4. ReadsAreCurrent(w)'
    BY <1>2, <2>1, <2>3 DEF WriterInv, ReadsAreCurrent, Checked
  <2>5. CASE tx'[w].pc = "rejected"
    <3>1. WalkIsClosed(w)'
      BY <2>5 DEF WalkIsClosed, Checked
    <3> QED BY <1>3, <1>4, <2>1, <2>4, <3>1 DEF WriterInv
  <2>6. CASE tx'[w].pc = "walk"
    <3>1. \/ /\ current \in tx[w].seen
             /\ tx'[w].seen = tx[w].seen
             /\ tx'[w].frontier = tx[w].frontier \ {current}
          \/ /\ tx[w].metric \notin Dependencies(current)
             /\ tx'[w].seen = tx[w].seen \cup {current}
             /\ tx'[w].frontier = (tx[w].frontier \ {current}) \cup Dependencies(current)
      BY <1>2, <1>6, <2>6 DEF Visit, Transaction
    <3>2. WalkIsClosed(w)'
      BY <1>3, <2>1, <2>2, <2>3, <2>6, <3>1 DEF WalkIsClosed, Checked
    <3> QED BY <1>3, <1>4, <2>1, <2>4, <3>2 DEF WriterInv
  <2> QED BY <2>3, <2>5, <2>6
<1>7. ASSUME WalkEnds(w) \/ DeleteStarts(w) \/ DeleteEnds(w) \/ Flush(w)
      PROVE  IInv'
  <2>1. TablesKept
    BY <1>7 DEF WalkEnds, DeleteStarts, DeleteEnds, Flush
  <2>2. /\ tx'[w].metric = tx[w].metric /\ tx'[w].names = tx[w].names
        /\ tx'[w].loaded = tx[w].loaded
        /\ tx'[w].seen = tx[w].seen /\ tx'[w].frontier = tx[w].frontier
        /\ tx[w].pc \in Checked
        /\ tx[w].pc = "walk" => tx[w].frontier = {}
    BY <1>2, <1>7 DEF WalkEnds, DeleteStarts, DeleteEnds, Flush, Transaction, Checked
  <2>3. WalkIsClosed(w)'
    BY <1>2, <1>3, <2>1, <2>2 DEF WriterInv, WalkIsClosed, Checked
  <2>4. tx'[w].pc \in {"deleting", "flush", "commit"} =>
           tx'[w].rows = {row \in refs : row.metric = tx[w].metric}
    <3>1. CASE WalkEnds(w)
      BY <1>2, <3>1 DEF WalkEnds, Transaction
    <3>2. CASE DeleteStarts(w)
      BY <1>2, <3>2 DEF DeleteStarts, Transaction
    <3>3. CASE DeleteEnds(w) \/ Flush(w)
      BY <1>2, <3>3 DEF DeleteEnds, Flush, Transaction, WriterInv, ReadsAreCurrent
    <3> QED BY <1>7, <3>1, <3>2, <3>3
  <2>5. ReadsAreCurrent(w)'
    BY <1>2, <2>1, <2>2, <2>4 DEF WriterInv, ReadsAreCurrent, Checked
  <2> QED BY <1>3, <1>4, <2>1, <2>3, <2>5 DEF WriterInv
<1>8. ASSUME Commit(w)
      PROVE  IInv'
  <2>1. tx'[w].pc = "idle"
    BY <1>8 DEF Commit, Idle
  <2>2. WriterInv(w)'
    BY <2>1 DEF WriterInv, WalkIsClosed, ReadsAreCurrent, Checked
  <2> QED BY <1>4, <1>8, <2>2, CommitKeepsAcyclic, CommitKeepsEdges
<1>9. ASSUME Rollback(w)
      PROVE  IInv'
  <2>1. tx'[w].pc = "idle" /\ TablesKept
    BY <1>2, <1>9 DEF Rollback, Idle
  <2>2. WriterInv(w)'
    BY <2>1 DEF WriterInv, WalkIsClosed, ReadsAreCurrent, Checked
  <2> QED BY <1>3, <1>4, <2>1, <2>2
<1>10. ASSUME UNCHANGED vars
       PROVE  IInv'
  <2>1. TablesKept /\ tx' = tx
    BY <1>10 DEF vars
  <2>2. WriterInv(w)'
    BY <1>2, <1>3, <2>1 DEF WriterInv, WalkIsClosed, ReadsAreCurrent
  <2> QED BY <1>3, <1>4, <2>1, <2>2
<1> HIDE DEF TablesKept
<1> QED
  BY <1>5, <1>6, <1>7, <1>8, <1>9, <1>10 DEF Next, Proceed

LEMMA SerialInvariant ==
  ASSUME NEW w \in Writers, Writers = {w}
  PROVE  Spec => []IInv
<1>1. Init => IInv
  <2> SUFFICES ASSUME Init PROVE IInv
    OBVIOUS
  <2>1. TypeOK
    BY InitHasTypes
  <2>2. Acyclic
    BY DEF Init, Acyclic, AcyclicGraph, Edges
  <2>3. EdgesMatchExpression
    BY DEF Init, EdgesMatchExpression, Targets
  <2>4. \A v \in Writers : tx[v].pc = "idle"
    BY DEF Init, Idle
  <2> QED
    BY <2>1, <2>2, <2>3, <2>4 DEF IInv, WriterInv, WalkIsClosed, ReadsAreCurrent, Checked
<1>2. IInv /\ [Next]_vars => IInv'
  BY Inductive
<1> QED
  BY <1>1, <1>2, PTL DEF Spec

\* As long as metrics are written one at a time, the stored graph never has a
\* cycle: what assert_no_cycle() found before the write still holds after it.
THEOREM SerialWritesKeepAcyclic ==
  ASSUME NEW w \in Writers, Writers = {w}
  PROVE  Spec => []Acyclic
<1>1. IInv => Acyclic
  BY DEF IInv
<1> QED
  BY <1>1, SerialInvariant, PTL

\* As long as metrics are written one at a time, the edges that decide what a
\* query joins are the names its SQL is made from.
THEOREM SerialWritesKeepEdges ==
  ASSUME NEW w \in Writers, Writers = {w}
  PROVE  Spec => []EdgesMatchExpression
<1>1. IInv => EdgesMatchExpression
  BY DEF IInv
<1> QED
  BY <1>1, SerialInvariant, PTL

-----------------------------------------------------------------------------
(***************************************************************************)
(* Only cycles are refused: what the walk visits, the metric written would *)
(* depend on.                                                              *)
(***************************************************************************)

\* The metrics on the way from m to x: each but x depends on another of them.
Way(S, E, m, x) == m \in S /\ x \in S /\ \A y \in S \ {x} : \E t \in S : <<y, t>> \in E

\* Whatever is in the deque can be reached from the metric written.
WalkIsReached(w) ==
    tx[w].pc = "walk" =>
        \A x \in tx[w].frontier :
            \E S \in SUBSET Metrics : Way(S, Rewritten(tx[w].metric, tx[w].names), tx[w].metric, x)

\* A way that can be prolonged to its beginning is a cycle.
LEMMA ClosedWayIsCycle ==
  ASSUME NEW E, NEW m \in Metrics, NEW x \in Metrics, NEW S \in SUBSET Metrics,
         Way(S, E, m, x), <<x, m>> \in E
  PROVE  ~AcyclicGraph(E)
BY DEF Way, AcyclicGraph

LEMMA WayIsProlonged ==
  ASSUME NEW E, NEW m \in Metrics, NEW x \in Metrics, NEW y \in Metrics,
         NEW S \in SUBSET Metrics, Way(S, E, m, x), <<x, y>> \in E
  PROVE  Way(S \cup {y}, E, m, y)
BY DEF Way

\* What the walk reads of another metric than m is in the graph to come.
LEMMA DependenciesAreEdges ==
  ASSUME NEW m \in Metrics, NEW names, NEW x \in Metrics \ {m}, NEW y \in Dependencies(x)
  PROVE  y \in Metrics /\ <<x, y>> \in Rewritten(m, names)
<1>1. PICK row \in refs : row.metric = x /\ row.target = y /\ y \in Metrics
  BY DEF Dependencies, Targets
<1>2. <<x, y>> \in Edges({r \in refs : r.metric # m})
  BY <1>1, EdgeIsRow
<1> QED BY <1>1, <1>2 DEF Rewritten

LEMMA WalkStaysReached ==
  ASSUME NEW w \in Writers, Writers = {w}, IInv, WalkIsReached(w), [Next]_vars
  PROVE  WalkIsReached(w)'
<1> DEFINE m == tx[w].metric
           E == Rewritten(m, tx[w].names)
<1>1. tx[w] \in Transaction /\ tx \in [Writers -> Transaction] /\ m \in Metrics
  BY DEF IInv, TypeOK, Transaction
<1>2. ASSUME UNCHANGED <<refs, tx>> PROVE WalkIsReached(w)'
  BY <1>2 DEF WalkIsReached, Rewritten
<1>3. ASSUME NEW n \in Metrics, NEW names \in SUBSET Names, SetExpression(w, n, names),
             tx'[w].pc = "walk", NEW x \in tx'[w].frontier
      PROVE  \E S \in SUBSET Metrics : Way(S, Rewritten(n, names), n, x)
  <2>1. x \in names \cap Metrics
    BY <1>1, <1>3 DEF SetExpression
  <2>2. Way({n, x}, Rewritten(n, names), n, x)
    BY <2>1 DEF Way, Rewritten
  <2> QED BY <2>1, <2>2
<1>4. ASSUME NEW n \in Metrics, NEW names \in SUBSET Names, SetExpression(w, n, names)
      PROVE  WalkIsReached(w)'
  <2>1. tx'[w].metric = n /\ tx'[w].names = names /\ refs' = refs
    BY <1>1, <1>4 DEF SetExpression
  <2> QED BY <1>3, <1>4, <2>1 DEF WalkIsReached, Rewritten
<1>5. ASSUME NEW current \in Metrics, Visit(w, current)
      PROVE  WalkIsReached(w)'
  <2>1. /\ tx[w].pc = "walk" /\ current \in tx[w].frontier /\ refs' = refs
        /\ tx'[w].metric = m /\ tx'[w].names = tx[w].names
    BY <1>1, <1>5 DEF Visit, Transaction
  <2>2. \/ tx'[w].pc = "rejected"
        \/ tx'[w].frontier \subseteq tx[w].frontier \cup Dependencies(current)
    BY <1>1, <1>5 DEF Visit, Transaction
  <2>3. current # m
    BY <2>1 DEF IInv, WriterInv, WalkIsClosed, Checked
  <2>4. PICK S \in SUBSET Metrics : Way(S, E, m, current)
    BY <2>1 DEF WalkIsReached
  <2>5. ASSUME NEW x \in Dependencies(current) PROVE \E R \in SUBSET Metrics : Way(R, E, m, x)
    <3>1. x \in Metrics /\ <<current, x>> \in E
      BY <1>1, <2>3, DependenciesAreEdges
    <3>2. Way(S \cup {x}, E, m, x)
      BY <1>1, <2>4, <3>1, WayIsProlonged
    <3> QED BY <3>1, <3>2
  <2>6. \A x \in tx[w].frontier : \E R \in SUBSET Metrics : Way(R, E, m, x)
    BY <2>1 DEF WalkIsReached
  <2>7. Rewritten(tx[w].metric, tx[w].names)' = E
    BY <2>1 DEF Rewritten
  <2> HIDE DEF E
  <2> QED BY <2>1, <2>2, <2>5, <2>6, <2>7 DEF WalkIsReached
<1>6. ASSUME WalkEnds(w) \/ DeleteStarts(w) \/ DeleteEnds(w) \/ Flush(w) \/ Commit(w) \/ Rollback(w)
      PROVE  WalkIsReached(w)'
  <2>1. tx'[w].pc # "walk"
    BY <1>1, <1>6 DEF WalkEnds, DeleteStarts, DeleteEnds, Flush, Commit, Rollback, Idle, Transaction
  <2> QED BY <2>1 DEF WalkIsReached
<1>7. CASE UNCHANGED vars
  BY <1>2, <1>7 DEF vars
<1> QED
  BY <1>4, <1>5, <1>6, <1>7 DEF Next, Proceed

\* The step that refuses an expression has found a cycle.
LEMMA RefusalIsCycle ==
  ASSUME NEW w \in Writers, Writers = {w}, IInv, WalkIsReached(w), [Next]_vars,
         tx[w].pc # "rejected", tx'[w].pc = "rejected"
  PROVE  ~AcyclicGraph(Rewritten(tx'[w].metric, tx'[w].names))
<1> DEFINE m == tx[w].metric
           E == Rewritten(m, tx[w].names)
<1>1. tx[w] \in Transaction /\ tx \in [Writers -> Transaction] /\ m \in Metrics
  BY DEF IInv, TypeOK, Transaction
<1>2. ASSUME NEW n \in Metrics, NEW names \in SUBSET Names, SetExpression(w, n, names)
      PROVE  ~AcyclicGraph(Rewritten(tx'[w].metric, tx'[w].names))
  <2>1. tx'[w].metric = n /\ tx'[w].names = names /\ n \in names
    BY <1>1, <1>2 DEF SetExpression
  <2>2. <<n, n>> \in Rewritten(n, names)
    BY <2>1 DEF Rewritten
  <2>3. Way({n}, Rewritten(n, names), n, n)
    BY DEF Way
  <2> QED BY <2>1, <2>2, <2>3, ClosedWayIsCycle
<1>3. ASSUME NEW current \in Metrics, Visit(w, current)
      PROVE  ~AcyclicGraph(Rewritten(tx'[w].metric, tx'[w].names))
  <2>1. /\ tx[w].pc = "walk" /\ current \in tx[w].frontier /\ m \in Dependencies(current)
        /\ tx'[w].metric = m /\ tx'[w].names = tx[w].names
    BY <1>1, <1>3 DEF Visit, Transaction
  <2>2. current # m
    BY <2>1 DEF IInv, WriterInv, WalkIsClosed, Checked
  <2>3. PICK S \in SUBSET Metrics : Way(S, E, m, current)
    BY <2>1 DEF WalkIsReached
  <2>4. <<current, m>> \in E
    BY <1>1, <2>1, <2>2, DependenciesAreEdges
  <2>5. ~AcyclicGraph(E)
    BY <1>1, <2>3, <2>4, ClosedWayIsCycle
  <2> QED BY <2>1, <2>5
<1>4. ASSUME WalkEnds(w) \/ DeleteStarts(w) \/ DeleteEnds(w) \/ Flush(w) \/ Commit(w) \/ Rollback(w)
      PROVE  FALSE
  BY <1>1, <1>4 DEF WalkEnds, DeleteStarts, DeleteEnds, Flush, Commit, Rollback, Idle, Transaction
<1>5. CASE UNCHANGED vars
  BY <1>5 DEF vars
<1> QED
  BY <1>2, <1>3, <1>4, <1>5 DEF Next, Proceed

\* As long as metrics are written one at a time, an expression is refused only if it
\* would close a cycle: a metric met along two paths is not one.
THEOREM SerialWritesRefuseOnlyCycles ==
  ASSUME NEW v \in Writers, Writers = {v}
  PROVE  Spec => RefusesOnlyCycles
<1>1. Init => WalkIsReached(v)
  BY DEF Init, Idle, WalkIsReached
<1>2. IInv /\ WalkIsReached(v) /\ [Next]_vars => WalkIsReached(v)'
  BY WalkStaysReached
<1>3. IInv /\ WalkIsReached(v) /\ [Next]_vars =>
        [\A w \in Writers :
            tx[w].pc # "rejected" /\ tx'[w].pc = "rejected" =>
                ~AcyclicGraph(Rewritten(tx'[w].metric, tx'[w].names))]_vars
  BY RefusalIsCycle
<1>4. Spec => []IInv
  BY SerialInvariant
<1> QED
  BY <1>1, <1>2, <1>3, <1>4, PTL DEF Spec, RefusesOnlyCycles
=============================================================================
