------------------------------- MODULE Compiler -------------------------------
(***************************************************************************)
(* _Compiler.compile() of app/services/compiler.py: a query's metrics are  *)
(* loaded, the entities it needs are collected, resolve_join_path() plans  *)
(* the joins, and the statement is rendered.                               *)
(*                                                                         *)
(* Each query of the compilation is a READ COMMITTED statement of its own, *)
(* so a modeller's commit can fall between any two of them.  One           *)
(* compilation is modelled: compilations share nothing but the database.   *)
(***************************************************************************)
EXTENDS JoinPath

CONSTANTS
    Declarable,   \* the relationships a modeller may declare
    MaxMeasures,  \* bound: measures a query's metrics resolve to
    MaxEdits      \* bound: commits of the modeller

ASSUME DeclarableAssumption == Declarable \subseteq Relationship
ASSUME BoundsAssumption == MaxMeasures \in Nat /\ MaxEdits \in Nat

VARIABLES
    entities,       \* committed entities of the version
    relationships,  \* committed relationships
    active,         \* entities carrying an active business rule
    q,              \* the locals of the compilation
    standing,       \* history: rules active ever since the compilation began
    edits           \* commits of the modeller so far, up to MaxEdits

catalogue == <<entities, relationships, active>>
vars == <<path, catalogue, q, standing, edits>>

Compilation ==
    [pc         : {"load", "required", "graph", "edges", "join", "compiled", "failed", "error"},
     measures   : Seq(Entities),     \* the entity of each measure, in metric order
     dimensions : SUBSET Entities,   \* the entities of dimensions and filters
     required   : SUBSET Entities,
     entities   : SUBSET Entities,   \* _load_graph(): entities
     rules      : SUBSET Entities]   \* the entities whose rules the WHERE clause has

\* One row per ordered pair of entities, and the ends are entities of the version.
ValidGraph(E, R) ==
    /\ \A rel \in R : rel.from \in E /\ rel.to \in E /\ rel.from # rel.to
    /\ \A r1, r2 \in R : r1.from = r2.from /\ r1.to = r2.to => r1 = r2

-----------------------------------------------------------------------------
Init ==
    /\ entities \in SUBSET Entities
    /\ relationships \in SUBSET Declarable
    /\ ValidGraph(entities, relationships)
    /\ active \in SUBSET entities
    /\ standing = active
    /\ q = [pc |-> "load", measures |-> <<>>, dimensions |-> {}, required |-> {},
            entities |-> {}, rules |-> {}]
    /\ path = Call({}, {}, CHOOSE e \in Entities : TRUE, {})
    /\ edits = 0

\* _load(), and the metrics expanded to their measures.
Load(measures, dimensions) ==
    /\ q.pc = "load"
    /\ q' = [q EXCEPT !.pc = IF measures = <<>> THEN "failed" ELSE "required",
                      !.measures = measures,
                      !.dimensions = dimensions]
    /\ UNCHANGED <<path, catalogue, standing, edits>>

\* Mutation of CollectRequired: entities are required by what the question names only.
RulesRequireNothing ==
    /\ q.pc = "required"
    /\ q' = [q EXCEPT !.pc = "graph", !.required = Range(q.measures) \cup q.dimensions]
    /\ UNCHANGED <<path, catalogue, standing, edits>>

\* Mutation of CollectRequired: dimensions and filters are forgotten.
DimensionsRequireNothing ==
    /\ q.pc = "required"
    /\ q' = [q EXCEPT !.pc = "graph", !.required = Range(q.measures) \cup active]
    /\ UNCHANGED <<path, catalogue, standing, edits>>

\* _required_entities(): the rules are read a first time, for their entities.
CollectRequired ==
    /\ q.pc = "required"
    /\ q' = [q EXCEPT !.pc = "graph",
                      !.required = Range(q.measures) \cup q.dimensions \cup active]
    /\ UNCHANGED <<path, catalogue, standing, edits>>

\* _load_graph(): two statements, the entities ...
LoadEntities ==
    /\ q.pc = "graph"
    /\ q' = [q EXCEPT !.pc = "edges", !.entities = entities]
    /\ UNCHANGED <<path, catalogue, standing, edits>>

\* ... and the relationships, whose ends index the dict of the entities just
\* read: an entity committed in between is a KeyError, which nothing catches.
LoadEdges ==
    /\ q.pc = "edges"
    /\ IF \E rel \in relationships : ~({rel.from, rel.to} \subseteq q.entities)
       THEN /\ q' = [q EXCEPT !.pc = "error"]
            /\ UNCHANGED path
       ELSE /\ q' = [q EXCEPT !.pc = "join"]
            /\ path' = Call(q.entities, relationships, Head(q.measures), q.required)
    /\ UNCHANGED <<catalogue, standing, edits>>

Join ==
    /\ q.pc = "join"
    /\ JoinStep
    /\ UNCHANGED <<catalogue, q, standing, edits>>

\* A plan is refused if it could not be made, if a step fans out from the root,
\* or if a relationship has no join keys.  Otherwise the statement is rendered,
\* and the rules are read a second time, those of the plan's entities.
Render ==
    /\ q.pc = "join"
    /\ path.pc \in Outcomes
    /\ LET joined == Range(path.ordered) IN
       IF \/ path.pc # "planned"
          \/ \E e \in joined : FansOut(e)
          \/ \E e \in joined : ~path.edge[e].keyed
       THEN q' = [q EXCEPT !.pc = "failed"]
       ELSE q' = [q EXCEPT !.pc = "compiled", !.rules = active \cap Included]
    /\ UNCHANGED <<path, catalogue, standing, edits>>

-----------------------------------------------------------------------------
\* The modeller's commits.  Dropping an entity cascades to what hangs off it.

AddEntity(e) ==
    /\ e \notin entities
    /\ entities' = entities \cup {e}
    /\ UNCHANGED <<path, relationships, active, q, standing>>

DropEntity(e) ==
    /\ e \in entities
    /\ entities' = entities \ {e}
    /\ relationships' = {rel \in relationships : ~Incident(rel, e)}
    /\ active' = active \ {e}
    /\ standing' = standing \ {e}
    /\ UNCHANGED <<path, q>>

Relate(rel) ==
    /\ rel \notin relationships
    /\ ValidGraph(entities, relationships \cup {rel})
    /\ relationships' = relationships \cup {rel}
    /\ UNCHANGED <<path, entities, active, q, standing>>

Unrelate(rel) ==
    /\ rel \in relationships
    /\ relationships' = relationships \ {rel}
    /\ UNCHANGED <<path, entities, active, q, standing>>

ActivateRule(e) ==
    /\ e \in entities \ active
    /\ active' = active \cup {e}
    /\ UNCHANGED <<path, entities, relationships, q, standing>>

DeactivateRule(e) ==
    /\ e \in active
    /\ active' = active \ {e}
    /\ standing' = standing \ {e}
    /\ UNCHANGED <<path, entities, relationships, q>>

-----------------------------------------------------------------------------
CompileStep ==
    \/ \E n \in 0..MaxMeasures : \E measures \in [1..n -> entities], dimensions \in SUBSET entities :
          Load(measures, dimensions)
    \/ CollectRequired \/ LoadEntities \/ LoadEdges \/ Join \/ Render

Edit ==
    /\ edits < MaxEdits
    /\ edits' = edits + 1
    /\ \/ \E e \in Entities : AddEntity(e) \/ DropEntity(e) \/ ActivateRule(e) \/ DeactivateRule(e)
       \/ \E rel \in Declarable : Relate(rel) \/ Unrelate(rel)

Next == CompileStep \/ Edit

Spec == Init /\ [][Next]_vars

-----------------------------------------------------------------------------
\* Properties

\* The locals and the tables have their types; committed graphs are valid.
CompilerTypeOK ==
    /\ q \in Compilation
    /\ entities \subseteq Entities
    /\ relationships \subseteq Declarable
    /\ ValidGraph(entities, relationships)
    /\ active \subseteq entities
    /\ standing \subseteq active
    /\ edits \in 0..MaxEdits

\* "Injected for every entity the query touches": a rule in force during the
\* whole compilation is in the SQL, whoever edits what meanwhile.
StandingRulesApply == q.pc = "compiled" => standing \subseteq q.rules

\* Every column the statement mentions belongs to an entity of its FROM clause:
\* measures, dimensions, filters and rules all find their alias.
EveryColumnIsJoined ==
    q.pc = "compiled" => Range(q.measures) \cup q.dimensions \cup q.rules \subseteq Included

\* The reference notion of double counting: e's rows are repeated if, in the
\* tree of joins, some edge leads away from e from its one side to its many side.
Ancestors[n \in Nat] ==
    [e \in Entities |-> IF e = path.root \/ n = 0
                        THEN {e} ELSE {e} \cup Ancestors[n - 1][path.parent[e]]]

IsAbove(x, e) == x \in Ancestors[Cardinality(Entities)][e]

ManySide(rel) ==
    CASE rel.cardinality = "many_to_one" -> {rel.from}
      [] rel.cardinality = "one_to_many" -> {rel.to}
      [] rel.cardinality = "one_to_one" -> {}

Multiplied(e) ==
    \E x \in Range(path.ordered) :
        (IF IsAbove(x, e) THEN path.parent[x] ELSE x) \in ManySide(path.edge[x])

\* A query about one fact table is never compiled to SQL that counts its rows
\* more than once.
SingleFactIsNotMultiplied ==
    q.pc = "compiled" /\ Range(q.measures) = {path.root} => ~Multiplied(path.root)

-----------------------------------------------------------------------------
\* A statement of the repository that the code does not keep.

\* compiler.py: a plan that "double-counts the totals" is refused.
NoTotalIsMultiplied ==
    q.pc = "compiled" => \A e \in Range(q.measures) : ~Multiplied(e)
=============================================================================
