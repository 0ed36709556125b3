------------------------------- MODULE JoinPath -------------------------------
(***************************************************************************)
(* resolve_join_path() of app/services/joins.py: from the entity a query   *)
(* is rooted at, a breadth-first search over the declared relationships,   *)
(* then a walk back from every entity the query needs, collecting the      *)
(* JOIN steps.  The graph is loaded before and the search is local, so     *)
(* `path` is private to its caller.                                        *)
(***************************************************************************)
EXTENDS Integers, Sequences, FiniteSets, Functions

CONSTANTS
    Entities,       \* entity ids
    NoRelationship  \* the step of an entity the search has not reached

VARIABLE path   \* the locals of one call

Cardinalities == {"one_to_one", "many_to_one", "one_to_many"}

Relationship == [from : Entities, to : Entities, cardinality : Cardinalities, keyed : BOOLEAN]

ASSUME NoRelationshipAssumption == NoRelationship \notin Relationship

Outcomes == {"planned", "missing", "unreachable"}

JoinCall ==
    [pc        : {"search", "collect", "walk"} \cup Outcomes,
     entities  : SUBSET Entities,
     edges     : SUBSET Relationship,
     root      : Entities,
     needed    : SUBSET Entities,
     seen      : SUBSET Entities,
     frontier  : Seq(Entities),
     edge      : [Entities -> Relationship \cup {NoRelationship}],  \* parent[e][0]
     parent    : [Entities -> Entities],                           \* parent[e][1]
     remaining : SUBSET Entities,   \* needed entities still to be walked back from
     cursor    : Entities,
     chain     : Seq(Entities),     \* reversed(chain)
     ordered   : Seq(Entities)]

\* The other end of a relationship.
Across(rel, e) == IF rel.from = e THEN rel.to ELSE rel.from

Incident(rel, e) == e \in {rel.from, rel.to}

\* The call: entities the version does not have end it, a query about the root
\* alone needs no join, and everything else searches.
Call(entities, edges, root, required) ==
    LET needed == required \cup {root} IN
    [pc        |-> IF ~(needed \subseteq entities) THEN "missing"
                   ELSE IF needed = {root} THEN "planned"
                   ELSE "search",
     entities  |-> entities,
     edges     |-> edges,
     root      |-> root,
     needed    |-> needed,
     seen      |-> {root},
     frontier  |-> <<root>>,
     edge      |-> [e \in Entities |-> NoRelationship],
     parent    |-> [e \in Entities |-> e],
     remaining |-> needed,
     cursor    |-> root,
     chain     |-> <<>>,
     ordered   |-> <<>>]

\* Mutation of Discover: the deque is used as a stack.
DiscoverDepthFirst(rel) ==
    /\ path.pc = "search"
    /\ path.frontier # <<>>
    /\ LET current == Head(path.frontier)
           neighbour == Across(rel, current)
       IN  /\ Incident(rel, current)
           /\ neighbour \notin path.seen
           /\ path' = [path EXCEPT !.seen = @ \cup {neighbour},
                                   !.frontier = <<neighbour>> \o @,
                                   !.edge[neighbour] = rel,
                                   !.parent[neighbour] = current]

\* The relationships of the current entity are followed in the order the rows
\* came back, which no ORDER BY fixes.
Discover(rel) ==
    /\ path.pc = "search"
    /\ path.frontier # <<>>
    /\ rel \in path.edges
    /\ LET current == Head(path.frontier)
           neighbour == Across(rel, current)
       IN  /\ Incident(rel, current)
           /\ neighbour \notin path.seen
           /\ path' = [path EXCEPT !.seen = @ \cup {neighbour},
                                   !.frontier = Append(@, neighbour),
                                   !.edge[neighbour] = rel,
                                   !.parent[neighbour] = current]

\* Mutation of Advance: the head of the deque is read, not removed.
AdvanceInPlace ==
    /\ path.pc = "search"
    /\ path.frontier # <<>>
    /\ UNCHANGED path

\* The current entity has no neighbour left: the next one of the deque.
Advance ==
    /\ path.pc = "search"
    /\ path.frontier # <<>>
    /\ \A rel \in path.edges :
          Incident(rel, Head(path.frontier)) => Across(rel, Head(path.frontier)) \in path.seen
    /\ path' = [path EXCEPT !.frontier = Tail(@)]

SearchEnds ==
    /\ path.pc = "search"
    /\ path.frontier = <<>>
    /\ path' = [path EXCEPT !.pc = IF path.needed \subseteq path.seen
                                   THEN "collect" ELSE "unreachable"]

Included == {path.root} \cup Range(path.ordered)

\* for entity_id in needed: a set, in no particular order.
Pick(e) ==
    /\ path.pc = "collect"
    /\ e \in path.remaining
    /\ path' = [path EXCEPT !.pc = "walk", !.remaining = @ \ {e}, !.cursor = e, !.chain = <<>>]

\* Mutation of WalkBack: the chain is not reversed.
WalkBackUnreversed ==
    /\ path.pc = "walk"
    /\ path.cursor \notin Included
    /\ path' = [path EXCEPT !.chain = Append(@, path.cursor), !.cursor = path.parent[@]]

WalkBack ==
    /\ path.pc = "walk"
    /\ path.cursor \notin Included
    /\ path' = [path EXCEPT !.chain = <<path.cursor>> \o @, !.cursor = path.parent[@]]

ChainEnds ==
    /\ path.pc = "walk"
    /\ path.cursor \in Included
    /\ path' = [path EXCEPT !.pc = "collect", !.ordered = @ \o path.chain]

Planned ==
    /\ path.pc = "collect"
    /\ path.remaining = {}
    /\ path' = [path EXCEPT !.pc = "planned"]

\* One step of the call, until it returns a plan or raises JoinPathError.
JoinStep ==
    \/ \E rel \in path.edges : Discover(rel)
    \/ Advance \/ SearchEnds
    \/ \E e \in path.remaining : Pick(e)
    \/ WalkBack \/ ChainEnds \/ Planned

\* Relationships go with the entities they relate.
JoinInit ==
    \E entities \in SUBSET Entities, edges \in SUBSET Relationship,
       root \in Entities, required \in SUBSET Entities :
        /\ \A rel \in edges : {rel.from, rel.to} \subseteq entities
        /\ path = Call(entities, edges, root, required)

JoinSpec == JoinInit /\ [][JoinStep]_path

-----------------------------------------------------------------------------
\* Mutation of FansOut: only relationships walked against their direction count.
FansOutBackwards(e) ==
    path.edge[e].cardinality = "many_to_one" /\ path.edge[e].from = e

\* JoinStep.fans_out: does walking the edge towards e multiply the rows already joined?
FansOut(e) ==
    LET rel == path.edge[e]
        against == rel.from = e
    IN  \/ rel.cardinality = "many_to_one" /\ against
        \/ rel.cardinality = "one_to_many" /\ ~against

-----------------------------------------------------------------------------
\* Properties.  The reference notions are stated on the graph alone.

Adjacent(e) == {Across(rel, e) : rel \in {x \in path.edges : Incident(x, e)}}

\* Entities within n relationships of the root.
Within[n \in Nat] ==
    IF n = 0 THEN {path.root}
    ELSE Within[n - 1] \cup UNION {Adjacent(e) : e \in Within[n - 1]}

Reachable == Within[Cardinality(Entities)]

Distance(e) == CHOOSE n \in 0..Cardinality(Entities) :
                  e \in Within[n] /\ (n > 0 => e \notin Within[n - 1])

\* Depth[n][e]: the number of JOINs between e and the root in the tree found, or n
\* if there are more.
Depth[n \in Nat] ==
    [e \in Entities |-> IF e = path.root \/ n = 0 THEN 0 ELSE 1 + Depth[n - 1][path.parent[e]]]

\* The locals have their types.
TypeOK == path \in JoinCall

\* A plan can be emitted as it stands: every needed entity is in it, each joined
\* once, after the entity its condition mentions, by a declared relationship; and
\* nothing is joined that the query does not need: every entity brought in is
\* needed, or leads to one that is.
PlanIsATree ==
    path.pc = "planned" =>
        LET ordered == path.ordered IN
        /\ path.needed \subseteq Included
        /\ \A i, j \in 1..Len(ordered) : ordered[i] = ordered[j] => i = j
        /\ path.root \notin Range(ordered)
        /\ \A i \in 1..Len(ordered) :
              /\ path.edge[ordered[i]] \in path.edges
              /\ path.parent[ordered[i]] = Across(path.edge[ordered[i]], ordered[i])
              /\ \/ path.parent[ordered[i]] = path.root
                 \/ \E j \in 1..(i - 1) : ordered[j] = path.parent[ordered[i]]
        /\ \A e \in Range(ordered) :
              e \in path.needed \/ \E f \in Range(ordered) : path.parent[f] = e

\* Breadth-first: whatever the order of the rows, every entity is joined over a
\* shortest chain of relationships, and a join is refused exactly when some needed
\* entity has no declared path.
ShortestChains ==
    /\ path.pc = "planned" =>
          /\ path.needed \subseteq Reachable
          /\ \A e \in Range(path.ordered) : Depth[Cardinality(Entities)][e] = Distance(e)
    /\ path.pc = "unreachable" => ~(path.needed \subseteq Reachable)

\* joins.py: "returns the smallest tree connecting everything the query touches".
Connects(T) ==
    LET Grow[n \in Nat] ==
            IF n = 0 THEN {path.root}
            ELSE Grow[n - 1] \cup UNION {Adjacent(e) \cap T : e \in Grow[n - 1]}
    IN  Grow[Cardinality(Entities)] = T

SmallestTree ==
    path.pc = "planned" =>
        \A T \in SUBSET path.entities :
            path.needed \subseteq T /\ Connects(T) => Cardinality(Included) <= Cardinality(T)
=============================================================================
