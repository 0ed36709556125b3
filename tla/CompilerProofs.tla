----------------------------- MODULE CompilerProofs -----------------------------
(***************************************************************************)
(* What holds of the plans of resolve_join_path() for graphs of any size,  *)
(* whatever order their relationships come in, of the statements the       *)
(* compiler makes of them, and of the metrics it expands.                  *)
(***************************************************************************)
EXTENDS MetricExpansion, Compiler, SequenceTheorems, FiniteSetTheorems, TLAPS

-----------------------------------------------------------------------------
(***************************************************************************)
(* The inductive invariant, in parts.                                      *)
(***************************************************************************)

Joining == path.pc \in {"collect", "walk", "planned"}

\* Everything seen but the root was reached over a declared relationship.
ReachedInv ==
    /\ path.root \in path.seen
    /\ Range(path.frontier) \subseteq path.seen
    /\ \A e \in path.seen \ {path.root} :
          /\ path.edge[e] \in path.edges
          /\ path.parent[e] = Across(path.edge[e], e)
          /\ path.parent[e] \in path.seen

\* The search assigns parents without a cycle: entities can be ranked.
RankInv ==
    \E rank \in [Entities -> Nat] :
        \A e \in path.seen \ {path.root} : rank[path.parent[e]] < rank[e]

\* The chain leads from the cursor to the entity walked back from, over entities
\* that are not joined yet, each once: they rank above the cursor.
ChainInv ==
    /\ path.cursor \in path.seen
    /\ \A i \in 1..Len(path.chain) : path.chain[i] \in path.seen \ Included
    /\ \A i \in 1..(Len(path.chain) - 1) : path.parent[path.chain[i + 1]] = path.chain[i]
    /\ path.chain # <<>> =>
          /\ path.parent[path.chain[1]] = path.cursor
          /\ path.chain[Len(path.chain)] \in path.needed
    /\ path.chain = <<>> => path.cursor \in path.needed
    /\ \A i, j \in 1..Len(path.chain) : path.chain[i] = path.chain[j] => i = j
    /\ \E rank \in [Entities -> Nat] :
          /\ \A e \in path.seen \ {path.root} : rank[path.parent[e]] < rank[e]
          /\ \A i \in 1..Len(path.chain) : rank[path.cursor] < rank[path.chain[i]]

\* What is joined: each entity once, after the one its condition mentions, and only
\* if it is needed or leads to another.
OrderInv ==
    /\ \A i \in 1..Len(path.ordered) : path.ordered[i] \in path.seen \ {path.root}
    /\ \A i, j \in 1..Len(path.ordered) : path.ordered[i] = path.ordered[j] => i = j
    /\ \A i \in 1..Len(path.ordered) :
          \/ path.parent[path.ordered[i]] = path.root
          \/ \E j \in 1..(i - 1) : path.ordered[j] = path.parent[path.ordered[i]]
    /\ \A i \in 1..Len(path.ordered) :
          \/ path.ordered[i] \in path.needed
          \/ \E j \in 1..Len(path.ordered) : path.parent[path.ordered[j]] = path.ordered[i]

\* Every needed entity is joined, being joined, or still to be.
NeededInv ==
    /\ path.needed \subseteq path.seen
    /\ path.remaining \subseteq path.needed
    /\ path.needed \subseteq Included \cup path.remaining \cup
          (IF path.pc = "walk" THEN Range(path.chain) \cup {path.cursor} ELSE {})

IInv ==
    /\ TypeOK
    /\ ReachedInv
    /\ RankInv
    /\ Joining => OrderInv /\ NeededInv
    /\ path.pc = "walk" => ChainInv
    /\ path.pc = "planned" => path.needed \subseteq Included
    /\ path.pc = "search" => path.ordered = <<>> /\ path.remaining = path.needed

-----------------------------------------------------------------------------
(***************************************************************************)
(* The search.                                                             *)
(***************************************************************************)

LEMMA RangeOfSequence ==
    ASSUME NEW S, NEW s \in Seq(S)
    PROVE  /\ Range(s) = {s[i] : i \in 1..Len(s)}
           /\ Range(s) \subseteq S
           /\ Len(s) \in Nat /\ \A i \in 1..Len(s) : s[i] \in S
BY LenProperties DEF Range

LEMMA InitInv == JoinInit => IInv
<1> SUFFICES ASSUME NEW rows \in SUBSET Entities, NEW edges \in SUBSET Relationship,
                    NEW root \in Entities, NEW required \in SUBSET Entities,
                    path = Call(rows, edges, root, required)
             PROVE  IInv
    BY DEF JoinInit
<1>1. /\ path.pc \in {"missing", "planned", "search"}
      /\ path.pc = "planned" => path.needed = {root}
      /\ path.entities = rows /\ path.edges = edges
      /\ path.root = root /\ path.needed = required \cup {root} /\ path.seen = {root}
      /\ path.frontier = <<root>> /\ path.edge = [e \in Entities |-> NoRelationship]
      /\ path.parent = [e \in Entities |-> e] /\ path.remaining = path.needed
      /\ path.cursor = root /\ path.chain = <<>> /\ path.ordered = <<>>
    BY DEF Call
<1>2. TypeOK
    BY <1>1 DEF TypeOK, JoinCall, Outcomes, Call
<1>3. Range(path.frontier) = {root} /\ Included = {root}
    BY <1>1 DEF Range, Included
<1>4. ReachedInv
    BY <1>1, <1>3 DEF ReachedInv
<1>5. RankInv
  <2>1. [e \in Entities |-> 0] \in [Entities -> Nat]
    OBVIOUS
  <2>q. QED BY <1>1, <2>1 DEF RankInv
<1>6. Joining => OrderInv /\ NeededInv
    BY <1>1, <1>3 DEF Joining, OrderInv, NeededInv
<1>q. QED BY <1>1, <1>2, <1>3, <1>4, <1>5, <1>6 DEF IInv

\* While the search goes on nothing is joined.
LEMMA DiscoverKeeps == ASSUME IInv, NEW rel \in path.edges, Discover(rel) PROVE IInv'
<1> DEFINE current   == Head(path.frontier)
           neighbour == Across(rel, current)
<1>1. /\ path.pc = "search" /\ path.frontier # <<>>
      /\ Incident(rel, current) /\ neighbour \notin path.seen
      /\ path' = [path EXCEPT !.seen = @ \cup {neighbour},
                              !.frontier = Append(@, neighbour),
                              !.edge[neighbour] = rel,
                              !.parent[neighbour] = current]
    BY DEF Discover
<1>2. TypeOK /\ ReachedInv /\ RankInv
    BY DEF IInv
<1>3. /\ path.frontier \in Seq(Entities) /\ path.seen \in SUBSET Entities /\ path.edges \in SUBSET Relationship
      /\ path.edge \in [Entities -> Relationship \cup {NoRelationship}]
      /\ path.parent \in [Entities -> Entities]
    BY <1>2 DEF TypeOK, JoinCall
<1>4. current \in path.seen /\ current \in Entities /\ current = path.frontier[1]
  <2>1. Len(path.frontier) \in Nat /\ Len(path.frontier) # 0 /\ current = path.frontier[1]
    BY <1>1, <1>3, EmptySeq, LenProperties
  <2>2. current \in Range(path.frontier)
    BY <1>3, <2>1, RangeOfSequence
  <2>q. QED BY <1>2, <1>3, <2>1, <2>2 DEF ReachedInv
<1>5. neighbour \in Entities /\ neighbour # current
    BY <1>1, <1>3, <1>4 DEF Across, Relationship
<1>6. Across(rel, neighbour) = current
    BY <1>1, <1>5 DEF Across, Incident
<1> HIDE DEF current, neighbour
<1>7. /\ path'.seen = path.seen \cup {neighbour}
      /\ path'.frontier = Append(path.frontier, neighbour)
      /\ path'.edge = [path.edge EXCEPT ![neighbour] = rel]
      /\ path'.parent = [path.parent EXCEPT ![neighbour] = current]
      /\ path'.pc = "search" /\ path'.edges = path.edges /\ path'.root = path.root
      /\ path'.ordered = path.ordered /\ path'.remaining = path.remaining /\ path'.needed = path.needed
    BY <1>1, <1>2 DEF TypeOK, JoinCall
<1>8. TypeOK'
  <2>1. Append(path.frontier, neighbour) \in Seq(Entities)
    BY <1>3, <1>5, AppendProperties
  <2>2. /\ path'.edge \in [Entities -> Relationship \cup {NoRelationship}]
        /\ path'.parent \in [Entities -> Entities]
        /\ path'.seen \in SUBSET Entities
    BY <1>3, <1>4, <1>5, <1>7
  <2>q. QED BY <1>1, <1>2, <1>7, <2>1, <2>2 DEF TypeOK, JoinCall
<1>9. /\ path'.edge[neighbour] = rel /\ path'.parent[neighbour] = current
      /\ \A e \in path.seen : path'.edge[e] = path.edge[e] /\ path'.parent[e] = path.parent[e]
    BY <1>1, <1>3, <1>5, <1>7
<1>10. ReachedInv'
  <2>1. Range(path'.frontier) \subseteq path'.seen
    <3>1. \A i \in 1..Len(path'.frontier) : path'.frontier[i] \in Range(path.frontier) \cup {neighbour}
        BY <1>3, <1>5, <1>7, AppendProperties, RangeOfSequence
    <3>2. Range(path.frontier) \subseteq path.seen
        BY <1>2 DEF ReachedInv
    <3>3. path'.frontier \in Seq(Entities)
        BY <1>8 DEF TypeOK, JoinCall
    <3>4. Range(path'.frontier) = {path'.frontier[i] : i \in 1..Len(path'.frontier)}
        BY <3>3, RangeOfSequence, Zenon
    <3>q. QED BY <1>7, <3>1, <3>2, <3>4
  <2>2. ASSUME NEW e \in path'.seen \ {path'.root}
        PROVE  /\ path'.edge[e] \in path'.edges
               /\ path'.parent[e] = Across(path'.edge[e], e)
               /\ path'.parent[e] \in path'.seen
    <3>1. CASE e = neighbour
        BY <3>1, <1>4, <1>6, <1>7, <1>9
    <3>2. CASE e # neighbour
      <4>1. e \in path.seen \ {path.root}
        BY <2>2, <3>2, <1>7
      <4>q. QED BY <4>1, <1>2, <1>7, <1>9 DEF ReachedInv
    <3>q. QED BY <3>1, <3>2
  <2>q. QED BY <1>2, <1>7, <2>1, <2>2 DEF ReachedInv
<1>11. RankInv'
  <2>1. PICK rank \in [Entities -> Nat] :
            \A e \in path.seen \ {path.root} : rank[path.parent[e]] < rank[e]
    BY <1>2 DEF RankInv
  <2> DEFINE ranks == [rank EXCEPT ![neighbour] = rank[current] + 1]
  <2>2. ranks \in [Entities -> Nat]
    <3>1. rank[current] + 1 \in Nat
        BY <1>4
    <3>q. QED BY <3>1
  <2>3. ranks[neighbour] = rank[current] + 1 /\ \A e \in path.seen : ranks[e] = rank[e]
    <3>1. \A e \in path.seen : e \in Entities /\ e # neighbour
        BY <1>1, <1>3
    <3>q. QED BY <1>5, <3>1
  <2>4. ASSUME NEW e \in path'.seen \ {path'.root}
        PROVE  ranks[path'.parent[e]] < ranks[e]
    <3>1. CASE e = neighbour
        BY <3>1, <1>4, <1>9, <2>3, <2>1
    <3>2. CASE e # neighbour
      <4>1. e \in path.seen \ {path.root} /\ path'.parent[e] = path.parent[e] /\ path.parent[e] \in path.seen
        BY <3>2, <2>4, <1>2, <1>7, <1>9 DEF ReachedInv
      <4>2. rank[path.parent[e]] < rank[e]
        BY <4>1, <2>1
      <4>3. ranks[path.parent[e]] = rank[path.parent[e]] /\ ranks[e] = rank[e]
        BY <4>1, <2>3
      <4>q. QED BY <4>1, <4>2, <4>3
    <3>q. QED BY <3>1, <3>2
  <2> HIDE DEF ranks
  <2>q. QED BY <2>2, <2>4 DEF RankInv
<1>q. QED BY <1>1, <1>7, <1>8, <1>10, <1>11 DEF IInv, Joining

LEMMA AdvanceKeeps == ASSUME IInv, Advance PROVE IInv'
<1>1. /\ path.pc = "search" /\ path.frontier # <<>>
      /\ path' = [path EXCEPT !.frontier = Tail(@)]
    BY DEF Advance
<1>2. TypeOK /\ ReachedInv /\ RankInv
    BY DEF IInv
<1>3. /\ path.frontier \in Seq(Entities) /\ path.seen \in SUBSET Entities
      /\ Len(path.frontier) \in Nat
    BY <1>2, LenProperties DEF TypeOK, JoinCall
<1>4. /\ path'.frontier = Tail(path.frontier) /\ path'.pc = "search"
      /\ path'.seen = path.seen /\ path'.root = path.root /\ path'.edges = path.edges
      /\ path'.edge = path.edge /\ path'.parent = path.parent
      /\ path'.ordered = path.ordered /\ path'.remaining = path.remaining /\ path'.needed = path.needed
    BY <1>1, <1>2 DEF TypeOK, JoinCall
<1>5. /\ Tail(path.frontier) \in Seq(Entities)
      /\ \A i \in 1..Len(Tail(path.frontier)) :
            i + 1 \in 1..Len(path.frontier) /\ Tail(path.frontier)[i] = path.frontier[i + 1]
    BY <1>1, <1>3
<1>6. TypeOK'
    BY <1>1, <1>2, <1>5 DEF TypeOK, JoinCall
<1>7. ReachedInv'
  <2>1. \A i \in 1..Len(path.frontier) : path.frontier[i] \in path.seen
    <3>1. Range(path.frontier) = {path.frontier[i] : i \in 1..Len(path.frontier)}
        BY <1>3, RangeOfSequence, Zenon
    <3>q. QED BY <1>2, <3>1 DEF ReachedInv
  <2>2. Range(Tail(path.frontier)) = {Tail(path.frontier)[i] : i \in 1..Len(Tail(path.frontier))}
    BY <1>5, RangeOfSequence, Zenon
  <2>3. Range(path'.frontier) \subseteq path'.seen
    BY <1>4, <1>5, <2>1, <2>2
  <2>q. QED BY <1>2, <1>4, <2>3 DEF ReachedInv
<1>8. RankInv'
    BY <1>2, <1>4 DEF RankInv
<1>q. QED BY <1>1, <1>4, <1>6, <1>7, <1>8 DEF IInv, Joining

\* Nothing is joined when the search ends; every needed entity was seen, or the
\* call is over.
LEMMA SearchEndsKeeps == ASSUME IInv, SearchEnds PROVE IInv'
<1>1. /\ path' = [path EXCEPT !.pc = IF path.needed \subseteq path.seen
                                     THEN "collect" ELSE "unreachable"]
    BY DEF SearchEnds
<1>2. TypeOK /\ ReachedInv /\ RankInv
    BY DEF IInv
<1>3. /\ path'.pc \in {"collect", "unreachable"}
      /\ path'.pc = "collect" => path.needed \subseteq path.seen
      /\ path'.seen = path.seen /\ path'.root = path.root /\ path'.edges = path.edges
      /\ path'.edge = path.edge /\ path'.parent = path.parent /\ path'.frontier = path.frontier
      /\ path'.needed = path.needed /\ path'.remaining = path.remaining /\ path'.ordered = path.ordered
      /\ path.ordered = <<>> /\ path.remaining = path.needed
    BY <1>1, <1>2 DEF TypeOK, JoinCall, IInv, SearchEnds
<1>4. TypeOK'
    BY <1>1, <1>2 DEF TypeOK, JoinCall, Outcomes
<1>5. ReachedInv' /\ RankInv'
    BY <1>2, <1>3 DEF ReachedInv, RankInv
<1>6. Joining' => OrderInv' /\ NeededInv'
    BY <1>3 DEF Joining, OrderInv, NeededInv
<1>q. QED BY <1>3, <1>4, <1>5, <1>6 DEF IInv

-----------------------------------------------------------------------------
(***************************************************************************)
(* The walks back.                                                         *)
(***************************************************************************)

LEMMA PickKeeps == ASSUME IInv, NEW e \in path.remaining, Pick(e) PROVE IInv'
<1>1. /\ path.pc = "collect"
      /\ path' = [path EXCEPT !.pc = "walk", !.remaining = @ \ {e}, !.cursor = e, !.chain = <<>>]
    BY DEF Pick
<1>2. TypeOK /\ ReachedInv /\ RankInv /\ OrderInv /\ NeededInv
    BY <1>1 DEF IInv, Joining
<1>3. e \in path.needed /\ e \in path.seen /\ e \in Entities
    BY <1>2 DEF NeededInv, TypeOK, JoinCall
<1>4. /\ path'.pc = "walk" /\ path'.remaining = path.remaining \ {e}
      /\ path'.cursor = e /\ path'.chain = <<>>
      /\ path'.seen = path.seen /\ path'.root = path.root /\ path'.edges = path.edges
      /\ path'.edge = path.edge /\ path'.parent = path.parent /\ path'.frontier = path.frontier
      /\ path'.needed = path.needed /\ path'.ordered = path.ordered
    BY <1>1, <1>2 DEF TypeOK, JoinCall
<1>5. TypeOK'
  <2>1. <<>> \in Seq(Entities) /\ path.remaining \ {e} \in SUBSET Entities
    BY <1>2 DEF TypeOK, JoinCall
  <2>q. QED BY <1>1, <1>2, <1>3, <2>1 DEF TypeOK, JoinCall
<1>6. ReachedInv' /\ RankInv' /\ OrderInv'
    BY <1>2, <1>4 DEF ReachedInv, RankInv, OrderInv
<1>7. NeededInv'
    BY <1>1, <1>2, <1>4 DEF NeededInv, Included
<1>8. ChainInv'
  <2>1. PICK rank \in [Entities -> Nat] :
            \A f \in path.seen \ {path.root} : rank[path.parent[f]] < rank[f]
    BY <1>2 DEF RankInv
  <2>2. Len(path'.chain) = 0
    BY <1>4
  <2>q. QED BY <1>3, <1>4, <2>1, <2>2 DEF ChainInv
<1>q. QED BY <1>4, <1>5, <1>6, <1>7, <1>8 DEF IInv

LEMMA WalkBackKeeps == ASSUME IInv, WalkBack PROVE IInv'
<1> DEFINE cursor == path.cursor
           longer == <<cursor>> \o path.chain
<1>1. /\ path.pc = "walk" /\ cursor \notin Included
      /\ path' = [path EXCEPT !.chain = longer, !.cursor = path.parent[cursor]]
    BY DEF WalkBack
<1>2. TypeOK /\ ReachedInv /\ RankInv /\ OrderInv /\ NeededInv /\ ChainInv
    BY <1>1 DEF IInv, Joining
<1>3. /\ path.chain \in Seq(Entities) /\ path.ordered \in Seq(Entities) /\ Len(path.chain) \in Nat
      /\ path.seen \in SUBSET Entities /\ path.parent \in [Entities -> Entities]
    BY <1>2, LenProperties DEF TypeOK, JoinCall
<1>4. /\ cursor \in path.seen /\ cursor # path.root /\ cursor \in Entities
      /\ path.parent[cursor] \in path.seen /\ path.parent[cursor] \in Entities
  <2>1. cursor \in path.seen /\ cursor # path.root
    BY <1>1, <1>2 DEF ChainInv, Included
  <2>q. QED BY <1>2, <1>3, <2>1 DEF ReachedInv
<1>5. /\ longer \in Seq(Entities) /\ Len(longer) = 1 + Len(path.chain) /\ longer # <<>>
      /\ longer[1] = cursor
      /\ \A i \in 1..Len(path.chain) : longer[i + 1] = path.chain[i]
  <2>1. <<cursor>> \in Seq(Entities) /\ Len(<<cursor>>) = 1 /\ <<cursor>>[1] = cursor
    BY <1>4
  <2>q. QED BY <1>3, <2>1, ConcatProperties
<1> HIDE DEF longer, cursor
<1>6. /\ path'.pc = "walk" /\ path'.chain = longer /\ path'.cursor = path.parent[cursor]
      /\ path'.seen = path.seen /\ path'.root = path.root /\ path'.edges = path.edges
      /\ path'.edge = path.edge /\ path'.parent = path.parent /\ path'.frontier = path.frontier
      /\ path'.needed = path.needed /\ path'.ordered = path.ordered /\ path'.remaining = path.remaining
    BY <1>1, <1>2 DEF TypeOK, JoinCall
<1>7. TypeOK'
    BY <1>1, <1>2, <1>4, <1>5 DEF TypeOK, JoinCall
<1>8. ReachedInv' /\ RankInv' /\ OrderInv'
    BY <1>2, <1>6 DEF ReachedInv, RankInv, OrderInv
<1>9. \A i \in 2..Len(longer) : i - 1 \in 1..Len(path.chain) /\ longer[i] = path.chain[i - 1]
  <2>1. ASSUME NEW i \in 2..Len(longer)
        PROVE  i - 1 \in 1..Len(path.chain) /\ longer[i] = path.chain[i - 1]
    <3>1. i - 1 \in 1..Len(path.chain) /\ (i - 1) + 1 = i
        BY <1>3, <1>5
    <3>q. QED BY <1>5, <3>1
  <2>q. QED BY <2>1
<1>10. NeededInv'
  <2>1. Range(path.chain) = {path.chain[i] : i \in 1..Len(path.chain)}
    BY <1>3, RangeOfSequence, Zenon
  <2>2. Range(longer) = {longer[i] : i \in 1..Len(longer)}
    BY <1>5, RangeOfSequence, Zenon
  <2>3. Range(path.chain) \cup {cursor} \subseteq Range(longer)
    <3>1. \A i \in 1..Len(path.chain) : i + 1 \in 1..Len(longer) /\ longer[i + 1] = path.chain[i]
        BY <1>3, <1>5
    <3>2. 1 \in 1..Len(longer) /\ longer[1] = cursor
        BY <1>3, <1>5
    <3>q. QED BY <2>1, <2>2, <3>1, <3>2
  <2>4. path.needed \subseteq Included \cup path.remaining \cup Range(path.chain) \cup {cursor}
    BY <1>1, <1>2 DEF NeededInv, cursor
  <2>q. QED BY <1>2, <1>6, <2>3, <2>4 DEF NeededInv, Included
<1>11. ChainInv'
  <2>1. \A i \in 1..Len(path.chain) : path.chain[i] \in path.seen \ Included
    BY <1>2 DEF ChainInv
  <2>2. PICK rank \in [Entities -> Nat] :
            /\ \A e \in path.seen \ {path.root} : rank[path.parent[e]] < rank[e]
            /\ \A i \in 1..Len(path.chain) : rank[cursor] < rank[path.chain[i]]
    BY <1>2 DEF ChainInv, cursor
  <2>3. \A i \in 1..Len(path.chain) : path.chain[i] # cursor
    BY <1>4, <2>2
  <2>4. \A i \in 1..Len(longer) : longer[i] \in path.seen \ Included
    <3>1. \A i \in 1..Len(longer) : i = 1 \/ i \in 2..Len(longer)
        BY <1>3, <1>5
    <3>2. longer[1] \in path.seen \ Included
        BY <1>1, <1>4, <1>5 DEF cursor
    <3>3. \A i \in 2..Len(longer) : longer[i] \in path.seen \ Included
        BY <1>9, <2>1
    <3>q. QED BY <3>1, <3>2, <3>3
  <2>5. \A i \in 1..(Len(longer) - 1) : path.parent[longer[i + 1]] = longer[i]
    <3>1. ASSUME NEW i \in 1..(Len(longer) - 1)
          PROVE  path.parent[longer[i + 1]] = longer[i]
      <4>1. i \in 1..Len(path.chain) /\ longer[i + 1] = path.chain[i]
        BY <1>3, <1>5
      <4>2. CASE i = 1
        <5>1. path.chain # <<>>
            BY <4>1
        <5>2. path.parent[path.chain[1]] = cursor
            BY <1>2, <5>1 DEF ChainInv, cursor
        <5>q. QED BY <1>5, <4>1, <4>2, <5>2
      <4>3. CASE i # 1
        <5>1. i \in 2..Len(longer) /\ i - 1 \in 1..(Len(path.chain) - 1) /\ (i - 1) + 1 = i
            BY <1>3, <1>5, <4>1, <4>3
        <5>2. \A k \in 1..(Len(path.chain) - 1) : path.parent[path.chain[k + 1]] = path.chain[k]
            BY <1>2 DEF ChainInv
        <5>3. path.parent[path.chain[i]] = path.chain[i - 1]
            BY <5>1, <5>2
        <5>q. QED BY <1>9, <4>1, <5>1, <5>3
      <4>q. QED BY <4>2, <4>3
    <3>q. QED BY <3>1
  <2>6. longer[Len(longer)] \in path.needed
    <3>1. CASE path.chain = <<>>
        BY <1>2, <1>5, <3>1 DEF ChainInv, cursor
    <3>2. CASE path.chain # <<>>
      <4>1. Len(path.chain) \in 1..Len(path.chain) /\ Len(longer) = Len(path.chain) + 1
        BY <1>3, <1>5, <3>2, EmptySeq
      <4>2. path.chain[Len(path.chain)] \in path.needed
        BY <1>2, <3>2 DEF ChainInv
      <4>q. QED BY <1>5, <4>1, <4>2
    <3>q. QED BY <3>1, <3>2
  <2>7. \A i, j \in 1..Len(longer) : longer[i] = longer[j] => i = j
    <3>1. ASSUME NEW i \in 1..Len(longer), NEW j \in 1..Len(longer), longer[i] = longer[j]
          PROVE  i = j
      <4>1. i = 1 \/ i \in 2..Len(longer)
        BY <1>3, <1>5
      <4>2. j = 1 \/ j \in 2..Len(longer)
        BY <1>3, <1>5
      <4>3. CASE i = 1 \/ j = 1
        BY <1>5, <1>9, <2>3, <3>1, <4>1, <4>2, <4>3
      <4>4. CASE i # 1 /\ j # 1
        <5>1. /\ i - 1 \in 1..Len(path.chain) /\ j - 1 \in 1..Len(path.chain)
              /\ path.chain[i - 1] = path.chain[j - 1]
            BY <1>9, <3>1, <4>1, <4>2, <4>4
        <5>2. i - 1 = j - 1
            BY <1>2, <5>1 DEF ChainInv
        <5>q. QED BY <5>2
      <4>q. QED BY <4>3, <4>4
    <3>q. QED BY <3>1
  <2>8. \A i \in 1..Len(longer) : rank[path.parent[cursor]] < rank[longer[i]]
    <3>1. rank[path.parent[cursor]] < rank[cursor]
        BY <1>4, <2>2
    <3>2. ASSUME NEW i \in 1..Len(longer)
          PROVE  rank[path.parent[cursor]] < rank[longer[i]]
      <4>1. CASE i = 1
        BY <1>5, <3>1, <4>1
      <4>2. CASE i # 1
        <5>1. i - 1 \in 1..Len(path.chain) /\ longer[i] = path.chain[i - 1]
            BY <1>3, <1>5, <1>9, <4>2
        <5>2. rank[cursor] < rank[longer[i]]
            BY <2>2, <5>1
        <5>3. longer[i] \in Entities
            BY <1>3, <2>1, <5>1
        <5>4. rank[path.parent[cursor]] \in Nat /\ rank[cursor] \in Nat /\ rank[longer[i]] \in Nat
            BY <1>4, <5>3
        <5>q. QED BY <3>1, <5>2, <5>4
      <4>q. QED BY <4>1, <4>2
    <3>q. QED BY <3>2
  <2>9. path.parent[longer[1]] = path.parent[cursor]
    BY <1>5
  <2>10. Included' = Included
    BY <1>6 DEF Included
  <2>11. \E ranks \in [Entities -> Nat] :
            /\ \A e \in path'.seen \ {path'.root} : ranks[path'.parent[e]] < ranks[e]
            /\ \A i \in 1..Len(path'.chain) : ranks[path'.cursor] < ranks[path'.chain[i]]
    BY <1>6, <2>2, <2>8
  <2>12. /\ path'.cursor \in path'.seen
         /\ path'.parent[path'.chain[1]] = path'.cursor
         /\ path'.chain[Len(path'.chain)] \in path'.needed
         /\ path'.chain # <<>>
    BY <1>4, <1>5, <1>6, <2>6, <2>9
  <2>13. /\ \A i \in 1..Len(path'.chain) : path'.chain[i] \in path'.seen \ Included'
         /\ \A i \in 1..(Len(path'.chain) - 1) : path'.parent[path'.chain[i + 1]] = path'.chain[i]
         /\ \A i, j \in 1..Len(path'.chain) : path'.chain[i] = path'.chain[j] => i = j
    <3>1. \A i \in 1..Len(path'.chain) : path'.chain[i] \in path'.seen \ Included'
        BY <1>6, <2>4, <2>10
    <3>2. \A i \in 1..(Len(path'.chain) - 1) : path'.parent[path'.chain[i + 1]] = path'.chain[i]
        BY <1>6, <2>5
    <3>3. \A i, j \in 1..Len(path'.chain) : path'.chain[i] = path'.chain[j] => i = j
        BY <1>6, <2>7
    <3>q. QED BY <3>1, <3>2, <3>3
  <2>q. QED BY <2>11, <2>12, <2>13 DEF ChainInv
<1>q. QED BY <1>6, <1>7, <1>8, <1>10, <1>11 DEF IInv

LEMMA ChainEndsKeeps == ASSUME IInv, ChainEnds PROVE IInv'
<1> DEFINE lengthened == path.ordered \o path.chain
           n == Len(path.ordered)
           m == Len(path.chain)
<1>1. /\ path.pc = "walk" /\ path.cursor \in Included
      /\ path' = [path EXCEPT !.pc = "collect", !.ordered = lengthened]
    BY DEF ChainEnds
<1>2. TypeOK /\ ReachedInv /\ RankInv /\ OrderInv /\ NeededInv /\ ChainInv
    BY <1>1 DEF IInv, Joining
<1>3. /\ path.chain \in Seq(Entities) /\ path.ordered \in Seq(Entities) /\ n \in Nat /\ m \in Nat
    BY <1>2, LenProperties DEF TypeOK, JoinCall
<1>4. /\ lengthened \in Seq(Entities) /\ Len(lengthened) = n + m
      /\ \A i \in 1..(n + m) : lengthened[i] = IF i <= n THEN path.ordered[i] ELSE path.chain[i - n]
    BY <1>3, ConcatProperties
<1> HIDE DEF lengthened
<1>5. /\ Range(path.ordered) = {path.ordered[i] : i \in 1..n}
      /\ Range(path.chain) = {path.chain[i] : i \in 1..m}
      /\ Range(lengthened) = {lengthened[i] : i \in 1..Len(lengthened)}
  <2>1. Range(path.ordered) = {path.ordered[i] : i \in 1..n}
    BY <1>3, RangeOfSequence, Zenon
  <2>2. Range(path.chain) = {path.chain[i] : i \in 1..m}
    BY <1>3, RangeOfSequence, Zenon
  <2>3. Range(lengthened) = {lengthened[i] : i \in 1..Len(lengthened)}
    BY <1>4, RangeOfSequence, Zenon
  <2>q. QED BY <2>1, <2>2, <2>3
<1> HIDE DEF n, m
<1>6. /\ path'.pc = "collect" /\ path'.chain = path.chain /\ path'.cursor = path.cursor
      /\ path'.seen = path.seen /\ path'.root = path.root /\ path'.edges = path.edges
      /\ path'.edge = path.edge /\ path'.parent = path.parent /\ path'.frontier = path.frontier
      /\ path'.needed = path.needed /\ path'.ordered = lengthened /\ path'.remaining = path.remaining
    BY <1>1, <1>2 DEF TypeOK, JoinCall
<1>7. TypeOK'
    BY <1>1, <1>2, <1>4 DEF TypeOK, JoinCall
<1>8. ReachedInv' /\ RankInv'
    BY <1>2, <1>6 DEF ReachedInv, RankInv
<1>9. /\ \A i \in 1..n : lengthened[i] = path.ordered[i] /\ i \in 1..(n + m)
      /\ \A k \in 1..m : lengthened[n + k] = path.chain[k] /\ n + k \in 1..(n + m)
      /\ \A i \in 1..(n + m) : i \in 1..n \/ (i - n \in 1..m /\ n + (i - n) = i)
  <2>1. \A i \in 1..n : lengthened[i] = path.ordered[i] /\ i \in 1..(n + m)
    BY <1>3, <1>4
  <2>2. ASSUME NEW k \in 1..m
        PROVE  lengthened[n + k] = path.chain[k] /\ n + k \in 1..(n + m)
    <3>1. n + k \in 1..(n + m) /\ ~(n + k <= n) /\ (n + k) - n = k
        BY <1>3
    <3>q. QED BY <1>4, <3>1
  <2>3. \A i \in 1..(n + m) : i \in 1..n \/ (i - n \in 1..m /\ n + (i - n) = i)
    BY <1>3
  <2>q. QED BY <2>1, <2>2, <2>3
<1>10. Range(lengthened) = Range(path.ordered) \cup Range(path.chain)
    BY <1>4, <1>5, <1>9
<1>11. \A k \in 1..m : path.chain[k] \in path.seen \ Included
    BY <1>2 DEF ChainInv, m
<1>12. NeededInv'
    BY <1>1, <1>2, <1>6, <1>10 DEF NeededInv, Included
<1>13. OrderInv'
  <2>1. /\ \A i \in 1..n : path.ordered[i] \in path.seen \ {path.root}
        /\ \A i, j \in 1..n : path.ordered[i] = path.ordered[j] => i = j
        /\ \A i \in 1..n : \/ path.parent[path.ordered[i]] = path.root
                           \/ \E j \in 1..(i - 1) : path.ordered[j] = path.parent[path.ordered[i]]
        /\ \A i \in 1..n : \/ path.ordered[i] \in path.needed
                           \/ \E j \in 1..n : path.parent[path.ordered[j]] = path.ordered[i]
    BY <1>2 DEF OrderInv, n
  <2>2. /\ \A i \in 1..(m - 1) : path.parent[path.chain[i + 1]] = path.chain[i]
        /\ path.chain # <<>> => path.parent[path.chain[1]] = path.cursor /\ path.chain[m] \in path.needed
        /\ \A i, j \in 1..m : path.chain[i] = path.chain[j] => i = j
    BY <1>2 DEF ChainInv, m
  <2>3. ASSUME NEW i \in 1..(n + m)
        PROVE  lengthened[i] \in path.seen \ {path.root}
    BY <1>9, <1>11, <2>1 DEF Included
  <2>4. ASSUME NEW i \in 1..(n + m), NEW j \in 1..(n + m), lengthened[i] = lengthened[j]
        PROVE  i = j
    <3>1. \A k \in 1..n, l \in 1..m : path.ordered[k] # path.chain[l]
        BY <1>5, <1>11 DEF Included
    <3>2. CASE i \in 1..n /\ j \in 1..n
        BY <1>9, <2>1, <2>4, <3>2
    <3>3. CASE i \in 1..n /\ j - n \in 1..m /\ n + (j - n) = j
        BY <1>9, <2>4, <3>1, <3>3
    <3>4. CASE j \in 1..n /\ i - n \in 1..m /\ n + (i - n) = i
        BY <1>9, <2>4, <3>1, <3>4
    <3>5. CASE i - n \in 1..m /\ n + (i - n) = i /\ j - n \in 1..m /\ n + (j - n) = j
      <4>1. path.chain[i - n] = path.chain[j - n]
        BY <1>9, <2>4, <3>5
      <4>2. i - n = j - n
        BY <2>2, <3>5, <4>1
      <4>q. QED BY <3>5, <4>2
    <3>q. QED BY <1>9, <3>2, <3>3, <3>4, <3>5
  <2>5. ASSUME NEW i \in 1..(n + m)
        PROVE  \/ path.parent[lengthened[i]] = path.root
               \/ \E j \in 1..(i - 1) : lengthened[j] = path.parent[lengthened[i]]
    <3>1. CASE i \in 1..n
      <4>1. \A j \in 1..(i - 1) : j \in 1..n
        BY <1>3, <3>1
      <4>q. QED BY <1>9, <2>1, <3>1, <4>1
    <3>2. CASE i - n = 1
      <4>1. /\ path.chain # <<>> /\ lengthened[i] = path.chain[1] /\ n + 1 = i
        <5>1. 1 \in 1..m /\ n + 1 = i /\ m # 0
            BY <1>3, <3>2
        <5>2. path.chain # <<>>
            BY <5>1 DEF m
        <5>q. QED BY <1>9, <5>1, <5>2
      <4>2. path.parent[lengthened[i]] \in {path.root} \cup {path.ordered[j] : j \in 1..n}
        BY <1>1, <1>5, <2>2, <4>1 DEF Included
      <4>3. \A j \in 1..n : j \in 1..(i - 1) /\ lengthened[j] = path.ordered[j]
        BY <1>3, <1>9, <4>1
      <4>q. QED BY <4>2, <4>3
    <3>3. CASE i \notin 1..n /\ i - n # 1
      <4> DEFINE k == i - n - 1
      <4>1. /\ k \in 1..(m - 1) /\ k \in 1..m /\ k + 1 \in 1..m
            /\ n + (k + 1) = i /\ n + k \in 1..(i - 1)
        BY <1>3, <3>3
      <4> HIDE DEF k
      <4>2. path.parent[path.chain[k + 1]] = path.chain[k]
        BY <2>2, <4>1
      <4>3. lengthened[n + k] = path.chain[k] /\ lengthened[i] = path.chain[k + 1]
        BY <1>9, <4>1
      <4>q. QED BY <4>1, <4>2, <4>3
    <3>q. QED BY <3>1, <3>2, <3>3
  <2>6. ASSUME NEW i \in 1..(n + m)
        PROVE  \/ lengthened[i] \in path.needed
               \/ \E j \in 1..(n + m) : path.parent[lengthened[j]] = lengthened[i]
    <3>1. CASE i \in 1..n
        BY <1>9, <2>1, <3>1
    <3>2. CASE i = n + m /\ i \notin 1..n
      <4>1. m \in 1..m /\ m # 0
        BY <1>3, <3>2
      <4>2. path.chain # <<>>
        BY <4>1 DEF m
      <4>q. QED BY <1>9, <2>2, <3>2, <4>1, <4>2
    <3>3. CASE i # n + m /\ i \notin 1..n
      <4> DEFINE k == i - n
      <4>1. k \in 1..(m - 1) /\ k \in 1..m /\ k + 1 \in 1..m /\ n + k = i
        BY <1>3, <3>3
      <4> HIDE DEF k
      <4>2. path.parent[path.chain[k + 1]] = path.chain[k]
        BY <2>2, <4>1
      <4>3. /\ lengthened[i] = path.chain[k]
            /\ lengthened[n + (k + 1)] = path.chain[k + 1] /\ n + (k + 1) \in 1..(n + m)
        BY <1>9, <4>1
      <4>q. QED BY <4>2, <4>3
    <3>q. QED BY <3>1, <3>2, <3>3
  <2>q. QED BY <1>4, <1>6, <2>3, <2>4, <2>5, <2>6 DEF OrderInv
<1>q. QED BY <1>6, <1>7, <1>8, <1>12, <1>13 DEF IInv

LEMMA PlannedKeeps == ASSUME IInv, Planned PROVE IInv'
<1>1. path.pc = "collect" /\ path.remaining = {} /\ path' = [path EXCEPT !.pc = "planned"]
    BY DEF Planned
<1>2. TypeOK /\ ReachedInv /\ RankInv /\ OrderInv /\ NeededInv
    BY <1>1 DEF IInv, Joining
<1>3. /\ path'.pc = "planned" /\ path'.remaining = path.remaining
      /\ path'.seen = path.seen /\ path'.root = path.root /\ path'.edges = path.edges
      /\ path'.edge = path.edge /\ path'.parent = path.parent /\ path'.frontier = path.frontier
      /\ path'.needed = path.needed /\ path'.ordered = path.ordered
    BY <1>1, <1>2 DEF TypeOK, JoinCall
<1>4. TypeOK'
    BY <1>1, <1>2 DEF TypeOK, JoinCall, Outcomes
<1>5. ReachedInv' /\ RankInv' /\ OrderInv'
    BY <1>2, <1>3 DEF ReachedInv, RankInv, OrderInv
<1>6. path.needed \subseteq Included
    BY <1>1, <1>2 DEF NeededInv
<1>7. NeededInv' /\ path'.needed \subseteq Included'
    BY <1>2, <1>3, <1>6 DEF NeededInv, Included
<1>q. QED BY <1>3, <1>4, <1>5, <1>7 DEF IInv

LEMMA StutterKeeps == ASSUME IInv, UNCHANGED path PROVE IInv'
<1>1. path' = path
    OBVIOUS
<1>2. (TypeOK' <=> TypeOK) /\ (Included' = Included) /\ (Joining' <=> Joining)
    BY <1>1 DEF TypeOK, Included, Joining
<1>3. (ReachedInv' <=> ReachedInv) /\ (RankInv' <=> RankInv)
    BY <1>1, Zenon DEF ReachedInv, RankInv
<1>4. OrderInv' <=> OrderInv
    BY <1>1 DEF OrderInv
<1>5. NeededInv' <=> NeededInv
    BY <1>1, <1>2, Zenon DEF NeededInv
<1>6. ChainInv' <=> ChainInv
    BY <1>1, <1>2, Zenon DEF ChainInv
<1>q. QED BY <1>1, <1>2, <1>3, <1>4, <1>5, <1>6, Zenon DEF IInv

LEMMA StepKeeps == ASSUME IInv, [JoinStep]_path PROVE IInv'
<1>1. CASE \E rel \in path.edges : Discover(rel)
  BY <1>1, DiscoverKeeps
<1>2. CASE Advance
  BY <1>2, AdvanceKeeps
<1>3. CASE SearchEnds
  BY <1>3, SearchEndsKeeps
<1>4. CASE \E e \in path.remaining : Pick(e)
  BY <1>4, PickKeeps
<1>5. CASE WalkBack
  BY <1>5, WalkBackKeeps
<1>6. CASE ChainEnds
  BY <1>6, ChainEndsKeeps
<1>7. CASE Planned
  BY <1>7, PlannedKeeps
<1>8. CASE UNCHANGED path
  BY <1>8, StutterKeeps
<1>q. QED BY <1>1, <1>2, <1>3, <1>4, <1>5, <1>6, <1>7, <1>8 DEF JoinStep

LEMMA Invariant == JoinSpec => []IInv
<1>1. JoinInit => IInv
    BY InitInv
<1>2. IInv /\ [JoinStep]_path => IInv'
    BY StepKeeps
<1>q. QED BY <1>1, <1>2, PTL DEF JoinSpec

-----------------------------------------------------------------------------
(***************************************************************************)
(* What the callers rely on.                                               *)
(***************************************************************************)

\* The locals of resolve_join_path() keep their types, on any graph.
THEOREM TypeCorrect == JoinSpec => []TypeOK
<1>1. IInv => TypeOK
    BY DEF IInv
<1>q. QED BY <1>1, Invariant, PTL

LEMMA PlansAreTrees == IInv => PlanIsATree
<1> SUFFICES ASSUME IInv, path.pc = "planned" PROVE PlanIsATree
    BY DEF PlanIsATree
<1>1. TypeOK /\ ReachedInv /\ OrderInv /\ path.needed \subseteq Included
    BY DEF IInv, Joining
<1>2. Range(path.ordered) = {path.ordered[i] : i \in 1..Len(path.ordered)}
  <2>1. path.ordered \in Seq(Entities)
    BY <1>1 DEF TypeOK, JoinCall
  <2>2. \A s \in Seq(Entities) : Range(s) = {s[i] : i \in 1..Len(s)}
    BY RangeOfSequence, Zenon
  <2>q. QED BY <2>1, <2>2, Zenon
<1>3. path.root \notin Range(path.ordered)
    BY <1>1, <1>2 DEF OrderInv
<1>4. \A i \in 1..Len(path.ordered) :
         /\ path.edge[path.ordered[i]] \in path.edges
         /\ path.parent[path.ordered[i]] = Across(path.edge[path.ordered[i]], path.ordered[i])
    BY <1>1 DEF OrderInv, ReachedInv
<1>5. \A e \in Range(path.ordered) :
         e \in path.needed \/ \E f \in Range(path.ordered) : path.parent[f] = e
    BY <1>1, <1>2 DEF OrderInv
<1>q. QED BY <1>1, <1>3, <1>4, <1>5 DEF PlanIsATree, OrderInv

\* Whatever the graph, its size, and the order of rows and of set iteration, a join
\* plan is a tree in dependency order with every needed entity and no spare one.
THEOREM PlansCanBeEmitted == JoinSpec => []PlanIsATree
BY Invariant, PlansAreTrees, PTL

-----------------------------------------------------------------------------
(***************************************************************************)
(* Breadth first.  Entities are seen level by level.                       *)
(***************************************************************************)

\* Levels count the relationships to the root along the parents; the frontier is
\* in their order, and what left it has its neighbours seen, one level up at most.
Levels(level) ==
    /\ level[path.root] = 0
    /\ \A e \in path.seen \ {path.root} : level[e] = level[path.parent[e]] + 1
    /\ \A i, j \in 1..Len(path.frontier) :
          i <= j => level[path.frontier[i]] <= level[path.frontier[j]]
    /\ path.frontier # <<>> => \A e \in path.seen : level[e] <= level[path.frontier[1]] + 1
    /\ \A e \in path.seen :
          \/ e \in Range(path.frontier)
          \/ \A v \in Adjacent(e) : v \in path.seen /\ level[v] <= level[e] + 1

\* An entity that was not reached has no step; the search is over when joins are
\* collected, but for a query about the root alone.
SearchInv ==
    /\ \A e \in path.seen \ {path.root} : Incident(path.edge[e], e)
    /\ \A e \in Entities \ path.seen : path.parent[e] = e
    /\ path.pc \in {"collect", "walk", "unreachable"} => path.frontier = <<>>
    /\ path.pc = "planned" =>
          path.frontier = <<>> \/ (path.needed = {path.root} /\ path.ordered = <<>>)
    /\ path.pc = "unreachable" => ~(path.needed \subseteq path.seen)

BreadthInv ==
    /\ IInv
    /\ SearchInv
    /\ \E level \in [Entities -> Nat] : Levels(level)

LEMMA BreadthInit == JoinInit => BreadthInv
<1> SUFFICES ASSUME NEW rows \in SUBSET Entities, NEW edges \in SUBSET Relationship,
                    NEW root \in Entities, NEW required \in SUBSET Entities,
                    path = Call(rows, edges, root, required), IInv
             PROVE  BreadthInv
    BY InitInv DEF JoinInit
<1>1. /\ path.pc \in {"missing", "planned", "search"}
      /\ path.pc = "planned" => path.needed = {root}
      /\ path.root = root /\ path.seen = {root} /\ path.frontier = <<root>>
      /\ path.parent = [e \in Entities |-> e] /\ path.ordered = <<>>
    BY DEF Call
<1>2. SearchInv
    BY <1>1 DEF SearchInv
<1> DEFINE level == [e \in Entities |-> 0]
<1>3. level \in [Entities -> Nat] /\ \A e \in Entities : level[e] = 0
    OBVIOUS
<1> HIDE DEF level
<1>4. Levels(level)
  <2>1. /\ Len(path.frontier) = 1 /\ path.frontier[1] = root /\ root \in Range(path.frontier)
        /\ \A i \in 1..Len(path.frontier) : path.frontier[i] = root
    BY <1>1 DEF Range
  <2>q. QED BY <1>1, <1>3, <2>1 DEF Levels
<1>q. QED BY <1>2, <1>3, <1>4 DEF BreadthInv

LEMMA BreadthDiscover == ASSUME BreadthInv, NEW rel \in path.edges, Discover(rel) PROVE BreadthInv'
<1> DEFINE current   == Head(path.frontier)
           neighbour == Across(rel, current)
<1>1. /\ path.pc = "search" /\ path.frontier # <<>>
      /\ Incident(rel, current) /\ neighbour \notin path.seen
      /\ path' = [path EXCEPT !.seen = @ \cup {neighbour},
                              !.frontier = Append(@, neighbour),
                              !.edge[neighbour] = rel,
                              !.parent[neighbour] = current]
    BY DEF Discover
<1>2. TypeOK /\ ReachedInv /\ SearchInv
    BY DEF BreadthInv, IInv
<1>3. /\ path.frontier \in Seq(Entities) /\ path.seen \in SUBSET Entities /\ path.edges \in SUBSET Relationship
      /\ path.edge \in [Entities -> Relationship \cup {NoRelationship}]
      /\ path.parent \in [Entities -> Entities] /\ path.root \in Entities
      /\ Len(path.frontier) \in Nat
    BY <1>2, LenProperties DEF TypeOK, JoinCall
<1>4. /\ current \in path.seen /\ current \in Entities /\ current = path.frontier[1]
      /\ Len(path.frontier) # 0 /\ path.root \in path.seen
  <2>1. Len(path.frontier) # 0 /\ current = path.frontier[1]
    BY <1>1, <1>3, EmptySeq, LenProperties
  <2>2. current \in Range(path.frontier)
    BY <1>3, <2>1, RangeOfSequence
  <2>q. QED BY <1>2, <1>3, <2>1, <2>2 DEF ReachedInv
<1>5. neighbour \in Entities /\ Incident(rel, neighbour)
    BY <1>1, <1>3, <1>4 DEF Across, Incident, Relationship
<1> HIDE DEF current, neighbour
<1>6. /\ path'.seen = path.seen \cup {neighbour}
      /\ path'.frontier = Append(path.frontier, neighbour)
      /\ path'.edge = [path.edge EXCEPT ![neighbour] = rel]
      /\ path'.parent = [path.parent EXCEPT ![neighbour] = current]
      /\ path'.pc = "search" /\ path'.edges = path.edges /\ path'.root = path.root
    BY <1>1, <1>2 DEF TypeOK, JoinCall
<1>7. /\ path'.edge[neighbour] = rel /\ path'.parent[neighbour] = current
      /\ \A e \in Entities \ {neighbour} :
            path'.edge[e] = path.edge[e] /\ path'.parent[e] = path.parent[e]
    BY <1>3, <1>5, <1>6
<1>8. SearchInv'
    BY <1>1, <1>2, <1>3, <1>5, <1>6, <1>7 DEF SearchInv, Incident
<1>9. /\ path'.frontier \in Seq(Entities) /\ Len(path'.frontier) = Len(path.frontier) + 1
      /\ path'.frontier[Len(path.frontier) + 1] = neighbour /\ path'.frontier # <<>>
      /\ \A i \in 1..Len(path.frontier) : path'.frontier[i] = path.frontier[i]
    BY <1>3, <1>5, <1>6, AppendProperties
<1>10. PICK level \in [Entities -> Nat] : Levels(level)
    BY DEF BreadthInv
<1>11. PICK levels \in [Entities -> Nat] :
            levels[neighbour] = level[current] + 1 /\ \A e \in path.seen : levels[e] = level[e]
  <2> DEFINE higher == [level EXCEPT ![neighbour] = level[current] + 1]
  <2>1. \A e \in path.seen : e \in Entities /\ e # neighbour
    BY <1>1, <1>3
  <2>2. higher \in [Entities -> Nat]
    <3>1. level[current] + 1 \in Nat
        BY <1>4
    <3>q. QED BY <3>1
  <2>3. higher[neighbour] = level[current] + 1 /\ \A e \in path.seen : higher[e] = level[e]
    BY <1>5, <1>10, <2>1
  <2>q. QED BY <2>2, <2>3
<1>12. \A e \in path.seen : level[e] \in Nat /\ level[e] <= level[current] + 1
    BY <1>1, <1>3, <1>4, <1>10 DEF Levels
<1>13. Range(path.frontier) \subseteq path.seen
       /\ \A i \in 1..Len(path.frontier) : path.frontier[i] \in path.seen
  <2>1. Range(path.frontier) \subseteq path.seen
    BY <1>2 DEF ReachedInv
  <2>2. \A i \in 1..Len(path.frontier) : path.frontier[i] \in Range(path.frontier)
    BY <1>3, RangeOfSequence
  <2>q. QED BY <2>1, <2>2
<1>14. Levels(levels)'
  <2>1. levels[path'.root] = 0
    BY <1>4, <1>6, <1>10, <1>11 DEF Levels
  <2>2. ASSUME NEW e \in path'.seen \ {path'.root}
        PROVE  levels[e] = levels[path'.parent[e]] + 1
    <3>1. CASE e = neighbour
        BY <3>1, <1>4, <1>7, <1>11
    <3>2. CASE e # neighbour
      <4>1. e \in path.seen \ {path.root} /\ path'.parent[e] = path.parent[e]
        BY <3>2, <1>3, <1>6, <1>7
      <4>2. path.parent[e] \in path.seen
        BY <4>1, <1>2 DEF ReachedInv
      <4>q. QED BY <4>1, <4>2, <1>10, <1>11 DEF Levels
    <3>q. QED BY <3>1, <3>2
  <2>3. ASSUME NEW i \in 1..Len(path'.frontier), NEW j \in 1..Len(path'.frontier), i <= j
        PROVE  levels[path'.frontier[i]] <= levels[path'.frontier[j]]
    <3>1. CASE j \in 1..Len(path.frontier)
      <4>1. i \in 1..Len(path.frontier)
        BY <2>3, <3>1, <1>3
      <4>2. level[path.frontier[i]] <= level[path.frontier[j]]
        BY <2>3, <3>1, <4>1, <1>10 DEF Levels
      <4>q. QED BY <3>1, <4>1, <4>2, <1>9, <1>11, <1>13
    <3>2. CASE j \notin 1..Len(path.frontier) /\ i \in 1..Len(path.frontier)
      <4>1. j = Len(path.frontier) + 1
        BY <3>2, <1>3, <1>9
      <4>q. QED BY <3>2, <4>1, <1>9, <1>11, <1>12, <1>13
    <3>3. CASE j \notin 1..Len(path.frontier) /\ i \notin 1..Len(path.frontier)
      <4>1. i = j /\ path'.frontier[i] = neighbour
        BY <3>3, <1>3, <1>9
      <4>2. levels[neighbour] \in Nat
        BY <1>5, <1>11
      <4>q. QED BY <4>1, <4>2
    <3>q. QED BY <3>1, <3>2, <3>3
  <2>4. \A e \in path'.seen : levels[e] <= levels[path'.frontier[1]] + 1
    <3>1. path'.frontier[1] = current /\ levels[current] = level[current] /\ level[current] \in Nat
      <4>1. 1 \in 1..Len(path.frontier)
        BY <1>3, <1>4
      <4>q. QED BY <4>1, <1>4, <1>9, <1>11, <1>12
    <3>2. \A e \in path.seen : levels[e] <= level[current] + 1
        BY <1>11, <1>12
    <3>q. QED BY <1>6, <1>11, <3>1, <3>2
  <2>5. ASSUME NEW e \in path'.seen
        PROVE  \/ e \in Range(path'.frontier)
               \/ \A v \in Adjacent(e)' : v \in path'.seen /\ levels[v] <= levels[e] + 1
    <3>1. Range(path'.frontier) = {path'.frontier[i] : i \in 1..Len(path'.frontier)}
      <4>1. path'.frontier \in Seq(Entities)
        BY <1>9
      <4>q. QED BY <4>1, RangeOfSequence, Zenon
    <3>2. Range(path.frontier) = {path.frontier[i] : i \in 1..Len(path.frontier)}
        BY <1>3, RangeOfSequence, Zenon
    <3>3. Range(path.frontier) \cup {neighbour} \subseteq Range(path'.frontier)
      <4>1. Len(path.frontier) + 1 \in 1..Len(path'.frontier)
        BY <1>3, <1>9
      <4>2. \A i \in 1..Len(path.frontier) : i \in 1..Len(path'.frontier)
        BY <1>3, <1>9
      <4>q. QED BY <3>1, <3>2, <4>1, <4>2, <1>9
    <3>4. CASE e = neighbour \/ e \in Range(path.frontier)
        BY <3>3, <3>4
    <3>5. CASE e # neighbour /\ e \notin Range(path.frontier)
      <4>1. e \in path.seen /\ Adjacent(e)' = Adjacent(e)
        BY <3>5, <1>6 DEF Adjacent
      <4>2. \A v \in Adjacent(e) : v \in path.seen /\ level[v] <= level[e] + 1
        BY <3>5, <4>1, <1>10 DEF Levels
      <4>q. QED BY <4>1, <4>2, <1>6, <1>11
    <3>q. QED BY <3>4, <3>5
  <2>q. QED BY <2>1, <2>2, <2>3, <2>4, <2>5 DEF Levels
<1>15. IInv'
    BY DiscoverKeeps DEF BreadthInv
<1>q. QED BY <1>8, <1>11, <1>14, <1>15 DEF BreadthInv

LEMMA BreadthAdvance == ASSUME BreadthInv, Advance PROVE BreadthInv'
<1> DEFINE current == path.frontier[1]
<1>1. /\ path.pc = "search" /\ path.frontier # <<>>
      /\ \A rel \in path.edges :
            Incident(rel, Head(path.frontier)) => Across(rel, Head(path.frontier)) \in path.seen
      /\ path' = [path EXCEPT !.frontier = Tail(@)]
    BY DEF Advance
<1>2. TypeOK /\ ReachedInv /\ SearchInv
    BY DEF BreadthInv, IInv
<1>3. /\ path.frontier \in Seq(Entities) /\ path.seen \in SUBSET Entities
      /\ Len(path.frontier) \in Nat /\ Len(path.frontier) # 0 /\ 1 \in 1..Len(path.frontier)
      /\ Head(path.frontier) = current
  <2>1. path.frontier \in Seq(Entities) /\ path.seen \in SUBSET Entities
    BY <1>2 DEF TypeOK, JoinCall
  <2>q. QED BY <1>1, <2>1, EmptySeq, LenProperties
<1>4. /\ path'.frontier = Tail(path.frontier) /\ path'.pc = "search"
      /\ path'.seen = path.seen /\ path'.root = path.root /\ path'.edges = path.edges
      /\ path'.edge = path.edge /\ path'.parent = path.parent
    BY <1>1, <1>2 DEF TypeOK, JoinCall
<1>5. /\ Tail(path.frontier) \in Seq(Entities) /\ Len(Tail(path.frontier)) = Len(path.frontier) - 1
      /\ \A i \in 1..Len(Tail(path.frontier)) :
            i + 1 \in 1..Len(path.frontier) /\ Tail(path.frontier)[i] = path.frontier[i + 1]
    BY <1>1, <1>3
<1>6. PICK level \in [Entities -> Nat] : Levels(level)
    BY DEF BreadthInv
<1>7. \A e \in path.seen : level[e] \in Nat /\ level[e] <= level[current] + 1
    BY <1>1, <1>3, <1>6 DEF Levels
<1>8. \A v \in Adjacent(current) : v \in path.seen /\ level[v] <= level[current] + 1
    BY <1>1, <1>3, <1>7 DEF Adjacent
<1>9. /\ Range(path.frontier) = {path.frontier[i] : i \in 1..Len(path.frontier)}
      /\ Range(Tail(path.frontier)) = {Tail(path.frontier)[i] : i \in 1..Len(Tail(path.frontier))}
    BY <1>3, <1>5, RangeOfSequence, Zenon
<1>10. \A e \in Range(path.frontier) : e = current \/ e \in Range(Tail(path.frontier))
  <2> SUFFICES ASSUME NEW i \in 1..Len(path.frontier), i # 1
               PROVE  path.frontier[i] \in Range(Tail(path.frontier))
    BY <1>9
  <2>1. i - 1 \in 1..Len(Tail(path.frontier)) /\ (i - 1) + 1 = i
    BY <1>3, <1>5
  <2>q. QED BY <2>1, <1>5, <1>9
<1>11. \A e \in path.seen :
          \/ e \in Range(Tail(path.frontier))
          \/ \A v \in Adjacent(e) : v \in path.seen /\ level[v] <= level[e] + 1
    BY <1>6, <1>8, <1>10 DEF Levels
<1>12. \A i, j \in 1..Len(Tail(path.frontier)) :
          i <= j => level[Tail(path.frontier)[i]] <= level[Tail(path.frontier)[j]]
  <2> SUFFICES ASSUME NEW i \in 1..Len(Tail(path.frontier)), NEW j \in 1..Len(Tail(path.frontier)),
                      i <= j
               PROVE  level[path.frontier[i + 1]] <= level[path.frontier[j + 1]]
    BY <1>5
  <2>1. i + 1 \in 1..Len(path.frontier) /\ j + 1 \in 1..Len(path.frontier) /\ i + 1 <= j + 1
    BY <1>5
  <2>q. QED BY <2>1, <1>6 DEF Levels
<1>13. Tail(path.frontier) # <<>> =>
          \A e \in path.seen : level[e] <= level[Tail(path.frontier)[1]] + 1
  <2> SUFFICES ASSUME Tail(path.frontier) # <<>>, NEW e \in path.seen
               PROVE  level[e] <= level[Tail(path.frontier)[1]] + 1
    OBVIOUS
  <2>1. Len(Tail(path.frontier)) # 0
    BY <1>5, EmptySeq
  <2>2. 1 \in 1..Len(Tail(path.frontier)) /\ 2 \in 1..Len(path.frontier)
        /\ Tail(path.frontier)[1] = path.frontier[2]
    BY <1>3, <1>5, <2>1
  <2>3. level[current] <= level[path.frontier[2]]
    BY <1>3, <1>6, <2>2 DEF Levels
  <2>4. level[path.frontier[2]] \in Nat /\ level[current] \in Nat
    <3>1. path.frontier[2] \in Entities /\ current \in Entities
        BY <1>3, <2>2
    <3>q. QED BY <3>1
  <2>5. level[e] \in Nat /\ level[e] <= level[current] + 1
    BY <1>7
  <2> HIDE DEF current
  <2>q. QED BY <2>2, <2>3, <2>4, <2>5
<1>14. Levels(level)'
  <2>1. \A e : Adjacent(e)' = Adjacent(e)
    BY <1>4 DEF Adjacent
  <2>q. QED BY <1>4, <1>6, <1>11, <1>12, <1>13, <2>1 DEF Levels
<1>15. SearchInv'
    BY <1>2, <1>4 DEF SearchInv
<1>16. IInv'
    BY AdvanceKeeps DEF BreadthInv
<1>q. QED BY <1>14, <1>15, <1>16 DEF BreadthInv

\* Nothing else touches what the search found.
LEMMA LevelsStay ==
    ASSUME BreadthInv,
           path'.seen = path.seen, path'.root = path.root, path'.edges = path.edges,
           path'.edge = path.edge, path'.parent = path.parent, path'.frontier = path.frontier
    PROVE  \E level \in [Entities -> Nat] : Levels(level)'
<1>1. PICK level \in [Entities -> Nat] : Levels(level)
    BY DEF BreadthInv
<1>2. \A e : Adjacent(e)' = Adjacent(e)
    BY DEF Adjacent
<1>3. Levels(level)'
    BY <1>1, <1>2 DEF Levels
<1>q. QED BY <1>3

LEMMA BreadthStep == ASSUME BreadthInv, [JoinStep]_path PROVE BreadthInv'
<1>1. IInv'
    BY StepKeeps DEF BreadthInv
<1>2. TypeOK /\ SearchInv
    BY DEF BreadthInv, IInv
<1>3. CASE \E rel \in path.edges : Discover(rel)
    BY <1>3, BreadthDiscover
<1>4. CASE Advance
    BY <1>4, BreadthAdvance
<1>5. ASSUME /\ path'.seen = path.seen /\ path'.root = path.root /\ path'.edges = path.edges
             /\ path'.edge = path.edge /\ path'.parent = path.parent
             /\ path'.frontier = path.frontier /\ path'.needed = path.needed,
             /\ path'.pc \in {"collect", "walk", "unreachable"} => path.frontier = <<>>
             /\ path'.pc = "planned" => path.frontier = <<>>
             /\ path'.pc = "unreachable" => ~(path.needed \subseteq path.seen)
      PROVE  BreadthInv'
  <2>1. SearchInv'
    BY <1>2, <1>5 DEF SearchInv
  <2>q. QED BY <1>1, <1>5, <2>1, LevelsStay DEF BreadthInv
<1>6. CASE SearchEnds
  <2>1. /\ path.frontier = <<>>
        /\ path' = [path EXCEPT !.pc = IF path.needed \subseteq path.seen
                                       THEN "collect" ELSE "unreachable"]
    BY <1>6 DEF SearchEnds
  <2>2. path'.pc = IF path.needed \subseteq path.seen THEN "collect" ELSE "unreachable"
    BY <1>2, <2>1 DEF TypeOK, JoinCall
  <2>q. QED BY <1>2, <1>5, <2>1, <2>2 DEF TypeOK, JoinCall
<1>7. CASE \E e \in path.remaining : Pick(e)
  <2>1. PICK e \in path.remaining :
            /\ path.pc = "collect"
            /\ path' = [path EXCEPT !.pc = "walk", !.remaining = @ \ {e}, !.cursor = e, !.chain = <<>>]
    BY <1>7 DEF Pick
  <2>2. path'.pc = "walk" /\ path.frontier = <<>>
    BY <1>2, <2>1 DEF TypeOK, JoinCall, SearchInv
  <2>q. QED BY <1>2, <1>5, <2>1, <2>2 DEF TypeOK, JoinCall
<1>8. CASE WalkBack
  <2>1. /\ path.pc = "walk"
        /\ path' = [path EXCEPT !.chain = <<path.cursor>> \o @, !.cursor = path.parent[@]]
    BY <1>8 DEF WalkBack
  <2>2. path'.pc = "walk" /\ path.frontier = <<>>
    BY <1>2, <2>1 DEF TypeOK, JoinCall, SearchInv
  <2>q. QED BY <1>2, <1>5, <2>1, <2>2 DEF TypeOK, JoinCall
<1>9. CASE ChainEnds
  <2>1. /\ path.pc = "walk"
        /\ path' = [path EXCEPT !.pc = "collect", !.ordered = @ \o path.chain]
    BY <1>9 DEF ChainEnds
  <2>2. path'.pc = "collect" /\ path.frontier = <<>>
    BY <1>2, <2>1 DEF TypeOK, JoinCall, SearchInv
  <2>q. QED BY <1>2, <1>5, <2>1, <2>2 DEF TypeOK, JoinCall
<1>10. CASE Planned
  <2>1. path.pc = "collect" /\ path' = [path EXCEPT !.pc = "planned"]
    BY <1>10 DEF Planned
  <2>2. path'.pc = "planned" /\ path.frontier = <<>>
    BY <1>2, <2>1 DEF TypeOK, JoinCall, SearchInv
  <2>q. QED BY <1>2, <1>5, <2>1, <2>2 DEF TypeOK, JoinCall
<1>11. CASE UNCHANGED path
  <2>1. SearchInv'
    BY <1>2, <1>11 DEF SearchInv
  <2>2. \E level \in [Entities -> Nat] : Levels(level)'
    BY <1>11, LevelsStay
  <2>q. QED BY <1>1, <2>1, <2>2 DEF BreadthInv
<1>q. QED BY <1>3, <1>4, <1>6, <1>7, <1>8, <1>9, <1>10, <1>11 DEF JoinStep

LEMMA BreadthInvariant == JoinSpec => []BreadthInv
BY BreadthInit, BreadthStep, PTL DEF JoinSpec

-----------------------------------------------------------------------------
(***************************************************************************)
(* The reference notions are recursive functions.  Each is computed by     *)
(* exhibiting a function that solves its equation: no two functions do, for*)
(* they could not differ first anywhere.                                   *)
(***************************************************************************)

\* Where two functions would first differ.
LEMMA LeastOfNaturals ==
    ASSUME NEW T \in SUBSET Nat, T # {}
    PROVE  \E x \in T : \A y \in T : x <= y
<1>1. PICK x \in T : \A y \in T : ~(<<y, x>> \in OpToRel(<, Nat))
    BY WFMin, NatLessThanWellFounded, Zenon
<1>2. \A y \in T : <<y, x>> \in OpToRel(<, Nat) <=> y < x
    BY Zenon DEF OpToRel
<1>3. \A y \in T : ~(y < x)
    BY <1>1, <1>2, Zenon
<1>q. QED BY <1>3

\* When the search is over, those n relationships from the root are those of the
\* first n levels.
LEMMA WithinIsByLevel ==
    ASSUME BreadthInv, path.frontier = <<>>, NEW level \in [Entities -> Nat], Levels(level)
    PROVE  \A n \in Nat : Within[n] = {e \in path.seen : level[e] <= n}
<1> DEFINE ByLevel == [n \in Nat |-> {e \in path.seen : level[e] <= n}]
<1>1. TypeOK /\ ReachedInv /\ SearchInv
    BY DEF BreadthInv, IInv
<1>2. /\ path.seen \in SUBSET Entities /\ path.root \in path.seen
      /\ \A e \in path.seen : level[e] \in Nat
    BY <1>1 DEF TypeOK, JoinCall, ReachedInv
<1>3. \A e \in path.seen : \A v \in Adjacent(e) : v \in path.seen /\ level[v] <= level[e] + 1
  <2>1. Range(path.frontier) = {}
    BY DEF Range
  <2>q. QED BY <2>1 DEF Levels
<1>4. \A e \in path.seen \ {path.root} :
         /\ path.parent[e] \in path.seen /\ level[e] = level[path.parent[e]] + 1
         /\ e \in Adjacent(path.parent[e])
  <2> SUFFICES ASSUME NEW e \in path.seen \ {path.root}
               PROVE  e \in Adjacent(path.parent[e])
    BY <1>1 DEF Levels, ReachedInv
  <2>1. path.edge[e] \in path.edges /\ path.parent[e] = Across(path.edge[e], e)
    BY <1>1 DEF ReachedInv
  <2>2. Incident(path.edge[e], e)
    BY <1>1 DEF SearchInv
  <2>3. Incident(path.edge[e], path.parent[e]) /\ Across(path.edge[e], path.parent[e]) = e
    BY <2>1, <2>2 DEF Incident, Across
  <2>q. QED BY <2>1, <2>3 DEF Adjacent
<1>5. ByLevel[0] = {path.root}
  <2>1. \A e \in path.seen : level[e] <= 0 <=> e = path.root
    BY <1>2, <1>4 DEF Levels
  <2>q. QED BY <1>2, <2>1
<1>6. ASSUME NEW n \in Nat, n # 0
      PROVE  ByLevel[n] = ByLevel[n - 1] \cup UNION {Adjacent(e) : e \in ByLevel[n - 1]}
  <2>1. n - 1 \in Nat /\ ByLevel[n] = {e \in path.seen : level[e] <= n}
        /\ ByLevel[n - 1] = {e \in path.seen : level[e] <= n - 1}
    BY <1>6
  <2>2. ASSUME NEW e \in path.seen, level[e] <= n, e # path.root
        PROVE  e \in UNION {Adjacent(f) : f \in ByLevel[n - 1]}
    <3>1. /\ path.parent[e] \in path.seen /\ level[path.parent[e]] \in Nat
          /\ level[e] = level[path.parent[e]] + 1 /\ e \in Adjacent(path.parent[e])
        BY <2>2, <1>2, <1>4
    <3>2. path.parent[e] \in ByLevel[n - 1]
        BY <1>6, <2>1, <2>2, <3>1
    <3>q. QED BY <3>1, <3>2
  <2>3. path.root \in ByLevel[n - 1]
    BY <1>2, <2>1 DEF Levels
  <2>4. ASSUME NEW e \in ByLevel[n - 1], NEW v \in Adjacent(e) PROVE v \in ByLevel[n]
    <3>1. e \in path.seen /\ level[e] <= n - 1 /\ level[e] \in Nat
        BY <1>2, <2>1, <2>4
    <3>2. v \in path.seen /\ level[v] <= level[e] + 1 /\ level[v] \in Nat
        BY <1>2, <1>3, <2>4, <3>1
    <3>q. QED BY <1>6, <2>1, <3>1, <3>2
  <2>5. ByLevel[n - 1] \subseteq ByLevel[n]
    BY <1>2, <1>6, <2>1
  <2> HIDE DEF ByLevel
  <2>q. QED BY <2>1, <2>2, <2>3, <2>4, <2>5
<1>7. ByLevel = [n \in Nat |->
          IF n = 0 THEN {path.root}
          ELSE ByLevel[n - 1] \cup UNION {Adjacent(e) : e \in ByLevel[n - 1]}]
    BY <1>5, <1>6
<1> HIDE DEF ByLevel
<1>8. Within = [n \in Nat |->
          IF n = 0 THEN {path.root}
          ELSE Within[n - 1] \cup UNION {Adjacent(e) : e \in Within[n - 1]}]
  <2>1. \E f : f = [n \in Nat |->
            IF n = 0 THEN {path.root} ELSE f[n - 1] \cup UNION {Adjacent(e) : e \in f[n - 1]}]
    BY <1>7, Zenon
  <2>q. QED BY <2>1, Zenon DEF Within
<1> DEFINE T == {n \in Nat : Within[n] # ByLevel[n]}
<1>9. ASSUME T # {} PROVE FALSE
  <2>1. PICK n \in T : \A m \in T : n <= m
    BY <1>9, LeastOfNaturals
  <2>2. n # 0
    BY <1>5, <1>8, <2>1
  <2>3. n - 1 \in Nat /\ n - 1 \notin T
    BY <2>1, <2>2
  <2>4. Within[n - 1] = ByLevel[n - 1]
    BY <2>3
  <2>5. /\ Within[n] = Within[n - 1] \cup UNION {Adjacent(e) : e \in Within[n - 1]}
        /\ ByLevel[n] = ByLevel[n - 1] \cup UNION {Adjacent(e) : e \in ByLevel[n - 1]}
    BY <1>7, <1>8, <2>1, <2>2
  <2>q. QED BY <2>1, <2>4, <2>5
<1>10. \A n \in Nat : Within[n] = ByLevel[n]
    BY <1>9
<1>q. QED BY <1>10 DEF ByLevel

\* The joins between an entity that was reached and the root are its level's.
LEMMA DepthIsLevel ==
    ASSUME IInv, SearchInv, NEW level \in [Entities -> Nat], Levels(level)
    PROVE  \A e \in path.seen, n \in Nat : level[e] <= n => Depth[n][e] = level[e]
<1> DEFINE Steps == [n \in Nat |-> [e \in Entities |->
                        IF e \in path.seen /\ level[e] <= n THEN level[e] ELSE n]]
           Solves(f) == f = [n \in Nat |-> [e \in Entities |->
                        IF e = path.root \/ n = 0 THEN 0 ELSE 1 + f[n - 1][path.parent[e]]]]
<1>1. /\ path.seen \in SUBSET Entities /\ path.root \in path.seen
      /\ path.parent \in [Entities -> Entities]
      /\ \A e \in path.seen \ {path.root} :
            path.parent[e] \in path.seen /\ level[e] = level[path.parent[e]] + 1
      /\ level[path.root] = 0
      /\ \A e \in Entities \ path.seen : path.parent[e] = e
    BY DEF IInv, TypeOK, JoinCall, ReachedInv, SearchInv, Levels
<1>2. \A e \in Entities, n \in Nat :
         Steps[n][e] = IF e \in path.seen /\ level[e] <= n THEN level[e] ELSE n
    OBVIOUS
<1>3. ASSUME NEW e \in Entities, NEW n \in Nat
      PROVE  Steps[n][e] = IF e = path.root \/ n = 0 THEN 0 ELSE 1 + Steps[n - 1][path.parent[e]]
  <2> HIDE DEF Steps
  <2>1. level[e] \in Nat /\ path.parent[e] \in Entities /\ level[path.parent[e]] \in Nat
    BY <1>1
  <2>2. CASE e = path.root \/ n = 0
    BY <1>1, <1>2, <2>1, <2>2
  <2>3. CASE e # path.root /\ n # 0
    <3>1. n - 1 \in Nat
        BY <2>3
    <3>2. Steps[n - 1][path.parent[e]] =
              IF path.parent[e] \in path.seen /\ level[path.parent[e]] <= n - 1
              THEN level[path.parent[e]] ELSE n - 1
        BY <1>2, <2>1, <3>1
    <3>q. QED BY <1>1, <1>2, <2>1, <2>3, <3>1, <3>2
  <2>q. QED BY <2>2, <2>3
<1>4. Solves(Steps)
  <2>1. ASSUME NEW n \in Nat
        PROVE  Steps[n] = [e \in Entities |-> IF e = path.root \/ n = 0
                                              THEN 0 ELSE 1 + Steps[n - 1][path.parent[e]]]
    <3>1. Steps[n] = [e \in Entities |-> Steps[n][e]]
        OBVIOUS
    <3> HIDE DEF Steps
    <3>q. QED BY <1>3, <3>1
  <2>2. Steps = [n \in Nat |-> Steps[n]]
    OBVIOUS
  <2> HIDE DEF Steps
  <2>q. QED BY <2>1, <2>2
<1> HIDE DEF Steps
<1>5. Solves(Depth)
  <2>1. \E f : Solves(f)
    BY <1>4, Zenon
  <2>q. QED BY <2>1, Zenon DEF Depth
<1>6. ASSUME NEW f, Solves(f), NEW e \in Entities, NEW n \in Nat
      PROVE  f[n][e] = IF e = path.root \/ n = 0 THEN 0 ELSE 1 + f[n - 1][path.parent[e]]
  <2>1. f[n] = [x \in Entities |-> IF x = path.root \/ n = 0 THEN 0 ELSE 1 + f[n - 1][path.parent[x]]]
    BY <1>6
  <2>q. QED BY <2>1
<1> HIDE DEF Solves
<1> DEFINE T == {n \in Nat : \E e \in Entities : Depth[n][e] # Steps[n][e]}
<1>7. ASSUME T # {} PROVE FALSE
  <2>1. PICK n \in T : \A m \in T : n <= m
    BY <1>7, LeastOfNaturals
  <2>2. PICK e \in Entities : Depth[n][e] # Steps[n][e]
    BY <2>1
  <2>3. n \in Nat
    BY <2>1
  <2>4. CASE e = path.root \/ n = 0
    BY <1>4, <1>5, <1>6, <2>2, <2>3, <2>4
  <2>5. CASE ~(e = path.root \/ n = 0)
    <3>1. n - 1 \in Nat /\ n - 1 \notin T /\ path.parent[e] \in Entities
        BY <1>1, <2>1, <2>3, <2>5
    <3>2. Depth[n - 1][path.parent[e]] = Steps[n - 1][path.parent[e]]
        BY <3>1
    <3>q. QED BY <1>4, <1>5, <1>6, <2>2, <2>3, <2>5, <3>2
  <2>q. QED BY <2>4, <2>5
<1>8. \A n \in Nat, e \in Entities : Depth[n][e] = Steps[n][e]
    BY <1>7
<1>9. \A e \in path.seen : e \in Entities
    BY <1>1
<1>q. QED BY <1>2, <1>8, <1>9

\* No more levels than entities: each level that occurs has one of its own.
LEMMA LevelsAreFew ==
    ASSUME IsFiniteSet(Entities), IInv, NEW level \in [Entities -> Nat], Levels(level)
    PROVE  \A e \in path.seen : level[e] <= Cardinality(Entities)
<1> DEFINE Low(m) == {x \in path.seen : level[x] <= m}
           T == {m \in Nat : /\ \E e \in path.seen : level[e] = m
                             /\ Cardinality(Low(m)) <= m}
<1>1. /\ path.seen \in SUBSET Entities /\ path.root \in path.seen /\ level[path.root] = 0
      /\ \A e \in path.seen \ {path.root} :
            path.parent[e] \in path.seen /\ level[e] = level[path.parent[e]] + 1
      /\ \A e \in path.seen : level[e] \in Nat
    BY DEF IInv, TypeOK, JoinCall, ReachedInv, Levels
<1>2. \A m : IsFiniteSet(Low(m)) /\ Cardinality(Low(m)) \in Nat
             /\ Cardinality(Low(m)) <= Cardinality(Entities)
  <2> SUFFICES ASSUME NEW m
               PROVE  IsFiniteSet(Low(m)) /\ Cardinality(Low(m)) \in Nat
                      /\ Cardinality(Low(m)) <= Cardinality(Entities)
    OBVIOUS
  <2>1. Low(m) \subseteq Entities
    BY <1>1
  <2>q. QED BY <2>1, FS_Subset, FS_CardinalityType
<1>3. ASSUME T # {} PROVE FALSE
  <2>1. PICK m \in T : \A n \in T : m <= n
    BY <1>3, LeastOfNaturals
  <2>2. m \in Nat /\ Cardinality(Low(m)) <= m
    BY <2>1
  <2>3. PICK e \in path.seen : level[e] = m
    BY <2>1
  <2>4. e \in Low(m)
    BY <2>2, <2>3
  <2>5. CASE m = 0
    <3>1. Low(m) = {}
        BY <1>2, <2>2, <2>5, FS_EmptySet
    <3>q. QED BY <2>4, <3>1
  <2>6. CASE m # 0
    <3>1. path.parent[e] \in path.seen /\ level[path.parent[e]] = m - 1 /\ m - 1 \in Nat
        BY <1>1, <2>2, <2>3, <2>6
    <3>2. m - 1 \notin T
        BY <2>1, <2>2, <2>6
    <3>3. ~(Cardinality(Low(m - 1)) <= m - 1)
        BY <3>1, <3>2
    <3>4. e \notin Low(m - 1) /\ Low(m - 1) \cup {e} \subseteq Low(m)
        BY <1>1, <2>2, <2>3, <2>4
    <3> HIDE DEF Low
    <3>5. Cardinality(Low(m - 1) \cup {e}) = Cardinality(Low(m - 1)) + 1
        BY <1>2, <3>4, FS_AddElement
    <3>6. Cardinality(Low(m - 1) \cup {e}) <= Cardinality(Low(m))
        BY <1>2, <3>4, FS_Subset
    <3>7. Cardinality(Low(m - 1)) \in Nat /\ Cardinality(Low(m)) \in Nat
        BY <1>2
    <3>q. QED BY <2>2, <3>3, <3>5, <3>6, <3>7
  <2>q. QED BY <2>5, <2>6
<1> SUFFICES ASSUME NEW e \in path.seen PROVE level[e] <= Cardinality(Entities)
    OBVIOUS
<1>4. level[e] \in Nat /\ level[e] \notin T
    BY <1>1, <1>3
<1>5. ~(Cardinality(Low(level[e])) <= level[e])
    BY <1>4
<1>6. Cardinality(Low(level[e])) \in Nat /\ Cardinality(Entities) \in Nat
      /\ Cardinality(Low(level[e])) <= Cardinality(Entities)
    BY <1>2, FS_CardinalityType
<1> HIDE DEF Low, T
<1>q. QED BY <1>4, <1>5, <1>6

\* Whatever the search found so far, the root is within any distance of itself.
LEMMA RootIsWithin == ASSUME TypeOK PROVE \A n \in Nat : path.root \in Within[n]
<1> DEFINE Walks(s) == /\ s[0] = path.root
                       /\ \A i \in Nat : s[i + 1] = s[i] \/ s[i + 1] \in Adjacent(s[i])
           Walked == [n \in Nat |-> {s[n] : s \in {t \in [Nat -> Entities] : Walks(t)}}]
<1>1. path.root \in Entities /\ path.edges \in SUBSET Relationship
    BY DEF TypeOK, JoinCall
<1>2. \A e \in Entities : Adjacent(e) \subseteq Entities
    BY <1>1 DEF Adjacent, Across, Relationship
<1>3. ASSUME NEW n \in Nat PROVE path.root \in Walked[n]
  <2> DEFINE stay == [i \in Nat |-> path.root]
  <2>1. stay \in [Nat -> Entities] /\ Walks(stay) /\ stay[n] = path.root
    BY <1>1, <1>3
  <2> HIDE DEF stay, Walks
  <2>q. QED BY <2>1
<1>4. Walked[0] = {path.root}
    BY <1>3
<1>5. ASSUME NEW n \in Nat, n # 0
      PROVE  Walked[n] = Walked[n - 1] \cup UNION {Adjacent(e) : e \in Walked[n - 1]}
  <2>1. n - 1 \in Nat /\ (n - 1) + 1 = n
    BY <1>5
  <2>2. \A m \in Nat : Walked[m] = {s[m] : s \in {t \in [Nat -> Entities] : Walks(t)}}
    OBVIOUS
  <2>3. ASSUME NEW s \in [Nat -> Entities], Walks(s)
        PROVE  s[n] \in Walked[n - 1] \cup UNION {Adjacent(e) : e \in Walked[n - 1]}
    <3>1. s[n - 1] \in Walked[n - 1]
        BY <2>1, <2>2, <2>3
    <3>2. s[n] = s[n - 1] \/ s[n] \in Adjacent(s[n - 1])
        BY <2>1, <2>3
    <3>q. QED BY <3>1, <3>2
  <2>4. ASSUME NEW s \in [Nat -> Entities], Walks(s), NEW v, v = s[n - 1] \/ v \in Adjacent(s[n - 1])
        PROVE  v \in Walked[n]
    <3> DEFINE t == [i \in Nat |-> IF i < n THEN s[i] ELSE v]
    <3>1. v \in Entities
        BY <1>2, <2>1, <2>4
    <3>2. t \in [Nat -> Entities] /\ t[n] = v /\ \A i \in Nat : t[i] = IF i < n THEN s[i] ELSE v
        BY <3>1
    <3> HIDE DEF t
    <3>3. t[0] = path.root
        BY <1>5, <2>4, <3>2
    <3>4. ASSUME NEW i \in Nat PROVE t[i + 1] = t[i] \/ t[i + 1] \in Adjacent(t[i])
      <4>1. CASE i + 1 < n
        BY <2>4, <3>2, <4>1
      <4>2. CASE i + 1 = n
        BY <2>4, <3>2, <4>2
      <4>3. CASE i + 1 > n
        BY <3>2, <4>3
      <4>q. QED BY <4>1, <4>2, <4>3
    <3>5. Walks(t)
        BY <3>3, <3>4
    <3> HIDE DEF Walks
    <3>q. QED BY <2>2, <3>2, <3>5
  <2> HIDE DEF Walks
  <2>5. Walked[n] = {s[n] : s \in {t \in [Nat -> Entities] : Walks(t)}}
        /\ Walked[n - 1] = {s[n - 1] : s \in {t \in [Nat -> Entities] : Walks(t)}}
    BY <2>1, <2>2
  <2> DEFINE next == Walked[n - 1] \cup UNION {Adjacent(e) : e \in Walked[n - 1]}
  <2>6. Walked[n] \subseteq next
    <3> HIDE DEF Walked, next
    <3>q. QED BY <2>3, <2>5 DEF next
  <2>7. ASSUME NEW v \in next PROVE v \in Walked[n]
    <3>1. v \in Walked[n - 1] \/ \E e \in Walked[n - 1] : v \in Adjacent(e)
        BY <2>7
    <3>2. \E e \in Walked[n - 1] : v = e \/ v \in Adjacent(e)
        BY <3>1
    <3>3. \E s \in [Nat -> Entities] : Walks(s) /\ (v = s[n - 1] \/ v \in Adjacent(s[n - 1]))
      <4> HIDE DEF Walked, next
      <4>q. QED BY <2>5, <3>2
    <3>q. QED BY <2>4, <3>3
  <2> HIDE DEF Walked
  <2>q. QED BY <2>6, <2>7
<1>6. Walked = [n \in Nat |->
          IF n = 0 THEN {path.root}
          ELSE Walked[n - 1] \cup UNION {Adjacent(e) : e \in Walked[n - 1]}]
  <2>1. Walked = [n \in Nat |-> Walked[n]]
    OBVIOUS
  <2> HIDE DEF Walked
  <2>q. QED BY <1>4, <1>5, <2>1
<1> HIDE DEF Walked
<1>7. Within = [n \in Nat |->
          IF n = 0 THEN {path.root}
          ELSE Within[n - 1] \cup UNION {Adjacent(e) : e \in Within[n - 1]}]
  <2>1. \E f : f = [n \in Nat |->
            IF n = 0 THEN {path.root} ELSE f[n - 1] \cup UNION {Adjacent(e) : e \in f[n - 1]}]
    BY <1>6, Zenon
  <2>q. QED BY <2>1, Zenon DEF Within
<1> DEFINE T == {n \in Nat : path.root \notin Within[n]}
<1>8. ASSUME T # {} PROVE FALSE
  <2>1. PICK n \in T : \A m \in T : n <= m
    BY <1>8, LeastOfNaturals
  <2>2. n # 0
    BY <1>7, <2>1
  <2>3. n - 1 \in Nat /\ n - 1 \notin T
    BY <2>1, <2>2
  <2>q. QED BY <1>7, <2>1, <2>2, <2>3
<1>q. QED BY <1>8

\* The distance of an entity reached is its level.
LEMMA DistanceIsLevel ==
    ASSUME IsFiniteSet(Entities), BreadthInv, path.frontier = <<>>,
           NEW level \in [Entities -> Nat], Levels(level), NEW e \in path.seen
    PROVE  Distance(e) = level[e]
<1> DEFINE C == Cardinality(Entities)
           Nearest(n) == e \in Within[n] /\ (n > 0 => e \notin Within[n - 1])
<1>1. C \in Nat /\ level[e] \in 0..C
  <2>1. e \in Entities
    BY DEF BreadthInv, IInv, TypeOK, JoinCall
  <2>2. C \in Nat
    BY FS_CardinalityType
  <2>3. level[e] <= C
    BY LevelsAreFew DEF BreadthInv
  <2> HIDE DEF C
  <2>q. QED BY <2>1, <2>2, <2>3
<1>2. \A n \in Nat : e \in Within[n] <=> level[e] <= n
    BY WithinIsByLevel
<1> HIDE DEF C
<1>3. Nearest(level[e])
    BY <1>1, <1>2
<1>4. \A n \in 0..C : Nearest(n) => n = level[e]
    BY <1>1, <1>2
<1>5. Distance(e) = CHOOSE n \in 0..C : Nearest(n)
    BY Zenon DEF Distance, C
<1> HIDE DEF Nearest
<1>q. QED BY <1>1, <1>3, <1>4, <1>5

\* A query about the root alone is planned before the search begins.
LEMMA PlansAreShortest == ASSUME IsFiniteSet(Entities), BreadthInv PROVE ShortestChains
<1>1. /\ IInv /\ SearchInv /\ TypeOK /\ path.seen \in SUBSET Entities
      /\ Cardinality(Entities) \in Nat
      /\ path.pc = "planned" => OrderInv /\ NeededInv
    BY FS_CardinalityType DEF BreadthInv, IInv, Joining, TypeOK, JoinCall
<1>2. PICK level \in [Entities -> Nat] : Levels(level)
    BY DEF BreadthInv
<1>3. CASE path.frontier = <<>>
  <2>1. Reachable = path.seen
    <3>1. Within[Cardinality(Entities)] = {e \in path.seen : level[e] <= Cardinality(Entities)}
        BY <1>1, <1>2, <1>3, WithinIsByLevel
    <3>2. \A e \in path.seen : level[e] <= Cardinality(Entities)
        BY <1>1, <1>2, LevelsAreFew
    <3>q. QED BY <3>1, <3>2 DEF Reachable
  <2>2. ASSUME path.pc = "planned", NEW e \in Range(path.ordered)
        PROVE  Depth[Cardinality(Entities)][e] = Distance(e)
    <3>1. e \in path.seen
      <4>1. Range(path.ordered) = {path.ordered[i] : i \in 1..Len(path.ordered)}
        BY <1>1, RangeOfSequence, Zenon DEF TypeOK, JoinCall
      <4>q. QED BY <1>1, <2>2, <4>1 DEF OrderInv
    <3>2. Distance(e) = level[e]
        BY <1>2, <1>3, <3>1, DistanceIsLevel
    <3>3. level[e] <= Cardinality(Entities)
        BY <1>1, <1>2, <3>1, LevelsAreFew
    <3>q. QED BY <1>1, <1>2, <3>1, <3>2, <3>3, DepthIsLevel
  <2>q. QED BY <1>1, <2>1, <2>2 DEF ShortestChains, SearchInv, NeededInv
<1>4. CASE path.frontier # <<>>
  <2>1. path.pc = "planned" => path.needed = {path.root} /\ path.ordered = <<>>
    BY <1>1, <1>4 DEF SearchInv
  <2>2. path.pc # "unreachable"
    BY <1>1, <1>4 DEF SearchInv
  <2>3. path.root \in Reachable
    BY <1>1, RootIsWithin DEF Reachable
  <2>4. path.ordered = <<>> => Range(path.ordered) = {}
    BY DEF Range
  <2>q. QED BY <2>1, <2>2, <2>3, <2>4 DEF ShortestChains
<1>q. QED BY <1>3, <1>4

\* Whatever the order of the rows, entities are joined over shortest chains, and a
\* query is refused exactly when some entity it needs is out of reach.
THEOREM PlansAreBreadthFirst == ASSUME IsFiniteSet(Entities) PROVE JoinSpec => []ShortestChains
<1>1. BreadthInv => ShortestChains
    BY PlansAreShortest
<1>q. QED BY <1>1, BreadthInvariant, PTL

-----------------------------------------------------------------------------
(***************************************************************************)
(* The compilation around the join plan.                                   *)
(***************************************************************************)

\* A walk keeps to the graph it was started on.
LEMMA StepKeepsCall ==
    ASSUME TypeOK, [JoinStep]_path
    PROVE  path'.root = path.root /\ path'.needed = path.needed /\ path'.edges = path.edges
<1>1. CASE \E rel \in path.edges : Discover(rel)
    BY <1>1 DEF TypeOK, JoinCall, Discover
<1>2. CASE Advance
    BY <1>2 DEF TypeOK, JoinCall, Advance
<1>3. CASE SearchEnds
    BY <1>3 DEF TypeOK, JoinCall, SearchEnds
<1>4. CASE \E e \in path.remaining : Pick(e)
    BY <1>4 DEF TypeOK, JoinCall, Pick
<1>5. CASE WalkBack
    BY <1>5 DEF TypeOK, JoinCall, WalkBack
<1>6. CASE ChainEnds
    BY <1>6 DEF TypeOK, JoinCall, ChainEnds
<1>7. CASE Planned
    BY <1>7 DEF TypeOK, JoinCall, Planned
<1>q. QED BY <1>1, <1>2, <1>3, <1>4, <1>5, <1>6, <1>7 DEF JoinStep

\* The plan is being made for everything the query requires, over relationships
\* that lead from one entity to another.
JoinedInv ==
    /\ IInv
    /\ q.required \subseteq path.needed
    /\ \A rel \in path.edges : rel.from # rel.to

\* A plan is rendered if no step fans out; the rules rendered are those of its
\* entities, the standing ones among them.
RenderedInv ==
    /\ path.pc = "planned"
    /\ \A e \in Range(path.ordered) : ~FansOut(e)
    /\ standing \subseteq q.rules
    /\ q.rules \subseteq Included

CompileInv ==
    /\ CompilerTypeOK
    /\ q.pc \in {"required", "graph", "edges", "join", "compiled"} => q.measures # <<>>
    /\ q.pc \in {"graph", "edges", "join", "compiled"} =>
          Range(q.measures) \cup q.dimensions \subseteq q.required
    /\ q.pc \in {"graph", "edges", "join"} => standing \subseteq q.required
    /\ q.pc \in {"join", "compiled"} => JoinedInv
    /\ q.pc = "compiled" => RenderedInv

LEMMA CompileInit == Init => CompileInv
<1> SUFFICES ASSUME Init PROVE CompileInv
    OBVIOUS
<1>1. <<>> \in Seq(Entities)
    OBVIOUS
<1>q. QED BY <1>1, BoundsAssumption DEF Init, CompileInv, CompilerTypeOK, Compilation

LEMMA LoadKeeps ==
    ASSUME CompileInv, NEW n \in 0..MaxMeasures, NEW measures \in [1..n -> entities],
           NEW dimensions \in SUBSET entities, Load(measures, dimensions)
    PROVE  CompileInv'
<1>1. CompilerTypeOK /\ entities \subseteq Entities
    BY DEF CompileInv, CompilerTypeOK
<1>2. measures \in Seq(Entities)
    BY <1>1, BoundsAssumption
<1>3. /\ q' = [q EXCEPT !.pc = IF measures = <<>> THEN "failed" ELSE "required",
                        !.measures = measures, !.dimensions = dimensions]
      /\ UNCHANGED <<path, entities, relationships, active, standing, edits>>
    BY DEF Load, catalogue
<1>4. q'.pc = (IF measures = <<>> THEN "failed" ELSE "required") /\ q'.measures = measures
    BY <1>1, <1>3 DEF CompilerTypeOK, Compilation
<1>5. CompilerTypeOK'
    BY <1>1, <1>2, <1>3 DEF CompilerTypeOK, Compilation
<1>q. QED BY <1>4, <1>5 DEF CompileInv

LEMMA CollectKeeps == ASSUME CompileInv, CollectRequired PROVE CompileInv'
<1>1. CompilerTypeOK /\ active \subseteq Entities /\ Range(q.measures) \subseteq Entities
      /\ standing \subseteq active /\ q.measures # <<>>
  <2>1. CompilerTypeOK /\ q.measures \in Seq(Entities) /\ q.measures # <<>>
    BY DEF CompileInv, CompilerTypeOK, Compilation, CollectRequired
  <2>q. QED BY <2>1, RangeOfSequence DEF CompilerTypeOK
<1>2. /\ q' = [q EXCEPT !.pc = "graph", !.required = Range(q.measures) \cup q.dimensions \cup active]
      /\ UNCHANGED <<path, entities, relationships, active, standing, edits>>
    BY DEF CollectRequired, catalogue
<1>3. /\ q'.pc = "graph" /\ q'.measures = q.measures /\ q'.dimensions = q.dimensions
      /\ q'.required = Range(q.measures) \cup q.dimensions \cup active
    BY <1>1, <1>2 DEF CompilerTypeOK, Compilation
<1>4. CompilerTypeOK'
    BY <1>1, <1>2 DEF CompilerTypeOK, Compilation
<1>q. QED BY <1>1, <1>2, <1>3, <1>4 DEF CompileInv

LEMMA LoadEntitiesKeeps == ASSUME CompileInv, LoadEntities PROVE CompileInv'
<1>1. CompilerTypeOK
    BY DEF CompileInv
<1>2. /\ q.pc = "graph" /\ q' = [q EXCEPT !.pc = "edges", !.entities = entities]
      /\ UNCHANGED <<path, entities, relationships, active, standing, edits>>
    BY DEF LoadEntities, catalogue
<1>3. /\ q'.pc = "edges" /\ q'.measures = q.measures /\ q'.dimensions = q.dimensions
      /\ q'.required = q.required
    BY <1>1, <1>2 DEF CompilerTypeOK, Compilation
<1>4. CompilerTypeOK'
    BY <1>1, <1>2 DEF CompilerTypeOK, Compilation
<1>q. QED BY <1>2, <1>3, <1>4 DEF CompileInv

\* What the compiler passes to resolve_join_path() is a graph.
LEMMA LoadEdgesKeeps == ASSUME CompileInv, LoadEdges PROVE CompileInv'
<1>1. CompilerTypeOK /\ q \in Compilation /\ q.pc = "edges" /\ q.measures # <<>>
      /\ UNCHANGED <<entities, relationships, active, standing, edits>>
    BY DEF CompileInv, LoadEdges, catalogue, CompilerTypeOK
<1>2. CASE q' = [q EXCEPT !.pc = "error"]
  <2>1. q'.pc = "error"
    BY <1>1, <1>2 DEF Compilation
  <2>2. CompilerTypeOK'
    BY <1>1, <1>2 DEF CompilerTypeOK, Compilation
  <2>q. QED BY <2>1, <2>2 DEF CompileInv
<1>3. CASE /\ \A rel \in relationships : {rel.from, rel.to} \subseteq q.entities
           /\ q' = [q EXCEPT !.pc = "join"]
           /\ path' = Call(q.entities, relationships, Head(q.measures), q.required)
  <2>1. /\ q'.pc = "join" /\ q'.measures = q.measures /\ q'.dimensions = q.dimensions
        /\ q'.required = q.required
    BY <1>1, <1>3 DEF Compilation
  <2>2. CompilerTypeOK'
    BY <1>1, <1>3 DEF CompilerTypeOK, Compilation
  <2>3. /\ q.entities \in SUBSET Entities /\ q.required \in SUBSET Entities
        /\ Head(q.measures) \in Entities
        /\ relationships \in SUBSET Relationship
        /\ \A rel \in relationships : rel.from # rel.to
    BY <1>1, DeclarableAssumption DEF CompilerTypeOK, Compilation, ValidGraph
  <2>4. JoinInit'
    BY <1>3, <2>3 DEF JoinInit
  <2>5. IInv'
    <3>1. JoinInit' => IInv'
        BY InitInv, PTL
    <3>q. QED BY <2>4, <3>1
  <2>6. path'.needed = q.required \cup {Head(q.measures)} /\ path'.edges = relationships
    BY <1>3 DEF Call
  <2>7. JoinedInv'
    BY <2>1, <2>3, <2>5, <2>6 DEF JoinedInv
  <2>q. QED BY <1>1, <2>1, <2>2, <2>7 DEF CompileInv
<1>q. QED BY <1>2, <1>3 DEF LoadEdges

LEMMA JoinKeeps == ASSUME CompileInv, Join PROVE CompileInv'
<1>1. /\ CompilerTypeOK /\ JoinedInv /\ q.pc = "join"
      /\ JoinStep /\ UNCHANGED <<entities, relationships, active, q, standing, edits>>
    BY DEF CompileInv, Join, catalogue
<1>2. IInv'
    BY <1>1, StepKeeps DEF JoinedInv
<1>3. path'.needed = path.needed /\ path'.edges = path.edges
    BY <1>1, StepKeepsCall DEF JoinedInv, IInv
<1>4. JoinedInv' /\ CompilerTypeOK'
    BY <1>1, <1>2, <1>3 DEF JoinedInv, CompilerTypeOK
<1>q. QED BY <1>1, <1>4 DEF CompileInv

LEMMA RenderKeeps == ASSUME CompileInv, Render PROVE CompileInv'
<1>1. /\ CompilerTypeOK /\ JoinedInv /\ q.pc = "join" /\ q \in Compilation
      /\ UNCHANGED <<path, entities, relationships, active, standing, edits>>
      /\ standing \subseteq q.required /\ standing \subseteq active
    BY DEF CompileInv, Render, catalogue, CompilerTypeOK
<1>2. CASE q' = [q EXCEPT !.pc = "failed"]
  <2>1. q'.pc = "failed"
    BY <1>1, <1>2 DEF Compilation
  <2>2. CompilerTypeOK'
    BY <1>1, <1>2 DEF CompilerTypeOK, Compilation
  <2>q. QED BY <2>1, <2>2 DEF CompileInv
<1>3. CASE /\ path.pc = "planned"
           /\ \A e \in Range(path.ordered) : ~FansOut(e)
           /\ q' = [q EXCEPT !.pc = "compiled", !.rules = active \cap Included]
  <2>1. /\ q'.pc = "compiled" /\ q'.rules = active \cap Included
        /\ q'.measures = q.measures /\ q'.dimensions = q.dimensions /\ q'.required = q.required
    BY <1>1, <1>3 DEF Compilation
  <2>2. CompilerTypeOK'
    BY <1>1, <1>3 DEF CompilerTypeOK, Compilation
  <2>3. path.needed \subseteq Included
    BY <1>1, <1>3 DEF JoinedInv, IInv
  <2>4. Included' = Included /\ \A e : FansOut(e)' <=> FansOut(e)
    BY <1>1 DEF Included, FansOut
  <2>5. RenderedInv'
    BY <1>1, <1>3, <2>1, <2>3, <2>4 DEF RenderedInv, JoinedInv
  <2>6. JoinedInv'
    <3>1. IInv'
        BY <1>1, StutterKeeps DEF JoinedInv
    <3>q. QED BY <1>1, <2>1, <3>1 DEF JoinedInv
  <2>q. QED BY <1>1, <2>1, <2>2, <2>5, <2>6 DEF CompileInv
<1>q. QED BY <1>2, <1>3 DEF Render

\* A commit of the modeller changes nothing the compilation has read; the rules in
\* force ever since can only become fewer.
LEMMA CommitKeeps ==
    ASSUME CompileInv, CompilerTypeOK', UNCHANGED <<path, q>>, standing' \subseteq standing
    PROVE  CompileInv'
<1>1. JoinedInv => JoinedInv'
  <2>1. IInv => IInv'
    BY StutterKeeps
  <2>q. QED BY <2>1 DEF JoinedInv
<1>2. RenderedInv => RenderedInv'
  <2>1. Included' = Included /\ \A e : FansOut(e)' <=> FansOut(e)
    BY DEF Included, FansOut
  <2>q. QED BY <2>1 DEF RenderedInv
<1>q. QED BY <1>1, <1>2 DEF CompileInv

LEMMA EditKeeps == ASSUME CompileInv, Edit PROVE CompileInv'
<1>1. /\ q \in Compilation /\ entities \subseteq Entities /\ relationships \subseteq Declarable
      /\ ValidGraph(entities, relationships) /\ active \subseteq entities
      /\ standing \subseteq active /\ edits' \in 0..MaxEdits
    BY BoundsAssumption DEF CompileInv, CompilerTypeOK, Edit
<1>2. ASSUME NEW e \in Entities, AddEntity(e) PROVE CompileInv'
  <2>1. CompilerTypeOK'
    BY <1>1, <1>2 DEF AddEntity, CompilerTypeOK, ValidGraph
  <2>q. QED BY <1>2, <2>1, CommitKeeps DEF AddEntity
<1>3. ASSUME NEW e \in Entities, DropEntity(e) PROVE CompileInv'
  <2>1. /\ entities' = entities \ {e} /\ active' = active \ {e} /\ standing' = standing \ {e}
        /\ relationships' = {rel \in relationships : ~Incident(rel, e)} /\ UNCHANGED <<path, q>>
    BY <1>3 DEF DropEntity
  <2>2. ValidGraph(entities', relationships')
    BY <1>1, <2>1 DEF ValidGraph, Incident
  <2>3. CompilerTypeOK'
    BY <1>1, <2>1, <2>2 DEF CompilerTypeOK
  <2>q. QED BY <2>1, <2>3, CommitKeeps
<1>4. ASSUME NEW e \in Entities, ActivateRule(e) PROVE CompileInv'
  <2>1. CompilerTypeOK'
    BY <1>1, <1>4 DEF ActivateRule, CompilerTypeOK
  <2>q. QED BY <1>4, <2>1, CommitKeeps DEF ActivateRule
<1>5. ASSUME NEW e \in Entities, DeactivateRule(e) PROVE CompileInv'
  <2>1. CompilerTypeOK'
    BY <1>1, <1>5 DEF DeactivateRule, CompilerTypeOK
  <2>q. QED BY <1>5, <2>1, CommitKeeps DEF DeactivateRule
<1>6. ASSUME NEW rel \in Declarable, Relate(rel) PROVE CompileInv'
  <2>1. CompilerTypeOK'
    BY <1>1, <1>6 DEF Relate, CompilerTypeOK
  <2>q. QED BY <1>6, <2>1, CommitKeeps DEF Relate
<1>7. ASSUME NEW rel \in Declarable, Unrelate(rel) PROVE CompileInv'
  <2>1. CompilerTypeOK'
    BY <1>1, <1>7 DEF Unrelate, CompilerTypeOK, ValidGraph
  <2>q. QED BY <1>7, <2>1, CommitKeeps DEF Unrelate
<1>q. QED BY <1>2, <1>3, <1>4, <1>5, <1>6, <1>7 DEF Edit

LEMMA CompileStays == ASSUME CompileInv, UNCHANGED vars PROVE CompileInv'
<1>1. CompilerTypeOK'
    BY DEF CompileInv, CompilerTypeOK, vars, catalogue
<1>q. QED BY <1>1, CommitKeeps DEF vars

LEMMA CompileInvariant == Spec => []CompileInv
<1>1. ASSUME CompileInv, [Next]_vars PROVE CompileInv'
  <2>1. CASE \E n \in 0..MaxMeasures :
                \E measures \in [1..n -> entities], dimensions \in SUBSET entities :
                    Load(measures, dimensions)
    BY <1>1, <2>1, LoadKeeps
  <2>2. CASE CollectRequired
    BY <1>1, <2>2, CollectKeeps
  <2>3. CASE LoadEntities
    BY <1>1, <2>3, LoadEntitiesKeeps
  <2>4. CASE LoadEdges
    BY <1>1, <2>4, LoadEdgesKeeps
  <2>5. CASE Join
    BY <1>1, <2>5, JoinKeeps
  <2>6. CASE Render
    BY <1>1, <2>6, RenderKeeps
  <2>7. CASE Edit
    BY <1>1, <2>7, EditKeeps
  <2>8. CASE UNCHANGED vars
    BY <1>1, <2>8, CompileStays
  <2>q. QED BY <1>1, <2>1, <2>2, <2>3, <2>4, <2>5, <2>6, <2>7, <2>8 DEF Next, CompileStep
<1>q. QED BY <1>1, CompileInit, PTL DEF Spec

\* The locals of a compilation keep their types, and committed graphs stay valid.
THEOREM CompilationsAreTyped == Spec => []CompilerTypeOK
<1>1. CompileInv => CompilerTypeOK
    BY DEF CompileInv
<1>q. QED BY <1>1, CompileInvariant, PTL

\* A rule in force from the first statement of the compilation to the last is in
\* the SQL, however many modellers edit the model in between: the entity it is
\* about is required, so it is joined.
THEOREM StandingRulesAreApplied == Spec => []StandingRulesApply
<1>1. CompileInv => StandingRulesApply
    BY DEF CompileInv, RenderedInv, StandingRulesApply
<1>q. QED BY <1>1, CompileInvariant, PTL

\* Every column of the statement belongs to an entity that is joined.
THEOREM ColumnsAreJoined == Spec => []EveryColumnIsJoined
<1>1. CompileInv => EveryColumnIsJoined
  <2> SUFFICES ASSUME CompileInv, q.pc = "compiled"
               PROVE  Range(q.measures) \cup q.dimensions \cup q.rules \subseteq Included
    BY DEF EveryColumnIsJoined
  <2>1. /\ Range(q.measures) \cup q.dimensions \subseteq q.required
        /\ q.required \subseteq path.needed /\ path.pc = "planned" /\ q.rules \subseteq Included
    BY DEF CompileInv, JoinedInv, RenderedInv
  <2>2. path.needed \subseteq Included
    BY <2>1 DEF CompileInv, JoinedInv, IInv
  <2>q. QED BY <2>1, <2>2
<1>q. QED BY <1>1, CompileInvariant, PTL

\* The walk of an entity's ancestors, one parent at a time.
LEMMA AncestorsStep ==
    ASSUME path.parent \in [Entities -> Entities]
    PROVE  \A n \in Nat, e \in Entities :
              Ancestors[n][e] = IF e = path.root \/ n = 0
                                THEN {e} ELSE {e} \cup Ancestors[n - 1][path.parent[e]]
<1> DEFINE Climbs(s, k) == \A i \in 0..(k - 1) : s[i] # path.root /\ s[i + 1] = path.parent[s[i]]
           Above(e, n) == {x \in Entities : \E s \in [Nat -> Entities], k \in 0..n :
                              s[0] = e /\ s[k] = x /\ Climbs(s, k)}
           Climbed == [n \in Nat |-> [e \in Entities |-> Above(e, n)]]
<1>1. ASSUME NEW e \in Entities, NEW n \in Nat PROVE e \in Above(e, n)
  <2> DEFINE stay == [i \in Nat |-> e]
  <2>1. stay \in [Nat -> Entities] /\ stay[0] = e /\ Climbs(stay, 0) /\ 0 \in 0..n
    OBVIOUS
  <2> HIDE DEF stay, Climbs
  <2>q. QED BY <2>1
<1>2. ASSUME NEW e \in Entities, NEW n \in Nat, e = path.root \/ n = 0
      PROVE  Above(e, n) = {e}
  <2>1. ASSUME NEW s \in [Nat -> Entities], NEW k \in 0..n, s[0] = e, Climbs(s, k) PROVE s[k] = e
    <3>1. CASE k = 0
        BY <2>1, <3>1
    <3>2. CASE k # 0
      <4>1. 0 \in 0..(k - 1) /\ n # 0
        BY <3>2
      <4>q. QED BY <1>2, <2>1, <4>1
    <3>q. QED BY <3>1, <3>2
  <2> HIDE DEF Climbs
  <2>q. QED BY <1>1, <2>1
<1>3. ASSUME NEW e \in Entities, NEW n \in Nat, e # path.root, n # 0
      PROVE  Above(e, n) = {e} \cup Above(path.parent[e], n - 1)
  <2>1. ASSUME NEW s \in [Nat -> Entities], NEW k \in 0..n, s[0] = e, Climbs(s, k)
        PROVE  s[k] \in {e} \cup Above(path.parent[e], n - 1)
    <3>1. CASE k = 0
        BY <2>1, <3>1
    <3>2. CASE k # 0
      <4> DEFINE t == [i \in Nat |-> s[i + 1]]
      <4>1. k - 1 \in 0..(n - 1) /\ k - 1 \in Nat /\ (k - 1) + 1 = k
        BY <1>3, <3>2
      <4>2. t \in [Nat -> Entities] /\ \A i \in Nat : t[i] = s[i + 1]
        OBVIOUS
      <4> HIDE DEF t
      <4>3. t[0] = path.parent[e]
        <5>1. 0 \in 0..(k - 1)
            BY <3>2
        <5>q. QED BY <2>1, <4>2, <5>1
      <4>4. t[k - 1] = s[k] /\ s[k] \in Entities
        BY <4>1, <4>2
      <4>5. Climbs(t, k - 1)
        <5> SUFFICES ASSUME NEW i \in 0..((k - 1) - 1)
                     PROVE  t[i] # path.root /\ t[i + 1] = path.parent[t[i]]
            OBVIOUS
        <5>1. i + 1 \in 0..(k - 1) /\ i \in Nat /\ i + 1 \in Nat
            BY <3>2
        <5>q. QED BY <2>1, <4>2, <5>1
      <4> HIDE DEF Climbs
      <4>q. QED BY <4>1, <4>2, <4>3, <4>4, <4>5
    <3>q. QED BY <3>1, <3>2
  <2>2. ASSUME NEW s \in [Nat -> Entities], NEW k \in 0..(n - 1), s[0] = path.parent[e], Climbs(s, k)
        PROVE  s[k] \in Above(e, n)
    <3> DEFINE t == [i \in Nat |-> IF i = 0 THEN e ELSE s[i - 1]]
    <3>1. k + 1 \in 0..n /\ k + 1 \in Nat /\ k \in Nat
        BY <1>3
    <3>2. t \in [Nat -> Entities] /\ t[0] = e /\ \A i \in Nat : i # 0 => t[i] = s[i - 1]
        OBVIOUS
    <3> HIDE DEF t
    <3>3. t[k + 1] = s[k] /\ s[k] \in Entities
        BY <3>1, <3>2
    <3>4. Climbs(t, k + 1)
      <4> SUFFICES ASSUME NEW i \in 0..((k + 1) - 1)
                   PROVE  t[i] # path.root /\ t[i + 1] = path.parent[t[i]]
        OBVIOUS
      <4>1. CASE i = 0
        <5>1. t[1] = s[0]
            BY <3>2
        <5>q. QED BY <1>3, <2>2, <3>2, <4>1, <5>1
      <4>2. CASE i # 0
        <5>1. i - 1 \in 0..(k - 1) /\ (i - 1) + 1 = i /\ (i + 1) - 1 = i /\ i \in Nat /\ i + 1 \in Nat
            BY <3>1, <4>2
        <5>2. t[i] = s[i - 1] /\ t[i + 1] = s[i]
            BY <3>2, <4>2, <5>1
        <5>q. QED BY <2>2, <5>1, <5>2
      <4>q. QED BY <4>1, <4>2
    <3> HIDE DEF Climbs
    <3>q. QED BY <3>1, <3>2, <3>3, <3>4
  <2>3. e \in Above(e, n)
    BY <1>1
  <2> HIDE DEF Climbs
  <2>4. Above(e, n) \subseteq {e} \cup Above(path.parent[e], n - 1)
    BY <2>1
  <2>5. Above(path.parent[e], n - 1) \subseteq Above(e, n)
    BY <2>2
  <2>q. QED BY <2>3, <2>4, <2>5
<1> DEFINE Solves(f) == f = [n \in Nat |-> [e \in Entities |->
                  IF e = path.root \/ n = 0 THEN {e} ELSE {e} \cup f[n - 1][path.parent[e]]]]
<1> HIDE DEF Above
<1>4. Solves(Climbed)
  <2>1. ASSUME NEW n \in Nat
        PROVE  Climbed[n] = [e \in Entities |->
                  IF e = path.root \/ n = 0 THEN {e} ELSE {e} \cup Climbed[n - 1][path.parent[e]]]
    <3>1. \A m \in Nat, e \in Entities : Climbed[m][e] = Above(e, m)
        OBVIOUS
    <3>2. Climbed[n] = [e \in Entities |-> Climbed[n][e]]
        OBVIOUS
    <3> HIDE DEF Climbed
    <3>3. ASSUME NEW e \in Entities
          PROVE  Climbed[n][e] = IF e = path.root \/ n = 0
                                 THEN {e} ELSE {e} \cup Climbed[n - 1][path.parent[e]]
      <4>1. CASE e = path.root \/ n = 0
        BY <1>2, <3>1, <4>1
      <4>2. CASE e # path.root /\ n # 0
        <5>1. n - 1 \in Nat /\ path.parent[e] \in Entities
            BY <4>2
        <5>2. Climbed[n - 1][path.parent[e]] = Above(path.parent[e], n - 1)
            BY <3>1, <5>1
        <5>q. QED BY <1>3, <3>1, <4>2, <5>2
      <4>q. QED BY <4>1, <4>2
    <3>q. QED BY <3>2, <3>3
  <2>2. Climbed = [n \in Nat |-> Climbed[n]]
    OBVIOUS
  <2> HIDE DEF Climbed
  <2>q. QED BY <2>1, <2>2
<1> HIDE DEF Climbed
<1>5. Solves(Ancestors)
  <2>1. \E f : Solves(f)
    BY <1>4, Zenon
  <2>q. QED BY <2>1, Zenon DEF Ancestors
<1>6. ASSUME NEW n \in Nat, NEW e \in Entities
      PROVE  Ancestors[n][e] = IF e = path.root \/ n = 0
                               THEN {e} ELSE {e} \cup Ancestors[n - 1][path.parent[e]]
  <2>1. Ancestors[n] = [x \in Entities |-> IF x = path.root \/ n = 0
                            THEN {x} ELSE {x} \cup Ancestors[n - 1][path.parent[x]]]
    BY <1>5
  <2>q. QED BY <2>1
<1>q. QED BY <1>6

\* A query about one fact table is never compiled to SQL that counts its rows more
\* than once: a relationship that multiplied the root's rows would fan out.
THEOREM SingleFactsAreCountedOnce ==
    ASSUME IsFiniteSet(Entities) PROVE Spec => []SingleFactIsNotMultiplied
<1>1. CompileInv => SingleFactIsNotMultiplied
  <2> SUFFICES ASSUME CompileInv, q.pc = "compiled",
                      NEW x \in Range(path.ordered),
                      (IF IsAbove(x, path.root) THEN path.parent[x] ELSE x) \in ManySide(path.edge[x])
               PROVE  FALSE
    BY DEF SingleFactIsNotMultiplied, Multiplied
  <2>1. /\ IInv /\ TypeOK /\ OrderInv /\ ReachedInv /\ ~FansOut(x)
        /\ \A rel \in path.edges : rel.from # rel.to
    BY DEF CompileInv, JoinedInv, RenderedInv, IInv, Joining
  <2>2. x \in path.seen /\ x # path.root
    <3>1. Range(path.ordered) = {path.ordered[i] : i \in 1..Len(path.ordered)}
        BY <2>1, RangeOfSequence, Zenon DEF TypeOK, JoinCall
    <3>q. QED BY <2>1, <3>1 DEF OrderInv
  <2>3. ~IsAbove(x, path.root)
    <3>1. Cardinality(Entities) \in Nat /\ path.root \in Entities
          /\ path.parent \in [Entities -> Entities]
        BY <2>1, FS_CardinalityType DEF TypeOK, JoinCall
    <3>2. Ancestors[Cardinality(Entities)][path.root] = {path.root}
        BY <3>1, AncestorsStep
    <3>q. QED BY <2>2, <3>2 DEF IsAbove
  <2>4. path.edge[x] \in path.edges /\ path.edge[x] \in Relationship
    BY <2>1, <2>2 DEF ReachedInv, TypeOK, JoinCall
  <2>q. QED BY <2>1, <2>3, <2>4 DEF ManySide, FansOut, Relationship, Cardinalities
<1>q. QED BY <1>1, CompileInvariant, PTL


-----------------------------------------------------------------------------
(***************************************************************************)
(* The expansion of a metric, and its rendering.  The metrics seen so far  *)
(* are ranked in the order they were found in, which every edge followed   *)
(* obeys: so there is no cycle of edges, and as long as names have edges   *)
(* rendering never meets a metric of its own path.                         *)
(***************************************************************************)
Calls == [metric : Metrics, rest : SUBSET Objects]

ExpansionTypeOK ==
    /\ references \in [Metrics -> SUBSET Objects]
    /\ names \in [Metrics -> SUBSET Objects]
    /\ loaded \in SUBSET Objects
    /\ metric \in Metrics
    /\ stack \in Seq(Calls) /\ Len(stack) >= 1
    /\ seen \in SUBSET Metrics
    /\ found \in SUBSET Measures
    /\ joined \in SUBSET Measures
    /\ sql \in SUBSET Measures
    /\ stage \in {"expand", "render", "compiled", "refused", "failed", "raised"}

Rendering == {"render", "compiled", "failed", "raised"}

\* Some call for m has yet to look at t.
Left(m, t) == \E i \in 1..Len(stack) : stack[i].metric = m /\ t \in stack[i].rest

\* What was met is reached and was loaded, and what calls have left to do is theirs.
MetInv ==
    /\ metric \in seen
    /\ stage = "expand" => sql = {}
    /\ found \cup (seen \ {metric}) \subseteq Reached \cap loaded
    /\ stage = "expand" => \A i \in 1..Len(stack) :
          stack[i].metric \in seen /\ stack[i].rest \subseteq references[stack[i].metric]

\* The same of the rendering, along the names.
SpelledInv ==
    stage \in Rendering =>
        /\ found \subseteq joined
        /\ sql \subseteq Named \cap loaded \cap joined
        /\ \A i \in 1..Len(stack) :
              /\ stack[i].metric \in Named \cup {metric}
              /\ stack[i].rest \subseteq names[stack[i].metric]

\* The edges of what was seen lead on, but for those no call has looked at yet.
Discovered(rank, n) ==
    \A m \in seen :
        /\ rank[metric] <= rank[m] /\ rank[m] <= n
        /\ \A t \in references[m] :
              \/ Left(m, t)
              \/ t \in found
              \/ t \in seen /\ rank[m] < rank[t]

ExpandInv == stage = "expand" => \E rank \in [Metrics -> Nat], n \in Nat : Discovered(rank, n)

\* Once nothing is left, all edges lead on.
Ordered(rank, n) ==
    \A m \in seen :
        /\ rank[metric] <= rank[m] /\ rank[m] <= n
        /\ \A t \in references[m] : t \in found \/ (t \in seen /\ rank[m] < rank[t])

\* So do the calls of the rendering, if names have edges.
Climbs(rank) ==
    /\ \A i \in 1..Len(stack) : stack[i].metric \in seen
    /\ \A i, j \in 1..Len(stack) : i < j => rank[stack[i].metric] < rank[stack[j].metric]

OrderedInv ==
    stage \in Rendering =>
        \E rank \in [Metrics -> Nat], n \in Nat :
            Ordered(rank, n) /\ (NamesHaveEdges => Climbs(rank))

\* What rendering has visited, its calls have rendered or have left to do.
Visited(V) ==
    /\ metric \in V /\ V \ {metric} \subseteq loaded
    /\ \A i \in 1..Len(stack) : stack[i].metric \in V
    /\ \A m \in V : \A t \in names[m] : t \in sql \/ (t \in V /\ t \in loaded) \/ Left(m, t)

VisitedInv ==
    stage \in {"render", "compiled"} =>
        /\ \E V \in SUBSET Metrics : Visited(V)
        /\ stage = "compiled" => \A m, t : ~Left(m, t)

ExpansionInv ==
    /\ ExpansionTypeOK /\ MetInv /\ SpelledInv /\ ExpandInv /\ OrderedInv /\ VisitedInv
    /\ stage \in {"failed", "raised"} => ~NamesHaveEdges

\* What is reached along edges is closed, has what the metric refers to, and is the
\* least such set.
LEMMA ReachedIsLeast ==
    ASSUME metric \in Metrics, NEW edges \in [Metrics -> SUBSET Objects]
    PROVE  /\ edges[metric] \subseteq ReachedAlong(edges) /\ ReachedAlong(edges) \subseteq Objects
           /\ \A m \in ReachedAlong(edges) \cap Metrics : edges[m] \subseteq ReachedAlong(edges)
           /\ \A S \in SUBSET Objects :
                 edges[metric] \subseteq S /\ Closed(edges, S) => ReachedAlong(edges) \subseteq S
<1>2. edges[metric] \subseteq ReachedAlong(edges) /\ ReachedAlong(edges) \subseteq Objects
    BY DEF ReachedAlong
<1>3. ASSUME NEW m \in ReachedAlong(edges) \cap Metrics, NEW t \in edges[m]
      PROVE  t \in ReachedAlong(edges)
  <2>1. t \in Objects
    BY <1>3
  <2>2. ASSUME NEW S \in SUBSET Objects, edges[metric] \subseteq S, Closed(edges, S)
        PROVE  t \in S
    BY <1>3, <2>2 DEF ReachedAlong, Closed
  <2>q. QED BY <2>1, <2>2, Zenon DEF ReachedAlong
<1>4. ASSUME NEW S \in SUBSET Objects, edges[metric] \subseteq S, Closed(edges, S)
      PROVE  ReachedAlong(edges) \subseteq S
    BY <1>4, Zenon DEF ReachedAlong
<1>q. QED BY <1>2, <1>3, <1>4

LEMMA NamedIsLeast ==
    ASSUME ExpansionTypeOK
    PROVE  /\ \A m \in (Named \cup {metric}) \cap Metrics : names[m] \subseteq Named
           /\ \A S \in SUBSET Objects :
                 names[metric] \subseteq S /\ Closed(names, S) => Named \subseteq S
BY ReachedIsLeast DEF ExpansionTypeOK, Named

LEMMA EdgesAreReached ==
    ASSUME ExpansionTypeOK, MetInv, NEW m \in seen
    PROVE  references[m] \subseteq Reached
BY ReachedIsLeast DEF ExpansionTypeOK, MetInv, Reached

LEMMA TakenIs ==
    ASSUME ExpansionTypeOK, NEW t
    PROVE  /\ Taken(t) \in Seq(Calls) /\ Len(Taken(t)) = Len(stack)
           /\ \A i \in 1..Len(stack) :
                 /\ Taken(t)[i].metric = stack[i].metric
                 /\ Taken(t)[i].rest = IF i = Len(stack) THEN stack[i].rest \ {t} ELSE stack[i].rest
<1>1. stack \in Seq(Calls) /\ Len(stack) \in Nat /\ Len(stack) >= 1 /\ DOMAIN stack = 1..Len(stack)
    BY DEF ExpansionTypeOK
<1> DEFINE n == Len(stack)
           top == [stack[n] EXCEPT !.rest = @ \ {t}]
<1>2. n \in 1..Len(stack) /\ stack[n] \in Calls
    BY <1>1
<1>3. top \in Calls /\ top.metric = stack[n].metric /\ top.rest = stack[n].rest \ {t}
    BY <1>2 DEF Calls
<1>4. Taken(t) = [stack EXCEPT ![n] = top]
    BY <1>1, <1>2 DEF Taken
<1> HIDE DEF top, n
<1>5. [stack EXCEPT ![n] = top] \in Seq(Calls) /\ Len([stack EXCEPT ![n] = top]) = Len(stack)
    BY <1>1, <1>2, <1>3, ExceptSeq
<1>6. \A i \in 1..Len(stack) : Taken(t)[i] = IF i = n THEN top ELSE stack[i]
    BY <1>1, <1>4
<1>q. QED BY <1>3, <1>4, <1>5, <1>6 DEF n

\* After t was taken by the innermost call, that edge alone may be no longer left.
LEMMA AfterTaken ==
    ASSUME ExpansionTypeOK, NEW t, stack' = Taken(t), UNCHANGED graph
    PROVE  /\ stack' \in Seq(Calls) /\ Len(stack') >= 1 /\ Len(stack') = Len(stack)
           /\ \A i \in 1..Len(stack) :
                 stack'[i].metric = stack[i].metric /\ stack'[i].rest \subseteq stack[i].rest
           /\ \A m, u : Left(m, u) => Left(m, u)' \/ (m = Innermost.metric /\ u = t)
<1>1. Len(stack) \in Nat /\ Len(stack) >= 1
    BY DEF ExpansionTypeOK
<1>q. QED BY <1>1, TakenIs DEF Left, Innermost

\* The same if another call begins.
LEMMA AfterCall ==
    ASSUME ExpansionTypeOK, NEW t \in Metrics, NEW edges \in [Metrics -> SUBSET Objects],
           stack' = Append(Taken(t), Frame(t, edges)), UNCHANGED graph
    PROVE  /\ stack' \in Seq(Calls) /\ Len(stack') >= 1 /\ Len(stack') = Len(stack) + 1
           /\ \A i \in 1..Len(stack) :
                 stack'[i].metric = stack[i].metric /\ stack'[i].rest \subseteq stack[i].rest
           /\ stack'[Len(stack) + 1].metric = t /\ stack'[Len(stack) + 1].rest = edges[t]
           /\ \A m, u : Left(m, u) => Left(m, u)' \/ (m = Innermost.metric /\ u = t)
           /\ \A u \in edges[t] : Left(t, u)'
<1>1. Len(stack) \in Nat /\ Len(stack) >= 1
    BY DEF ExpansionTypeOK
<1>2. Frame(t, edges) \in Calls /\ Frame(t, edges).metric = t /\ Frame(t, edges).rest = edges[t]
    BY DEF Frame, Calls, ExpansionTypeOK
<1> DEFINE s == Taken(t)
<1>3. /\ s \in Seq(Calls) /\ Len(s) = Len(stack)
      /\ \A i \in 1..Len(stack) :
            /\ s[i].metric = stack[i].metric
            /\ s[i].rest = IF i = Len(stack) THEN stack[i].rest \ {t} ELSE stack[i].rest
    BY TakenIs
<1> HIDE DEF s
<1>4. /\ stack' \in Seq(Calls) /\ Len(stack') = Len(stack) + 1
      /\ \A i \in 1..Len(stack) : stack'[i] = s[i]
      /\ stack'[Len(stack) + 1] = Frame(t, edges)
    BY <1>1, <1>2, <1>3 DEF s
<1>5. \A i \in 1..Len(stack) : i \in 1..Len(stack')
    BY <1>1, <1>4
<1>6. Len(stack) + 1 \in 1..Len(stack')
    BY <1>1, <1>4
<1>7. \A m, u : Left(m, u) => Left(m, u)' \/ (m = Innermost.metric /\ u = t)
    BY <1>1, <1>3, <1>4, <1>5 DEF Left, Innermost
<1>8. \A u \in edges[t] : Left(t, u)'
    BY <1>2, <1>4, <1>6 DEF Left
<1>9. \A i \in 1..Len(stack) :
          stack'[i].metric = stack[i].metric /\ stack'[i].rest \subseteq stack[i].rest
    BY <1>3, <1>4
<1>q. QED BY <1>1, <1>2, <1>4, <1>7, <1>8, <1>9

\* A call that returns has nothing left.
LEMMA AfterReturn ==
    ASSUME ExpansionTypeOK, Len(stack) > 1, Innermost.rest = {}, stack' = Return
    PROVE  /\ stack' \in Seq(Calls) /\ Len(stack') >= 1 /\ Len(stack') = Len(stack) - 1
           /\ \A i \in 1..Len(stack') : stack'[i] = stack[i] /\ i \in 1..Len(stack)
           /\ \A m, u : Left(m, u) => Left(m, u)'
<1>1. stack \in Seq(Calls) /\ Len(stack) \in Nat
    BY DEF ExpansionTypeOK
<1>2. /\ stack' \in Seq(Calls) /\ Len(stack') = Len(stack) - 1
      /\ \A i \in 1..Len(stack') : stack'[i] = stack[i]
    BY <1>1, SubSeqProperties DEF Return
<1>3. \A i \in 1..Len(stack) : i \in 1..Len(stack') \/ i = Len(stack)
    BY <1>1, <1>2
<1>4. \A m, u : Left(m, u) => Left(m, u)'
    BY <1>2, <1>3 DEF Left, Innermost
<1>q. QED BY <1>1, <1>2, <1>4

LEMMA ReachedStays ==
    ASSUME UNCHANGED graph
    PROVE  Reached' = Reached /\ Named' = Named /\ NamesHaveEdges' = NamesHaveEdges
<1>1. Reached' = Reached /\ Named' = Named
    BY DEF Reached, Named, ReachedAlong, Closed, graph
<1>q. QED BY <1>1 DEF NamesHaveEdges, graph

LEMMA ExpansionInitInv == ExpansionInit => ExpansionInv
<1> SUFFICES ASSUME ExpansionInit PROVE ExpansionInv
    OBVIOUS
<1>1. /\ Frame(metric, references) \in Calls /\ Frame(metric, references).metric = metric
      /\ Frame(metric, references).rest = references[metric]
    BY DEF ExpansionInit, LoadedEdges, Frame, Calls
<1>2. /\ stack \in Seq(Calls) /\ Len(stack) = 1 /\ stack[1] = Frame(metric, references)
      /\ references \in [Metrics -> SUBSET Objects] /\ names \in [Metrics -> SUBSET Objects]
      /\ metric \in Metrics /\ joined = {}
      /\ seen = {metric} /\ found = {} /\ sql = {} /\ stage = "expand" /\ loaded \in SUBSET Objects
    BY <1>1 DEF ExpansionInit, LoadedEdges, Asked
<1>3. ExpansionTypeOK
    BY <1>2 DEF ExpansionTypeOK
<1>4. MetInv
    BY <1>1, <1>2 DEF MetInv
<1>5. ExpandInv
  <2> DEFINE rank == [m \in Metrics |-> 0]
  <2>1. rank \in [Metrics -> Nat] /\ 0 \in Nat /\ rank[metric] = 0
    BY <1>2
  <2>2. \A t \in references[metric] : Left(metric, t)
    BY <1>1, <1>2 DEF Left
  <2> HIDE DEF rank
  <2>3. Discovered(rank, 0)
    BY <1>2, <2>1, <2>2 DEF Discovered
  <2>q. QED BY <2>1, <2>3 DEF ExpandInv
<1>q. QED BY <1>2, <1>3, <1>4, <1>5 DEF ExpansionInv, SpelledInv, OrderedInv, VisitedInv, Rendering

\* A refusal is the end.
LEMMA RefusalKeeps ==
    ASSUME ExpansionInv, UNCHANGED <<graph, seen, found, sql>>, stage' = "refused",
           stack' \in Seq(Calls), Len(stack') >= 1, joined' \in SUBSET Measures
    PROVE  ExpansionInv'
<1>1. ExpansionTypeOK'
    BY DEF ExpansionInv, ExpansionTypeOK, graph
<1>2. MetInv'
    BY ReachedStays DEF ExpansionInv, MetInv, graph
<1>q. QED BY <1>1, <1>2 DEF ExpansionInv, SpelledInv, ExpandInv, OrderedInv, VisitedInv, Rendering

\* What the innermost call looks at is reached.
LEMMA InnermostIs ==
    ASSUME ExpansionInv, stage = "expand", NEW t \in Innermost.rest
    PROVE  /\ Innermost.metric \in seen /\ t \in references[Innermost.metric]
           /\ t \in Reached /\ Len(stack) \in Nat /\ Len(stack) >= 1
<1>1. Len(stack) \in Nat /\ Len(stack) >= 1 /\ ExpansionTypeOK /\ MetInv
    BY DEF ExpansionInv, ExpansionTypeOK
<1>2. Innermost.metric \in seen /\ t \in references[Innermost.metric]
    BY <1>1 DEF MetInv, Innermost
<1>q. QED BY <1>1, <1>2, EdgesAreReached

LEMMA ExpandMeasureKeeps ==
    ASSUME ExpansionInv, NEW t \in Objects, ExpandMeasure(t) PROVE ExpansionInv'
<1>1. CASE t \notin loaded
    BY <1>1, RefusalKeeps DEF ExpandMeasure, ExpansionInv, ExpansionTypeOK
<1>2. CASE t \in loaded
  <2>1. /\ ExpansionTypeOK /\ MetInv /\ ExpandInv
        /\ stage = "expand" /\ t \in Innermost.rest /\ t \in Measures /\ found' = found \cup {t}
        /\ stack' = Taken(t) /\ UNCHANGED <<graph, seen, joined, sql, stage>>
    BY <1>2 DEF ExpansionInv, ExpandMeasure
  <2>2. /\ stack' \in Seq(Calls) /\ Len(stack') >= 1 /\ Len(stack') = Len(stack)
        /\ \A i \in 1..Len(stack) :
              stack'[i].metric = stack[i].metric /\ stack'[i].rest \subseteq stack[i].rest
        /\ \A m, u : Left(m, u) => Left(m, u)' \/ (m = Innermost.metric /\ u = t)
    BY <2>1, AfterTaken
  <2>3. t \in Reached
    BY <2>1, InnermostIs
  <2>4. ExpansionTypeOK'
    BY <2>1, <2>2 DEF ExpansionTypeOK, graph
  <2>5. MetInv'
    BY <1>2, <2>1, <2>2, <2>3, ReachedStays DEF MetInv, graph
  <2>6. ExpandInv'
    <3>1. PICK rank \in [Metrics -> Nat], n \in Nat : Discovered(rank, n)
        BY <2>1 DEF ExpandInv
    <3>2. Discovered(rank, n)'
        BY <2>1, <2>2, <3>1 DEF Discovered, graph
    <3>q. QED BY <3>1, <3>2 DEF ExpandInv
  <2>q. QED BY <2>1, <2>4, <2>5, <2>6 DEF ExpansionInv, SpelledInv, OrderedInv, VisitedInv, Rendering
<1>q. QED BY <1>1, <1>2

LEMMA ExpandMetricKeeps ==
    ASSUME ExpansionInv, NEW t \in Objects, ExpandMetric(t) PROVE ExpansionInv'
<1>1. CASE t \in seen
    BY <1>1, RefusalKeeps DEF ExpandMetric, ExpansionInv, ExpansionTypeOK
<1>2. CASE t \notin seen
  <2>1. /\ ExpansionTypeOK /\ MetInv /\ ExpandInv
        /\ stage = "expand" /\ t \in Innermost.rest /\ t \in Metrics /\ t \in loaded
        /\ seen' = seen \cup {t}
        /\ stack' = Append(Taken(t), Frame(t, references))
        /\ UNCHANGED <<graph, found, joined, sql, stage>>
    BY <1>2 DEF ExpansionInv, ExpandMetric
  <2>2. /\ stack' \in Seq(Calls) /\ Len(stack') >= 1 /\ Len(stack') = Len(stack) + 1
        /\ \A i \in 1..Len(stack) :
              stack'[i].metric = stack[i].metric /\ stack'[i].rest \subseteq stack[i].rest
        /\ stack'[Len(stack) + 1].metric = t /\ stack'[Len(stack) + 1].rest = references[t]
        /\ \A m, u : Left(m, u) => Left(m, u)' \/ (m = Innermost.metric /\ u = t)
        /\ \A u \in references[t] : Left(t, u)'
    BY <2>1, AfterCall DEF ExpansionTypeOK
  <2>3. /\ t \in Reached /\ Len(stack) \in Nat
    BY <2>1, InnermostIs
  <2>4. ExpansionTypeOK'
    BY <2>1, <2>2 DEF ExpansionTypeOK, graph
  <2>5. MetInv'
    <3>1. \A i \in 1..Len(stack') : i \in 1..Len(stack) \/ i = Len(stack) + 1
        BY <2>2, <2>3
    <3>2. ASSUME NEW i \in 1..Len(stack')
          PROVE  stack'[i].metric \in seen' /\ stack'[i].rest \subseteq references[stack'[i].metric]
        BY <2>1, <2>2, <3>1 DEF MetInv
    <3>q. QED BY <2>1, <2>3, <3>2, ReachedStays DEF MetInv, graph
  <2>6. ExpandInv'
    <3>1. PICK rank \in [Metrics -> Nat], n \in Nat : Discovered(rank, n)
        BY <2>1 DEF ExpandInv
    <3> DEFINE ranked == [rank EXCEPT ![t] = n + 1]
    <3>2. /\ ranked \in [Metrics -> Nat] /\ n + 1 \in Nat /\ ranked[t] = n + 1
          /\ \A m \in seen : ranked[m] = rank[m] /\ rank[m] \in Nat
        BY <1>2, <2>1, <3>1 DEF ExpansionTypeOK
    <3> HIDE DEF ranked
    <3>3. \A m \in seen : ranked[m] < n + 1 /\ ranked[metric] <= ranked[m]
        BY <2>1, <3>1, <3>2 DEF Discovered, MetInv
    <3>4. ranked[metric] \in Nat /\ ranked[metric] <= n + 1
        BY <2>1, <3>2, <3>3 DEF MetInv
    <3>5. ASSUME NEW m \in seen, NEW u \in references[m]
          PROVE  Left(m, u)' \/ u \in found \/ (u \in seen' /\ ranked[m] < ranked[u])
        <4>1. Left(m, u) \/ u \in found \/ (u \in seen /\ rank[m] < rank[u])
            BY <3>1 DEF Discovered
        <4>2. CASE Left(m, u)
            BY <2>1, <2>2, <3>2, <3>3, <4>2
        <4>3. CASE u \in seen /\ rank[m] < rank[u]
            BY <2>1, <3>2, <4>3
        <4>q. QED BY <4>1, <4>2, <4>3
    <3>6. Discovered(ranked, n + 1)'
        <4> SUFFICES ASSUME NEW m \in seen'
                     PROVE  /\ ranked[metric] <= ranked[m] /\ ranked[m] <= n + 1
                            /\ \A u \in references[m] :
                                  Left(m, u)' \/ u \in found \/ (u \in seen' /\ ranked[m] < ranked[u])
            BY <2>1 DEF Discovered, graph
        <4>1. CASE m = t
            BY <2>2, <3>2, <3>4, <4>1
        <4>2. CASE m \in seen
            BY <3>2, <3>3, <3>5, <4>2
        <4>q. QED BY <2>1, <4>1, <4>2
    <3>q. QED BY <3>2, <3>6 DEF ExpandInv
  <2>q. QED BY <2>1, <2>4, <2>5, <2>6 DEF ExpansionInv, SpelledInv, OrderedInv, VisitedInv, Rendering
<1>q. QED BY <1>1, <1>2

\* When the outermost call returns, what is left is left by no call.
LEMMA ExpandReturnKeeps ==
    ASSUME ExpansionInv, ExpandReturn PROVE ExpansionInv'
<1>0. /\ ExpansionTypeOK /\ MetInv /\ ExpandInv /\ stage = "expand" /\ Innermost.rest = {}
      /\ UNCHANGED <<graph, seen, found, sql>> /\ Len(stack) \in Nat /\ Len(stack) >= 1
    BY DEF ExpansionInv, ExpandReturn, ExpansionTypeOK
<1>1. CASE Len(stack) > 1
  <2>1. stack' = Return /\ UNCHANGED <<joined, stage>>
    BY <1>1 DEF ExpandReturn
  <2>2. /\ stack' \in Seq(Calls) /\ Len(stack') >= 1
        /\ \A i \in 1..Len(stack') : stack'[i] = stack[i] /\ i \in 1..Len(stack)
        /\ \A m, u : Left(m, u) => Left(m, u)'
    BY <1>0, <1>1, <2>1, AfterReturn
  <2>3. ExpansionTypeOK'
    BY <1>0, <2>1, <2>2 DEF ExpansionTypeOK, graph
  <2>4. MetInv'
    BY <1>0, <2>1, <2>2, ReachedStays DEF MetInv, graph
  <2>5. ExpandInv'
    <3>1. PICK rank \in [Metrics -> Nat], n \in Nat : Discovered(rank, n)
        BY <1>0 DEF ExpandInv
    <3>2. Discovered(rank, n)'
        BY <1>0, <2>2, <3>1 DEF Discovered, graph
    <3>q. QED BY <3>1, <3>2 DEF ExpandInv
  <2>q. QED BY <1>0, <2>1, <2>3, <2>4, <2>5
            DEF ExpansionInv, SpelledInv, OrderedInv, VisitedInv, Rendering
<1>2. ASSUME Len(stack) = 1 PROVE ExpansionInv'
  <2>1. /\ joined' \in SUBSET Measures /\ found \subseteq joined'
        /\ stage' = (IF joined' = {} THEN "refused" ELSE "render")
        /\ stack' = <<Frame(metric, names)>>
    BY <1>2 DEF ExpandReturn
  <2>2. /\ Frame(metric, names) \in Calls /\ Frame(metric, names).metric = metric
        /\ Frame(metric, names).rest = names[metric] /\ metric \in Metrics
    BY <1>0 DEF Frame, Calls, ExpansionTypeOK
  <2>3. stack' \in Seq(Calls) /\ Len(stack') = 1 /\ stack'[1] = Frame(metric, names)
    BY <2>1, <2>2
  <2>a. CASE joined' = {}
    BY <1>0, <2>1, <2>3, <2>a, RefusalKeeps
  <2>b. CASE joined' # {}
    <3>0. stage' = "render"
        BY <2>1, <2>b
    <3>1. ExpansionTypeOK'
        BY <1>0, <2>1, <2>3, <3>0 DEF ExpansionTypeOK, graph
    <3>2. MetInv'
        BY <1>0, <3>0, ReachedStays DEF MetInv, graph
    <3>3. SpelledInv'
        BY <1>0, <2>1, <2>2, <2>3, ReachedStays DEF SpelledInv, MetInv, graph
    <3>4. \A m, u : ~Left(m, u)
        BY <1>0, <1>2 DEF Left, Innermost
    <3>5. OrderedInv'
      <4>1. PICK rank \in [Metrics -> Nat], n \in Nat : Discovered(rank, n)
        BY <1>0 DEF ExpandInv
      <4>2. Ordered(rank, n)'
        BY <1>0, <3>4, <4>1 DEF Discovered, Ordered, graph
      <4>3. Climbs(rank)'
        BY <1>0, <2>2, <2>3 DEF Climbs, MetInv
      <4>q. QED BY <4>1, <4>2, <4>3 DEF OrderedInv
    <3>6. VisitedInv'
      <4>1. sql = {}
        BY <1>0 DEF MetInv
      <4>2. \A t \in names[metric] : Left(metric, t)'
        BY <1>0, <2>2, <2>3 DEF Left, graph
      <4>3. Visited({metric})'
        BY <1>0, <2>2, <2>3, <4>2 DEF Visited, graph
      <4>q. QED BY <1>0, <2>2, <3>0, <4>3 DEF VisitedInv, graph
    <3>q. QED BY <3>0, <3>1, <3>2, <3>3, <3>5, <3>6 DEF ExpansionInv, ExpandInv
  <2>q. QED BY <2>a, <2>b
<1>q. QED BY <1>0, <1>1, <1>2

\* While rendering, every edge of what was seen leads to what is there: to a
\* measure that was found, or to a metric of a higher rank.
LEMMA EdgesLeadOn ==
    ASSUME ExpansionTypeOK, MetInv, NEW rank \in [Metrics -> Nat], NEW n \in Nat, Ordered(rank, n),
           NEW m \in seen, NEW t \in references[m]
    PROVE  /\ t \in loaded
           /\ t \in found \/ t \in seen
           /\ t \in Measures => t \in found
           /\ t \in Metrics => t \in seen \ {metric} /\ rank[m] < rank[t]
<1>1. /\ seen \subseteq Metrics /\ found \subseteq Measures /\ found \subseteq loaded
      /\ metric \in Metrics /\ \A u \in seen : u # metric => u \in loaded
    BY DEF ExpansionTypeOK, MetInv
<1>2. t \in found \/ (t \in seen /\ rank[m] < rank[t])
    BY DEF Ordered
<1>3. CASE t \in found
    BY <1>1, <1>3, KindsAssumption
<1>4. CASE t \in seen /\ rank[m] < rank[t]
  <2>1. rank[metric] <= rank[m]
    BY DEF Ordered
  <2>2. rank[m] \in Nat /\ rank[t] \in Nat /\ rank[metric] \in Nat
    BY <1>1, <1>4
  <2>3. t # metric
    BY <1>4, <2>1, <2>2
  <2>q. QED BY <1>1, <1>4, <2>3, KindsAssumption
<1>q. QED BY <1>2, <1>3, <1>4

\* What the innermost call renders is a name of a metric reached along the names.
LEMMA InnermostNames ==
    ASSUME ExpansionInv, stage = "render", NEW t \in Innermost.rest
    PROVE  /\ Innermost.metric \in Named \cup {metric} /\ t \in names[Innermost.metric]
           /\ t \in Named /\ Len(stack) \in Nat /\ Len(stack) >= 1
<1>1. /\ Len(stack) \in Nat /\ Len(stack) >= 1 /\ ExpansionTypeOK /\ SpelledInv
      /\ stack \in Seq(Calls) /\ stack[Len(stack)] \in Calls
    BY DEF ExpansionInv, ExpansionTypeOK
<1>2. Innermost.metric \in Named \cup {metric} /\ t \in names[Innermost.metric]
    BY <1>1 DEF SpelledInv, Innermost, Rendering
<1>3. Innermost.metric \in Metrics
    BY <1>1 DEF Innermost, Calls
<1>q. QED BY <1>1, <1>2, <1>3, NamedIsLeast

\* If names have edges, it is there: a measure whose entity is joined, or a metric
\* that ranks above all of the path.
LEMMA NamesLeadOn ==
    ASSUME ExpansionInv, stage = "render", NEW t \in Innermost.rest, NamesHaveEdges,
           NEW rank \in [Metrics -> Nat], NEW n \in Nat, Ordered(rank, n), Climbs(rank)
    PROVE  /\ t \in loaded
           /\ t \in Measures => t \in joined
           /\ t \in Metrics => /\ t \in seen
                               /\ \A i \in 1..Len(stack) : rank[stack[i].metric] < rank[t]
<1>0. /\ ExpansionTypeOK /\ MetInv /\ SpelledInv /\ found \subseteq joined
    BY DEF ExpansionInv, SpelledInv, Rendering
<1>1. Len(stack) \in Nat /\ Len(stack) >= 1 /\ t \in names[Innermost.metric]
    BY InnermostNames
<1>2. Innermost.metric \in seen
    BY <1>1 DEF Climbs, Innermost
<1>3. Innermost.metric \in (Reached \cup {metric}) \cap Metrics
    BY <1>0, <1>2 DEF MetInv, ExpansionTypeOK
<1>4. t \in references[Innermost.metric]
    BY <1>1, <1>3 DEF NamesHaveEdges
<1>5. /\ t \in loaded
      /\ t \in Measures => t \in found
      /\ t \in Metrics => t \in seen \ {metric} /\ rank[Innermost.metric] < rank[t]
    BY <1>0, <1>2, <1>4, EdgesLeadOn
<1>6. ASSUME t \in Metrics, NEW i \in 1..Len(stack) PROVE rank[stack[i].metric] < rank[t]
  <2>1. /\ rank[stack[i].metric] \in Nat /\ rank[t] \in Nat /\ rank[Innermost.metric] \in Nat
    BY <1>0, <1>2, <1>6 DEF Climbs, ExpansionTypeOK
  <2>2. CASE i = Len(stack)
    BY <1>5, <1>6, <2>2 DEF Innermost
  <2>3. CASE i < Len(stack)
    <3>1. rank[stack[i].metric] < rank[Innermost.metric]
        BY <1>1, <2>3 DEF Climbs, Innermost
    <3>q. QED BY <1>5, <1>6, <2>1, <3>1
  <2>q. QED BY <1>1, <2>2, <2>3
<1>q. QED BY <1>0, <1>5, <1>6

\* Rendering that fails, or raises, changes nothing else.
LEMMA FailureKeeps ==
    ASSUME ExpansionInv, stage = "render", UNCHANGED <<graph, stack, seen, found, joined, sql>>,
           stage' \in {"failed", "raised"}, ~NamesHaveEdges
    PROVE  ExpansionInv'
<1>1. ExpansionTypeOK'
    BY DEF ExpansionInv, ExpansionTypeOK, graph
<1>2. MetInv'
    BY ReachedStays DEF ExpansionInv, MetInv, graph
<1>3. SpelledInv'
    BY ReachedStays DEF ExpansionInv, SpelledInv, Rendering, graph
<1>4. ~NamesHaveEdges'
    BY ReachedStays
<1>5. PICK rank \in [Metrics -> Nat], n \in Nat : Ordered(rank, n)
    BY DEF ExpansionInv, OrderedInv, Rendering
<1>6. Ordered(rank, n)'
    BY <1>5 DEF Ordered, graph
<1>q. QED BY <1>1, <1>2, <1>3, <1>4, <1>5, <1>6 DEF ExpansionInv, ExpandInv, OrderedInv, VisitedInv

LEMMA RenderMeasureKeeps ==
    ASSUME ExpansionInv, NEW t \in Objects, RenderMeasure(t) PROVE ExpansionInv'
<1>0. /\ ExpansionTypeOK /\ MetInv /\ SpelledInv /\ OrderedInv /\ VisitedInv /\ stage = "render"
      /\ t \in Innermost.rest /\ (t \in Measures \/ t \notin loaded)
      /\ UNCHANGED <<graph, seen, found, joined>>
    BY DEF ExpansionInv, RenderMeasure
<1>1. PICK rank \in [Metrics -> Nat], n \in Nat :
          Ordered(rank, n) /\ (NamesHaveEdges => Climbs(rank))
    BY <1>0 DEF OrderedInv, Rendering
<1>2. CASE t \notin loaded \cap joined
  <2>1. UNCHANGED <<sql, stack>> /\ stage' \in {"failed", "raised"}
    BY <1>2 DEF RenderMeasure
  <2>2. ~NamesHaveEdges
    BY <1>0, <1>1, <1>2, NamesLeadOn
  <2>q. QED BY <1>0, <2>1, <2>2, FailureKeeps
<1>3. CASE t \in loaded \cap joined
  <2>0. sql' = sql \cup {t} /\ stack' = Taken(t) /\ stage' = "render" /\ t \in Measures
    BY <1>0, <1>3 DEF RenderMeasure
  <2>1. /\ stack' \in Seq(Calls) /\ Len(stack') >= 1 /\ Len(stack') = Len(stack)
        /\ \A i \in 1..Len(stack) :
              stack'[i].metric = stack[i].metric /\ stack'[i].rest \subseteq stack[i].rest
        /\ \A m, u : Left(m, u) => Left(m, u)' \/ (m = Innermost.metric /\ u = t)
    BY <1>0, <2>0, AfterTaken
  <2>2. t \in Named
    BY <1>0, InnermostNames
  <2>3. ExpansionTypeOK'
    BY <1>0, <2>0, <2>1 DEF ExpansionTypeOK, graph
  <2>4. MetInv'
    BY <1>0, <2>0, ReachedStays DEF MetInv, graph
  <2>5. SpelledInv'
    BY <1>0, <1>3, <2>0, <2>1, <2>2, ReachedStays DEF SpelledInv, Rendering, graph
  <2>6. OrderedInv'
    <3>1. Ordered(rank, n)'
        BY <1>0, <1>1 DEF Ordered, graph
    <3>2. ASSUME NamesHaveEdges PROVE Climbs(rank)'
      <4>1. Climbs(rank)
        BY <1>1, <3>2
      <4>q. QED BY <1>0, <2>1, <4>1 DEF Climbs
    <3>q. QED BY <1>0, <1>1, <3>1, <3>2, ReachedStays DEF OrderedInv
  <2>7. VisitedInv'
    <3>1. PICK V \in SUBSET Metrics : Visited(V)
        BY <1>0 DEF VisitedInv
    <3>2. Visited(V)'
        BY <1>0, <2>0, <2>1, <3>1 DEF Visited, graph
    <3>q. QED BY <2>0, <3>1, <3>2 DEF VisitedInv
  <2>q. QED BY <2>0, <2>3, <2>4, <2>5, <2>6, <2>7 DEF ExpansionInv, ExpandInv
<1>q. QED BY <1>2, <1>3

\* If names have edges, no metric of the path is met again: it ranks lower.
LEMMA RenderMetricKeeps ==
    ASSUME ExpansionInv, NEW t \in Objects, RenderMetric(t) PROVE ExpansionInv'
<1>0. /\ ExpansionTypeOK /\ MetInv /\ SpelledInv /\ OrderedInv /\ VisitedInv /\ stage = "render"
      /\ t \in Innermost.rest /\ t \in Metrics /\ t \in loaded
      /\ UNCHANGED <<graph, seen, found, joined, sql>>
    BY DEF ExpansionInv, RenderMetric
<1>1. PICK rank \in [Metrics -> Nat], n \in Nat :
          Ordered(rank, n) /\ (NamesHaveEdges => Climbs(rank))
    BY <1>0 DEF OrderedInv, Rendering
<1>2. t \in Named /\ Len(stack) \in Nat /\ Len(stack) >= 1 /\ DOMAIN stack = 1..Len(stack)
    BY <1>0, InnermostNames DEF ExpansionTypeOK
<1>3. NamesHaveEdges => /\ t \in seen
                        /\ \A i \in 1..Len(stack) : rank[stack[i].metric] < rank[t]
    BY <1>0, <1>1, NamesLeadOn
<1>4. CASE t \in OnPath
  <2>1. UNCHANGED stack /\ stage' = "failed"
    BY <1>4 DEF RenderMetric
  <2>2. ASSUME NamesHaveEdges PROVE FALSE
    <3>1. PICK i \in 1..Len(stack) : stack[i].metric = t
        BY <1>2, <1>4 DEF OnPath
    <3>2. rank[t] < rank[t] /\ rank[t] \in Nat
        BY <1>0, <1>3, <2>2, <3>1
    <3>q. QED BY <3>2
  <2>q. QED BY <1>0, <2>1, <2>2, FailureKeeps
<1>5. CASE t \notin OnPath
  <2>0. stack' = Append(Taken(t), Frame(t, names)) /\ stage' = "render"
    BY <1>0, <1>5 DEF RenderMetric
  <2>1. /\ stack' \in Seq(Calls) /\ Len(stack') >= 1 /\ Len(stack') = Len(stack) + 1
        /\ \A i \in 1..Len(stack) :
              stack'[i].metric = stack[i].metric /\ stack'[i].rest \subseteq stack[i].rest
        /\ stack'[Len(stack) + 1].metric = t /\ stack'[Len(stack) + 1].rest = names[t]
        /\ \A m, u : Left(m, u) => Left(m, u)' \/ (m = Innermost.metric /\ u = t)
        /\ \A u \in names[t] : Left(t, u)'
    BY <1>0, <2>0, AfterCall DEF ExpansionTypeOK
  <2>2. \A i \in 1..Len(stack') : i \in 1..Len(stack) \/ i = Len(stack) + 1
    BY <1>2, <2>1
  <2>3. ExpansionTypeOK'
    BY <1>0, <2>0, <2>1 DEF ExpansionTypeOK, graph
  <2>4. MetInv'
    BY <1>0, <2>0, ReachedStays DEF MetInv, graph
  <2>5. SpelledInv'
    <3>1. ASSUME NEW i \in 1..Len(stack')
          PROVE  /\ stack'[i].metric \in Named \cup {metric}
                 /\ stack'[i].rest \subseteq names[stack'[i].metric]
        BY <1>0, <1>2, <2>1, <2>2 DEF SpelledInv, Rendering
    <3>q. QED BY <1>0, <2>0, <3>1, ReachedStays DEF SpelledInv, Rendering, graph
  <2>6. OrderedInv'
    <3>1. Ordered(rank, n)'
        BY <1>0, <1>1 DEF Ordered, graph
    <3>2. ASSUME NamesHaveEdges PROVE Climbs(rank)'
      <4>1. ASSUME NEW i \in 1..Len(stack'), NEW j \in 1..Len(stack'), i < j
            PROVE  rank[stack'[i].metric] < rank[stack'[j].metric]
        <5>1. i \in 1..Len(stack)
            BY <1>2, <2>1, <2>2, <4>1
        <5>2. CASE j \in 1..Len(stack)
            BY <1>1, <2>1, <3>2, <4>1, <5>1, <5>2 DEF Climbs
        <5>3. CASE j = Len(stack) + 1
            BY <1>3, <2>1, <3>2, <5>1, <5>3
        <5>q. QED BY <2>2, <5>2, <5>3
      <4>2. \A i \in 1..Len(stack') : stack'[i].metric \in seen
        BY <1>1, <1>3, <2>1, <2>2, <3>2 DEF Climbs
      <4>q. QED BY <1>0, <4>1, <4>2 DEF Climbs
    <3>q. QED BY <1>0, <1>1, <3>1, <3>2, ReachedStays DEF OrderedInv
  <2>7. VisitedInv'
    <3>1. PICK V \in SUBSET Metrics : Visited(V)
        BY <1>0 DEF VisitedInv
    <3> DEFINE W == V \cup {t}
    <3>2. W \in SUBSET Metrics /\ metric \in W /\ W \ {metric} \subseteq loaded
        BY <1>0, <3>1 DEF Visited
    <3>3. \A i \in 1..Len(stack') : stack'[i].metric \in W
        BY <2>1, <2>2, <3>1 DEF Visited
    <3>4. ASSUME NEW m \in W, NEW u \in names[m]
          PROVE  u \in sql \/ (u \in W /\ u \in loaded) \/ Left(m, u)'
        BY <1>0, <2>1, <3>1, <3>4 DEF Visited
    <3> HIDE DEF W
    <3>5. Visited(W)'
        BY <1>0, <3>2, <3>3, <3>4 DEF Visited, graph
    <3>q. QED BY <1>0, <2>0, <3>2, <3>5 DEF VisitedInv
  <2>q. QED BY <2>0, <2>3, <2>4, <2>5, <2>6, <2>7 DEF ExpansionInv, ExpandInv
<1>q. QED BY <1>4, <1>5

LEMMA RenderReturnKeeps ==
    ASSUME ExpansionInv, RenderReturn PROVE ExpansionInv'
<1>0. /\ ExpansionTypeOK /\ MetInv /\ SpelledInv /\ OrderedInv /\ VisitedInv /\ stage = "render"
      /\ Innermost.rest = {} /\ UNCHANGED <<graph, seen, found, joined, sql>>
      /\ Len(stack) \in Nat /\ Len(stack) >= 1
    BY DEF ExpansionInv, RenderReturn, ExpansionTypeOK
<1>1. PICK rank \in [Metrics -> Nat], n \in Nat :
          Ordered(rank, n) /\ (NamesHaveEdges => Climbs(rank))
    BY <1>0 DEF OrderedInv, Rendering
<1>2. PICK V \in SUBSET Metrics : Visited(V)
    BY <1>0 DEF VisitedInv
<1>a. Ordered(rank, n)'
    BY <1>0, <1>1 DEF Ordered, graph
<1>3. CASE Len(stack) > 1
  <2>1. stack' = Return /\ UNCHANGED stage
    BY <1>3 DEF RenderReturn
  <2>2. /\ stack' \in Seq(Calls) /\ Len(stack') >= 1
        /\ \A i \in 1..Len(stack') : stack'[i] = stack[i] /\ i \in 1..Len(stack)
        /\ \A m, u : Left(m, u) => Left(m, u)'
    BY <1>0, <1>3, <2>1, AfterReturn
  <2>3. ExpansionTypeOK'
    BY <1>0, <2>1, <2>2 DEF ExpansionTypeOK, graph
  <2>4. MetInv'
    BY <1>0, <2>1, ReachedStays DEF MetInv, graph
  <2>5. SpelledInv'
    BY <1>0, <2>1, <2>2, ReachedStays DEF SpelledInv, Rendering, graph
  <2>6. NamesHaveEdges' => Climbs(rank)'
    BY <1>0, <1>1, <2>2, ReachedStays DEF Climbs
  <2>7. Visited(V)'
    BY <1>0, <1>2, <2>2 DEF Visited, graph
  <2>8. OrderedInv' /\ VisitedInv'
    BY <1>0, <1>1, <1>a, <2>1, <2>6, <2>7 DEF OrderedInv, VisitedInv
  <2>q. QED BY <1>0, <2>1, <2>3, <2>4, <2>5, <2>8 DEF ExpansionInv, ExpandInv
<1>4. CASE ~(Len(stack) > 1)
  <2>0. stage' = "compiled" /\ UNCHANGED stack
    BY <1>4, Zenon DEF RenderReturn
  <2>a. Len(stack) \in Nat /\ Len(stack) >= 1 /\ ~(Len(stack) > 1)
    BY <1>0, <1>4, Zenon
  <2>b. \A k \in Nat : k >= 1 /\ ~(k > 1) => k = 1
    OBVIOUS
  <2>1. stage' = "compiled" /\ UNCHANGED stack /\ Len(stack) = 1
    BY <2>0, <2>a, <2>b, Zenon
  <2>2. \A m, u : ~Left(m, u)'
    BY <1>0, <2>1 DEF Left, Innermost
  <2>3. ExpansionTypeOK'
    BY <1>0, <2>1 DEF ExpansionTypeOK, graph
  <2>4. MetInv'
    BY <1>0, <2>1, ReachedStays DEF MetInv, graph
  <2>5. SpelledInv'
    BY <1>0, <2>1, ReachedStays DEF SpelledInv, Rendering, graph
  <2>6. NamesHaveEdges' => Climbs(rank)'
    BY <1>0, <1>1, <2>1, ReachedStays DEF Climbs
  <2>7. Visited(V)'
    BY <1>0, <1>2, <2>1 DEF Visited, Left, graph
  <2>8. OrderedInv' /\ VisitedInv'
    BY <1>0, <1>1, <1>2, <1>a, <2>1, <2>2, <2>6, <2>7 DEF OrderedInv, VisitedInv
  <2>q. QED BY <2>1, <2>3, <2>4, <2>5, <2>8 DEF ExpansionInv, ExpandInv
<1>q. QED BY <1>3, <1>4

\* The inductive invariant of the expansion and the rendering.
LEMMA ExpansionInvariant == ExpansionSpec => []ExpansionInv
<1>1. ASSUME ExpansionInv, [ExpansionStep]_expansion PROVE ExpansionInv'
  <2>1. CASE UNCHANGED expansion
    <3>1. UNCHANGED <<graph, stack, seen, found, joined, sql, stage>>
        BY <2>1 DEF expansion
    <3>2. ExpansionTypeOK' /\ MetInv' /\ SpelledInv'
        BY <1>1, <3>1, ReachedStays DEF ExpansionInv, ExpansionTypeOK, MetInv, SpelledInv, graph
    <3>3. ExpandInv'
        BY <1>1, <3>1 DEF ExpansionInv, ExpandInv, Discovered, Left, graph
    <3>4. OrderedInv'
        BY <1>1, <3>1, ReachedStays DEF ExpansionInv, OrderedInv, Ordered, Climbs, graph
    <3>5. VisitedInv'
        BY <1>1, <3>1 DEF ExpansionInv, VisitedInv, Visited, Left, graph
    <3>q. QED BY <1>1, <3>1, <3>2, <3>3, <3>4, <3>5, ReachedStays DEF ExpansionInv
  <2>2. ASSUME NEW t \in Objects, ExpandMeasure(t) PROVE ExpansionInv'
    BY <1>1, <2>2, ExpandMeasureKeeps
  <2>3. ASSUME NEW t \in Objects, ExpandMetric(t) PROVE ExpansionInv'
    BY <1>1, <2>3, ExpandMetricKeeps
  <2>4. ASSUME NEW t \in Objects, RenderMeasure(t) PROVE ExpansionInv'
    BY <1>1, <2>4, RenderMeasureKeeps
  <2>5. ASSUME NEW t \in Objects, RenderMetric(t) PROVE ExpansionInv'
    BY <1>1, <2>5, RenderMetricKeeps
  <2>6. CASE ExpandReturn
    BY <1>1, <2>6, ExpandReturnKeeps
  <2>7. CASE RenderReturn
    BY <1>1, <2>7, RenderReturnKeeps
  <2>q. QED BY <1>1, <2>1, <2>2, <2>3, <2>4, <2>5, <2>6, <2>7 DEF ExpansionStep
<1>q. QED BY <1>1, ExpansionInitInv, PTL DEF ExpansionSpec

\* In rendering, what was met is what is reached: it is closed under references.
LEMMA FoundIsReached ==
    ASSUME ExpansionTypeOK, MetInv, NEW rank \in [Metrics -> Nat], NEW n \in Nat, Ordered(rank, n)
    PROVE  Reached = found \cup (seen \ {metric}) /\ Reached \subseteq loaded
<1> DEFINE S == found \cup (seen \ {metric})
<1>1. /\ references \in [Metrics -> SUBSET Objects] /\ metric \in seen
      /\ seen \subseteq Metrics /\ found \subseteq Measures /\ S \subseteq Reached /\ S \subseteq loaded
      /\ metric \in Metrics
    BY DEF ExpansionTypeOK, MetInv
<1>2. S \in SUBSET Objects
    BY <1>1 DEF Objects
<1>3. ASSUME NEW m \in seen, NEW t \in references[m] PROVE t \in S
  <2>1. t \in Objects
    BY <1>1, <1>3
  <2>2. (t \in Measures => t \in found) /\ (t \in Metrics => t \in seen \ {metric})
    BY <1>3, EdgesLeadOn, Zenon
  <2>q. QED BY <2>1, <2>2 DEF Objects
<1>4. references[metric] \subseteq S
    BY <1>1, <1>3
<1>5. Closed(references, S)
  <2>1. \A m \in S \cap Metrics : m \in seen
    BY <1>1, KindsAssumption
  <2>q. QED BY <1>3, <2>1 DEF Closed
<1> HIDE DEF S
<1>6. Reached \subseteq S
    BY <1>1, <1>2, <1>4, <1>5, ReachedIsLeast, Zenon DEF Reached
<1>q. QED BY <1>1, <1>6 DEF S

\* A set of metrics seen has one of the highest rank, whose edges leave the set.
LEMMA OrderedIsAcyclic ==
    ASSUME ExpansionTypeOK, MetInv, NEW rank \in [Metrics -> Nat], NEW n \in Nat, Ordered(rank, n)
    PROVE  ~Cyclic
<1> SUFFICES ASSUME NEW S \in SUBSET ((Reached \cup {metric}) \cap Metrics),
                    S # {}, \A m \in S : references[m] \cap S # {}
             PROVE  FALSE
    BY DEF Cyclic
<1>1. /\ metric \in seen /\ seen \subseteq Metrics /\ found \subseteq Measures
    BY DEF ExpansionTypeOK, MetInv
<1>2. S \subseteq seen
    BY <1>1, FoundIsReached, KindsAssumption
<1>3. \A m \in S : rank[m] \in Nat /\ rank[m] <= n
    BY <1>1, <1>2 DEF Ordered
<1> DEFINE Below(k) == \E m \in S : rank[m] = n - k
           Gaps == {k \in Nat : Below(k)}
<1>4. PICK m0 \in S : TRUE
    OBVIOUS
<1>5. n - rank[m0] \in Gaps
    BY <1>3, <1>4
<1>6. PICK k \in Gaps : \A j \in Gaps : k <= j
    BY <1>5, LeastOfNaturals
<1>7. PICK m \in S : rank[m] = n - k
    BY <1>6
<1>8. PICK t \in references[m] : t \in S
    OBVIOUS
<1>9. rank[m] < rank[t]
    BY <1>2, <1>7, <1>8, EdgesLeadOn
<1>10. n - rank[t] \in Gaps /\ n - rank[t] < k
    BY <1>3, <1>6, <1>7, <1>8, <1>9
<1>q. QED BY <1>6, <1>10

\* What rendering has visited when it ends is closed under names.
LEMMA SqlIsNamed ==
    ASSUME ExpansionTypeOK, SpelledInv, VisitedInv, stage = "compiled"
    PROVE  Named \subseteq loaded /\ sql = Named \cap Measures
<1>1. PICK V \in SUBSET Metrics : Visited(V)
    BY DEF VisitedInv
<1>2. \A m, t : ~Left(m, t)
    BY DEF VisitedInv
<1> DEFINE S == sql \cup (V \cap loaded)
<1>3. sql \subseteq Measures /\ sql \subseteq Named /\ sql \subseteq loaded
    BY DEF ExpansionTypeOK, SpelledInv, Rendering
<1>4. S \in SUBSET Objects
    BY <1>3 DEF Objects
<1>5. \A m \in V : names[m] \subseteq S
    BY <1>1, <1>2 DEF Visited
<1>6. names[metric] \subseteq S
    BY <1>1, <1>5 DEF Visited
<1>7. Closed(names, S)
    BY <1>3, <1>5, KindsAssumption DEF Closed
<1> HIDE DEF S
<1>8. Named \subseteq S
    BY <1>4, <1>6, <1>7, NamedIsLeast, Zenon
<1>q. QED BY <1>3, <1>8, KindsAssumption DEF S

\* For metrics and measures in any number, and edges and names of any shape: joins
\* are planned for what the edges reach, a statement mentions what the names stand for
\* and its entities are joined, and rendering fails only where a name has no edge.
THEOREM MetricsRenderWhatTheyJoin == ExpansionSpec => []SqlUsesJoinedMeasures
<1>1. ASSUME ExpansionInv PROVE SqlUsesJoinedMeasures
  <2>0. /\ ExpansionTypeOK /\ MetInv /\ SpelledInv /\ OrderedInv /\ VisitedInv
        /\ stage \in {"failed", "raised"} => ~NamesHaveEdges
    BY <1>1 DEF ExpansionInv
  <2>1. ASSUME stage \in Rendering
        PROVE  /\ ~Cyclic /\ Reached \subseteq loaded /\ found = Reached \cap Measures
               /\ sql \subseteq Named \cap joined
    <3>1. PICK rank \in [Metrics -> Nat], n \in Nat : Ordered(rank, n)
        BY <2>0, <2>1 DEF OrderedInv
    <3>2. Reached = found \cup (seen \ {metric}) /\ Reached \subseteq loaded
        BY <2>0, <3>1, FoundIsReached
    <3>3. ~Cyclic
        BY <2>0, <3>1, OrderedIsAcyclic, Zenon
    <3>4. found = Reached \cap Measures
        BY <2>0, <3>2, KindsAssumption DEF ExpansionTypeOK
    <3>5. sql \subseteq Named \cap joined
        BY <2>0, <2>1 DEF SpelledInv
    <3>q. QED BY <3>2, <3>3, <3>4, <3>5
  <2>2. ASSUME stage = "compiled" PROVE Named \subseteq loaded /\ sql = Named \cap Measures
    BY <2>0, <2>2, SqlIsNamed
  <2>q. QED BY <2>0, <2>1, <2>2, Zenon DEF SqlUsesJoinedMeasures, Rendering
<1>q. QED BY <1>1, ExpansionInvariant, PTL
=============================================================================
