------------------------------ MODULE QueryPlan ------------------------------
(***************************************************************************)
(* build() of app/services/query_ir.py: the filters and the time range of  *)
(* a resolved intent become typed values and two dates, or a list of       *)
(* problems.  The session reads dimensions in two statements and then the  *)
(* entity of each candidate, while modellers declare, change and drop      *)
(* dimensions and entities.  What it has read once it does not read again. *)
(***************************************************************************)
EXTENDS Timeframe, Sequences, FiniteSets

CONSTANTS
    Dimensions,
    EntityOf,      \* EntityOf[d]
    OfVersion,     \* the entities of the version asked about
    Declared,      \* what a dimension may be declared as
    Values,        \* value phrases
    ReadsAs,       \* ReadsAs[v]: the data types _coerce() can turn v into
    None,
    MaxEdits       \* bound: commits of modellers

VARIABLES
    dimensions,    \* dimensions[d]: the committed row, or None
    dropped,       \* ids that were of a row and never are again
    entities,      \* the committed entities
    edits,
    build          \* the locals of the call and what its session has read

model == <<dimensions, dropped, entities, edits>>

\* From fine to coarse.
GrainOrder == <<"day", "week", "month", "quarter", "year">>

DataTypes == {"string", "number", "boolean", "date", "timestamp"}

\* A row: granularity only of a temporal dimension.
Temporal(row) == row.data_type \in {"date", "timestamp"}

Dimension ==
    {row \in [data_type : DataTypes, granularity : Units \cup {None}] :
        row.granularity # None => Temporal(row)}

ASSUME DeclaredAssumption == Declared \subseteq Dimension
ASSUME NoneAssumption == None \notin Dimensions /\ None \notin Declared /\ None \notin Units

Owners == {EntityOf[d] : d \in Dimensions}

\* A filter phrase, its field resolved: does the operator take a list?
Filters == [dimension : Dimensions, set : BOOLEAN, values : Seq(Values)]

Reasons == {"not loaded", "no value", "several values", "not a value",
            "phrase", "dimension", "grain"}

\* A problem is about the filter of that number, or about the time range (0).
Problem(about, what) == [about |-> about, what |-> what]

\* The call, for an intent all of whose phrases were resolved.
Build(filters, grouped, phrase, today) ==
    [pc         |-> "load",
     filters    |-> filters,
     grouped    |-> grouped,                         \* query.dimension_ids
     phrase     |-> phrase,                          \* intent.time_range, or None
     today      |-> today,
     read       |-> [d \in Dimensions |-> None],     \* rows as the session first read them
     next       |-> 1,
     problems   |-> {},
     made       |-> <<>>,                            \* query.filters
     time       |-> None,                            \* query.time_dimension_id
     range      |-> None,                            \* query.time_range, and its grain
     pending    |-> {},                              \* candidates, owner not yet looked at
     owners     |-> {},                              \* entities the session has read
     candidates |-> {},
     temporal   |-> {}]                              \* History: all there were to pick from

-----------------------------------------------------------------------------
Fields(filters) == {filters[i].dimension : i \in DOMAIN filters}

\* Dimension.id.in_(...): the dimensions and the fields of the filters that still
\* exist.
Load ==
    LET asked == build.grouped \cup Fields(build.filters)
    IN  /\ build.pc = "load"
        /\ build' = [build EXCEPT
               !.pc = "filters",
               !.read = [d \in Dimensions |-> IF d \in asked THEN dimensions[d] ELSE None]]
        /\ UNCHANGED model

Readable(values, row) == \A i \in DOMAIN values : row.data_type \in ReadsAs[values[i]]

\* What is wrong with a filter, the first that is.
Wrong(f) ==
    LET row == build.read[f.dimension]
    IN  CASE row = None -> {"not loaded"}
          [] row # None /\ f.values = <<>> -> {"no value"}
          [] row # None /\ Len(f.values) > 1 /\ ~f.set -> {"several values"}
          [] row # None /\ f.values # <<>> /\ (Len(f.values) = 1 \/ f.set)
                /\ ~Readable(f.values, row) -> {"not a value"}
          [] OTHER -> {}

\* Mutation of Filter: the first problem ends the loop.
FilterToFirstProblem ==
    LET f == build.filters[build.next]
    IN  /\ build.pc = "filters"
        /\ build.next <= Len(build.filters)
        /\ build' = [build EXCEPT
               !.next = IF Wrong(f) = {} THEN @ + 1 ELSE Len(build.filters) + 1,
               !.problems = @ \cup {Problem(build.next, w) : w \in Wrong(f)},
               !.made = IF Wrong(f) = {} THEN Append(@, f) ELSE @]
        /\ UNCHANGED model

\* One turn of the loop.
Filter ==
    LET f == build.filters[build.next]
    IN  /\ build.pc = "filters"
        /\ build.next <= Len(build.filters)
        /\ build' = [build EXCEPT
               !.next = @ + 1,
               !.problems = @ \cup {Problem(build.next, w) : w \in Wrong(f)},
               !.made = IF Wrong(f) = {} THEN Append(@, f) ELSE @]
        /\ UNCHANGED model

\* The result: a query only if there is no problem.
Outcome(problems) == IF problems = {} THEN "built" ELSE "refused"

ResolveTimeRange ==
    LET resolved == ResolveTimeframe(build.phrase, build.today)
    IN  /\ build.pc = "filters"
        /\ build.next = Len(build.filters) + 1
        /\ CASE build.phrase = None ->
                  build' = [build EXCEPT !.pc = Outcome(build.problems)]
             [] build.phrase # None /\ resolved.status = "refused" ->
                  build' = [build EXCEPT !.pc = "refused", !.problems = @ \cup {Problem(0, "phrase")}]
             [] build.phrase # None /\ resolved.status = "raised" ->
                  build' = [build EXCEPT !.pc = "raised"]
             [] build.phrase # None /\ resolved.status = "range" ->
                  build' = [build EXCEPT !.pc = "candidates"]
        /\ UNCHANGED model

\* _pick_time_dimension(): the temporal dimensions of every version.
Candidates ==
    LET found == {d \in Dimensions : dimensions[d] # None /\ Temporal(dimensions[d])}
    IN  /\ build.pc = "candidates"
        /\ build' = [build EXCEPT
               !.pc = "owners",
               !.pending = found,
               !.read = [d \in Dimensions |->
                   IF d \in found /\ build.read[d] = None THEN dimensions[d] ELSE build.read[d]],
               !.temporal = {d \in found : EntityOf[d] \in OfVersion}]
        /\ UNCHANGED model

\* dimension.entity, a statement unless the session has the entity; None, and so
\* an AttributeError, if it is gone by now.
Owner(d) ==
    LET e == EntityOf[d]
    IN  /\ build.pc = "owners"
        /\ d \in build.pending
        /\ build' = IF e \notin entities \cup build.owners
                    THEN [build EXCEPT !.pc = "raised"]
                    ELSE [build EXCEPT
                            !.pending = @ \ {d},
                            !.owners = @ \cup {e},
                            !.candidates = @ \cup (IF e \in OfVersion THEN {d} ELSE {})]
        /\ UNCHANGED model

\* _finer()
Finer(requested, available) ==
    \E i, j \in DOMAIN GrainOrder :
        i < j /\ GrainOrder[i] = requested /\ GrainOrder[j] = available

Picked(d) ==
    LET range    == ResolveTimeframe(build.phrase, build.today).range
        recorded == build.read[d].granularity
        problems == build.problems \cup
            IF recorded # None /\ Finer(range.grain, recorded) THEN {Problem(0, "grain")} ELSE {}
    IN  [build EXCEPT !.pc = Outcome(problems),
                      !.problems = problems,
                      !.time = d,
                      !.range = range]

\* Mutation of PickTimeDimension: the first of several is taken.
PickAny ==
    /\ build.pc = "owners"
    /\ build.pending = {}
    /\ build' = IF build.candidates # {}
                THEN Picked(CHOOSE d \in build.candidates : TRUE)
                ELSE [build EXCEPT !.pc = "refused", !.problems = @ \cup {Problem(0, "dimension")}]
    /\ UNCHANGED model

\* None, several, or the one to filter on.
PickTimeDimension ==
    /\ build.pc = "owners"
    /\ build.pending = {}
    /\ build' = IF Cardinality(build.candidates) = 1
                THEN Picked(CHOOSE d \in build.candidates : TRUE)
                ELSE [build EXCEPT !.pc = "refused", !.problems = @ \cup {Problem(0, "dimension")}]
    /\ UNCHANGED model

BuildStep ==
    \/ Load \/ Filter \/ ResolveTimeRange \/ Candidates \/ PickTimeDimension
    \/ \E d \in Dimensions : Owner(d)

-----------------------------------------------------------------------------
\* Modellers.
Edited == edits < MaxEdits /\ edits' = edits + 1 /\ UNCHANGED build

\* A dimension is declared, or declared to be of another kind.
Declare(d) ==
    /\ d \notin dropped
    /\ EntityOf[d] \in entities
    /\ \E row \in Declared \ {dimensions[d]} : dimensions' = [dimensions EXCEPT ![d] = row]
    /\ UNCHANGED <<dropped, entities>>
    /\ Edited

DropDimension(d) ==
    /\ dimensions[d] # None
    /\ dimensions' = [dimensions EXCEPT ![d] = None]
    /\ dropped' = dropped \cup {d}
    /\ UNCHANGED entities
    /\ Edited

\* With its dimensions.
DropEntity(e) ==
    LET its == {d \in Dimensions : EntityOf[d] = e}
    IN  /\ e \in entities
        /\ entities' = entities \ {e}
        /\ dimensions' = [d \in Dimensions |-> IF d \in its THEN None ELSE dimensions[d]]
        /\ dropped' = dropped \cup its
        /\ Edited

Modeller ==
    \/ \E d \in Dimensions : Declare(d) \/ DropDimension(d)
    \/ \E e \in Owners : DropEntity(e)

Built == build.pc \in {"built", "refused", "raised"}

\* Nobody cares for edits after the call.
BuildNext == BuildStep \/ (~Built /\ Modeller)

\* What a question is resolved to was indexed once: it is declared or dropped.
BuildInit ==
    /\ dimensions \in [Dimensions -> Declared \cup {None}]
    /\ dropped \in SUBSET {d \in Dimensions : dimensions[d] = None}
    /\ entities = Owners
    /\ edits = 0
    /\ \E filters \in Seq(Filters), grouped \in SUBSET Dimensions,
           phrase \in Phrases(Nat) \cup {None}, today \in Calendar :
        /\ \A d \in grouped \cup Fields(filters) : dimensions[d] # None \/ d \in dropped
        /\ build = Build(filters, grouped, phrase, today)

BuildSpec == BuildInit /\ [][BuildNext]_<<model, build>>

-----------------------------------------------------------------------------
\* Properties.

Steps == {"load", "filters", "candidates", "owners", "built", "refused", "raised"}

Ranges == {ResolveTimeframe(phrase, today).range : phrase \in Phrases(Nat), today \in Calendar}

\* The rows, and what the call holds, are of their types.
PlanTypeOK ==
    /\ dimensions \in [Dimensions -> Declared \cup {None}]
    /\ dropped \subseteq Dimensions
    /\ build \in
          [pc : Steps, filters : Seq(Filters), grouped : SUBSET Dimensions,
           phrase : Phrases(Nat) \cup {None}, today : Calendar, read : [Dimensions -> Declared \cup {None}],
           next : Nat, problems : SUBSET [about : Nat, what : Reasons], made : Seq(Filters),
           time : Dimensions \cup {None},
           range : Ranges \cup {None},
           pending : SUBSET Dimensions, owners : SUBSET Owners,
           candidates : SUBSET Dimensions, temporal : SUBSET Dimensions]

Bad(f) ==
    LET row == build.read[f.dimension]
    IN  row = None \/ f.values = <<>> \/ (~f.set /\ Len(f.values) > 1) \/ ~Readable(f.values, row)

\* All or every problem.  A plan restricts what the question restricts: every
\* filter phrase is in it, in order, compared with values of the type its dimension
\* had when it was read, and the range if one was asked for.  "Reports every problem
\* it finds": if there is no plan every filter that is wrong is named, and no other.
PlanOrEveryProblem ==
    /\ build.pc = "built" =>
          /\ build.made = build.filters
          /\ \A i \in DOMAIN build.made : ~Bad(build.made[i])
          /\ build.phrase = None <=> build.time = None
    /\ build.pc = "refused" =>
          /\ \A i \in DOMAIN build.filters :
                Bad(build.filters[i]) <=> \E p \in build.problems : p.about = i
          /\ build.problems # {}

\* "Ambiguity is reported, never resolved by picking the first": the dimension a
\* plan filters time on was the only temporal one of the version when they were
\* read, whatever modellers did meanwhile, and is recorded finely enough.
TimeDimensionWasTheOnlyOne ==
    build.pc = "built" /\ build.time # None =>
        /\ build.temporal = {build.time}
        /\ ~Finer(build.range.grain, build.read[build.time].granularity)

\* The range of a plan is the periods its phrase names, to the day, seen from the
\* day of the call.
RangesAreWhole == build.range # None => RangeIsWhole(build.range, build.phrase, build.today)

\* "rather than raising": does not hold, for a count of months that leaves the
\* calendar, and for an entity dropped before it is read.
BuildNeverRaises == build.pc # "raised"
=============================================================================
