-------------------------- MODULE EngineCacheProofs --------------------------
(***************************************************************************)
(* What holds of EngineCache for any threads, data sources and sizes of    *)
(* the cache, and for any number of edits.                                 *)
(***************************************************************************)
EXTENDS EngineCache, FiniteSetTheorems, TLAPS

-----------------------------------------------------------------------------
(***************************************************************************)
(* The inductive invariant, in parts that each serve one property.         *)
(***************************************************************************)

Entry == [key : Sources \X (0..MaxClock), engine : Engine]

Holding == {"put", "trim", "evict", "use"}

\* Entries are under the key of their engine, one to a key; so are the engines
\* threads hold.
EntriesInv ==
    /\ \A i \in DOMAIN engines : engines[i].key = CacheKey(engines[i].engine.details)
    /\ \A i, j \in DOMAIN engines : engines[i].key = engines[j].key => i = j

ThreadInv(t) ==
    IF call[t].pc \in Holding
    THEN /\ call[t].engine \in Engine
         /\ CacheKey(call[t].engine.details) = CacheKey(call[t].details)
    ELSE call[t].pc # "key_error" => call[t].engine = NoEngine

KeysInv == EntriesInv /\ \A t \in Threads : ThreadInv(t)

\* An engine about to be put is out of the cache, open, and one thread's alone.
OpenInv ==
    /\ Cached \cap disposed = {}
    /\ disposed \subseteq Referenced
    /\ \A t \in Threads : call[t].pc = "put" =>
          /\ call[t].engine \notin Cached \cup disposed
          /\ \A u \in Threads \ {t} : call[u].pc = "put" => call[u].engine # call[t].engine

\* The keys of the cache and of the engines about to be put into it.
Putting == {t \in Threads : call[t].pc = "put"}

Evicting == {t \in Threads : call[t].pc = "evict"}

Keys == {engines[i].key : i \in DOMAIN engines} \cup {CacheKey(call[t].details) : t \in Putting}

\* When a thread last found the cache too large there were more than MaxCached
\* keys; since then each thread that is no longer evicting has taken one at most.
PlacesInv ==
    Evicting # {} =>
        Cardinality(Keys) + Cardinality(Threads) >= MaxCached + 1 + Cardinality(Evicting)

\* The first transaction that edits a data source is number 1, its first change
\* number 1; before both, everything is 0.
Numbered(d) == d.change = 0 <=> d.updated_at = 0

DetailsInv ==
    /\ \A s \in Sources : Numbered(row[s])
    /\ edit.open => Numbered(edit.details) /\ edit.details.change # 0
    /\ \A t \in Threads : Numbered(call[t].details)
    /\ \A i \in DOMAIN engines : Numbered(engines[i].engine.details)
    /\ \A t \in Threads : call[t].pc \in Holding => Numbered(call[t].engine.details)

IInv == TypeOK /\ KeysInv /\ OpenInv /\ DetailsInv

-----------------------------------------------------------------------------
\* r is what is left of q without its i-th entry: at[j] is where r[j] was.
IsWithout(r, q, i) ==
    /\ Len(r) = Len(q) - 1
    /\ \E at \in [DOMAIN r -> DOMAIN q] :
          /\ \A j \in DOMAIN r : at[j] # i /\ r[j] = q[at[j]]
          /\ \A j, k \in DOMAIN r : at[j] = at[k] => j = k
          /\ \A k \in DOMAIN q : k # i => \E j \in DOMAIN r : at[j] = k

\* A sequence that skips the i-th entry of q is q without it.
LEMMA ShiftedIsWithout ==
  ASSUME NEW T, NEW q \in Seq(T), NEW i \in 1..Len(q), NEW r \in Seq(T),
         Len(r) = Len(q) - 1,
         \A j \in 1..(Len(q) - 1) : r[j] = IF j < i THEN q[j] ELSE q[j + 1]
  PROVE  IsWithout(r, q, i)
<1> DEFINE at == [j \in DOMAIN r |-> IF j < i THEN j ELSE j + 1]
<1>1. Len(q) \in Nat /\ DOMAIN q = 1..Len(q) /\ DOMAIN r = 1..(Len(q) - 1)
  OBVIOUS
<1>2. at \in [DOMAIN r -> DOMAIN q]
  BY <1>1
<1>3. \A j \in DOMAIN r : at[j] # i /\ r[j] = q[at[j]]
  BY <1>1
<1>4. \A j, k \in DOMAIN r : at[j] = at[k] => j = k
  BY <1>1
<1>5. ASSUME NEW k \in DOMAIN q, k # i PROVE \E j \in DOMAIN r : at[j] = k
  <2> DEFINE j == IF k < i THEN k ELSE k - 1
  <2>1. j \in DOMAIN r /\ at[j] = k
    BY <1>1, <1>5
  <2> QED BY <2>1
<1> HIDE DEF at
<1> QED BY <1>2, <1>3, <1>4, <1>5 DEF IsWithout

\* The dict after a pop of the entry at i.
LEMMA RemoveAtIsWithout ==
  ASSUME NEW T, NEW q \in Seq(T), NEW i \in DOMAIN q
  PROVE  RemoveAt(q, i) \in Seq(T) /\ IsWithout(RemoveAt(q, i), q, i)
<1>1. i \in 1..Len(q) /\ Len(q) \in Nat
  OBVIOUS
<1> DEFINE a == SubSeq(q, 1, i - 1)
           b == SubSeq(q, i + 1, Len(q))
           r == RemoveAt(q, i)
<1>2. /\ a \in Seq(T) /\ Len(a) = i - 1
      /\ \A j \in 1..(i - 1) : a[j] = q[j]
  BY <1>1
<1>3. /\ b \in Seq(T) /\ Len(b) = Len(q) - i
      /\ \A j \in 1..(Len(q) - i) : b[j] = q[i + j]
  BY <1>1
<1>4. r = a \o b
  BY DEF RemoveAt
<1> HIDE DEF a, b, r
<1>5. r \in Seq(T) /\ Len(r) = Len(q) - 1
  BY <1>1, <1>2, <1>3, <1>4
<1>6. ASSUME NEW j \in 1..(Len(q) - 1) PROVE r[j] = IF j < i THEN q[j] ELSE q[j + 1]
  <2>1. r[j] = IF j <= i - 1 THEN a[j] ELSE b[j - (i - 1)]
    BY <1>1, <1>2, <1>3, <1>4
  <2>2. CASE j < i
    BY <1>1, <1>2, <2>1, <2>2
  <2>3. CASE ~(j < i)
    <3>1. j - (i - 1) \in 1..(Len(q) - i) /\ i + (j - (i - 1)) = j + 1
      BY <1>1, <2>3
    <3> QED BY <1>1, <1>3, <2>1, <2>3, <3>1
  <2> QED BY <2>2, <2>3
<1>7. IsWithout(r, q, i)
  BY <1>1, <1>5, <1>6, ShiftedIsWithout
<1> QED BY <1>5, <1>7 DEF r

\* The dict after popitem(last=False).
LEMMA TailIsWithout ==
  ASSUME NEW T, NEW q \in Seq(T), q # <<>>
  PROVE  Tail(q) \in Seq(T) /\ IsWithout(Tail(q), q, 1) /\ 1 \in DOMAIN q /\ Head(q) = q[1]
<1>1. /\ Tail(q) \in Seq(T) /\ Len(Tail(q)) = Len(q) - 1 /\ Len(q) \in Nat /\ 1 \in 1..Len(q)
      /\ \A j \in 1..(Len(q) - 1) : Tail(q)[j] = q[j + 1]
  OBVIOUS
<1>2. \A j \in 1..(Len(q) - 1) : Tail(q)[j] = IF j < 1 THEN q[j] ELSE q[j + 1]
  BY <1>1
<1>3. IsWithout(Tail(q), q, 1)
  BY <1>1, <1>2, ShiftedIsWithout
<1> QED BY <1>1, <1>3

-----------------------------------------------------------------------------
\* A key is a data source and a time.
LEMMA KeyIsTyped == \A d \in Details : CacheKey(d) \in Sources \X (0..MaxClock)
BY DEF Details, CacheKey

\* r is q after r[key] = entry.
IsSetTo(r, q, key, entry) ==
    /\ Len(r) <= Len(q) + 1
    /\ \E k \in DOMAIN r :
          /\ r[k] = entry
          /\ \A j \in DOMAIN r \ {k} : j \in DOMAIN q /\ r[j] = q[j] /\ q[j].key # key
          /\ \A j \in DOMAIN q : q[j].key # key => j \in DOMAIN r \ {k}

\* The dict after a key was set, if no key is in it twice.
LEMMA PutIsSetTo ==
  ASSUME engines \in Seq(Entry), EntriesInv, NEW t \in Threads, Put(t), call[t].engine \in Engine,
         call[t].details \in Details
  PROVE  LET key == CacheKey(call[t].details)
         IN  /\ engines' \in Seq(Entry)
             /\ IsSetTo(engines', engines, key, [key |-> key, engine |-> call[t].engine])
<1> DEFINE key == CacheKey(call[t].details)
           entry == [key |-> key, engine |-> call[t].engine]
<1>1. entry \in Entry
  BY KeyIsTyped DEF Entry
<1>2. engines' = IF Positions(key) = {} THEN Append(engines, entry)
                 ELSE [i \in DOMAIN engines |-> IF engines[i].key = key THEN entry ELSE engines[i]]
  BY DEF Put
<1> HIDE DEF entry, key
<1>3. Len(engines) \in Nat /\ DOMAIN engines = 1..Len(engines)
  OBVIOUS
<1>4. CASE Positions(key) = {}
  <2>1. engines' = Append(engines, entry)
    BY <1>2, <1>4
  <2>2. /\ engines' \in Seq(Entry) /\ Len(engines') = Len(engines) + 1
        /\ DOMAIN engines' = 1..(Len(engines) + 1)
        /\ engines'[Len(engines) + 1] = entry
        /\ \A j \in DOMAIN engines : engines'[j] = engines[j]
    BY <1>1, <1>3, <2>1
  <2>3. \A j \in DOMAIN engines : engines[j].key # key
    BY <1>4 DEF Positions
  <2>4. Len(engines) + 1 \in DOMAIN engines'
    BY <1>3, <2>2
  <2>5. \A j \in DOMAIN engines' \ {Len(engines) + 1} : j \in DOMAIN engines
    BY <1>3, <2>2
  <2>6. \A j \in DOMAIN engines : j \in DOMAIN engines' \ {Len(engines) + 1}
    BY <1>3, <2>2
  <2>7. IsSetTo(engines', engines, key, entry)
    BY <1>3, <2>2, <2>3, <2>4, <2>5, <2>6 DEF IsSetTo
  <2> QED BY <2>2, <2>7 DEF key, entry
<1>5. CASE Positions(key) # {}
  <2>1. engines' = [i \in DOMAIN engines |-> IF engines[i].key = key THEN entry ELSE engines[i]]
    BY <1>2, <1>5
  <2>2. engines' \in Seq(Entry) /\ DOMAIN engines' = DOMAIN engines /\ Len(engines') = Len(engines)
    BY <1>1, <1>3, <2>1
  <2>3. PICK k \in DOMAIN engines : engines[k].key = key
    BY <1>5 DEF Positions
  <2>4. engines'[k] = entry
    BY <2>1, <2>3
  <2>5. \A j \in DOMAIN engines \ {k} : engines[j].key # key
    BY <2>3 DEF EntriesInv
  <2>6. \A j \in DOMAIN engines \ {k} : engines'[j] = engines[j]
    BY <2>1, <2>5
  <2>7. IsSetTo(engines', engines, key, entry)
    BY <1>3, <2>2, <2>3, <2>4, <2>5, <2>6 DEF IsSetTo
  <2> QED BY <2>2, <2>7 DEF key, entry
<1> QED BY <1>4, <1>5

\* Types, and the identity of new engines.

\* Among the numbers from 0 to the size of a finite set there is one outside it.
LEMMA SomeNumberIsOutside ==
  ASSUME NEW S, IsFiniteSet(S)
  PROVE  \E n \in 0..Cardinality(S) : n \notin S
<1>1. Cardinality(S) \in Nat
  BY FS_CardinalityType
<1>2. Cardinality(0..Cardinality(S)) = Cardinality(S) + 1
  BY <1>1, FS_Interval
<1>3. ~(0..Cardinality(S) \subseteq S)
  BY <1>1, <1>2, FS_Subset
<1> QED BY <1>3

\* Finitely many threads and entries refer to finitely many engines.
LEMMA ReferencedIsFinite ==
  ASSUME IsFiniteSet(Threads), TypeOK
  PROVE  IsFiniteSet(Referenced)
<1>1. engines \in Seq(Entry)
  BY DEF TypeOK, Entry
<1>2. IsFiniteSet(DOMAIN engines)
  <2>1. DOMAIN engines = 1..Len(engines) /\ Len(engines) \in Nat
    BY <1>1
  <2> QED BY <2>1, FS_Interval
<1> DEFINE f == [i \in DOMAIN engines |-> engines[i].engine]
           g == [t \in Threads |-> call[t].engine]
<1>3. f \in Surjection(DOMAIN engines, Cached)
  BY DEF Surjection, Cached, ToSet
<1>4. g \in Surjection(Threads, {call[t].engine : t \in Threads})
  BY DEF Surjection
<1>5. IsFiniteSet(Cached)
  BY <1>2, <1>3, FS_Surjection
<1>6. IsFiniteSet({call[t].engine : t \in Threads})
  BY <1>4, FS_Surjection
<1>7. IsFiniteSet(Held)
  BY <1>6, FS_Difference DEF Held
<1> QED BY <1>5, <1>7, FS_Union DEF Referenced

\* Two engines that exist at once differ, even if created from the same details.
LEMMA CreatedIsNew ==
  ASSUME IsFiniteSet(Threads), TypeOK, NEW t \in Threads, Create(t)
  PROVE  \E e \in Engine : /\ e.details = call[t].details
                           /\ e \notin Referenced
                           /\ Becomes(t, "put", e)
<1> DEFINE same == {x \in Referenced : x.details = call[t].details}
           taken == {e.id : e \in same}
           id == CHOOSE n \in 0..Cardinality(taken) : n \notin taken
           e == [details |-> call[t].details, id |-> id]
<1>1. IsFiniteSet(same)
  BY ReferencedIsFinite, FS_Subset
<1> DEFINE f == [x \in same |-> x.id]
<1>2. f \in Surjection(same, taken)
  <2> HIDE DEF same
  <2> QED BY DEF Surjection
<1>3. IsFiniteSet(taken)
  <2> HIDE DEF same, taken, f
  <2> QED BY <1>1, <1>2, FS_Surjection
<1>4. Becomes(t, "put", e)
  BY DEF Create
<1>5. id \in Nat /\ id \notin taken
  <2> HIDE DEF taken
  <2>1. Cardinality(taken) \in Nat /\ id \in 0..Cardinality(taken) /\ id \notin taken
    BY <1>3, FS_CardinalityType, SomeNumberIsOutside
  <2> QED BY <2>1
<1>6. call[t].details \in Details
  BY DEF TypeOK, Call
<1>7. e \in Engine /\ e.details = call[t].details /\ e.id = id
  <2> HIDE DEF id
  <2> QED BY <1>5, <1>6 DEF Engine
<1>8. e \notin Referenced
  <2> HIDE DEF e, id
  <2> QED BY <1>5, <1>7
<1> QED BY <1>4, <1>7, <1>8

\* What Becomes(t, p, e) does to each call.
LEMMA BecomesIs ==
  ASSUME TypeOK, NEW t \in Threads, NEW p \in Steps, NEW e \in Engine \cup {NoEngine},
         Becomes(t, p, e)
  PROVE  /\ call' \in [Threads -> Call]
         /\ call'[t].pc = p /\ call'[t].engine = e /\ call'[t].details = call[t].details
         /\ \A u \in Threads \ {t} : call'[u] = call[u]
<1>1. call \in [Threads -> Call] /\ call[t] \in Call
  BY DEF TypeOK
<1>2. call' = [call EXCEPT ![t] = [call[t] EXCEPT !.pc = p, !.engine = e]]
  BY <1>1 DEF Becomes
<1>3. /\ [call[t] EXCEPT !.pc = p, !.engine = e] \in Call
      /\ [call[t] EXCEPT !.pc = p, !.engine = e].pc = p
      /\ [call[t] EXCEPT !.pc = p, !.engine = e].engine = e
      /\ [call[t] EXCEPT !.pc = p, !.engine = e].details = call[t].details
  BY <1>1 DEF Call
<1> QED BY <1>1, <1>2, <1>3

\* The first state is typed.
LEMMA InitHasTypes == Init => TypeOK
<1> SUFFICES ASSUME Init PROVE TypeOK
  OBVIOUS
<1>1. \A s \in Sources : Fresh(s) \in Details
  BY BoundsAssumption DEF Fresh, Details
<1>2. engines \in Seq([key : Sources \X (0..MaxClock), engine : Engine])
  BY DEF Init
<1>3. call \in [Threads -> Call]
  BY <1>1 DEF Init, Call, Steps
<1> QED BY <1>1, <1>2, <1>3, BoundsAssumption DEF Init, TypeOK

\* An entry of the dict has an engine, which has details.
LEMMA EntryIs ==
  ASSUME engines \in Seq(Entry), NEW i \in DOMAIN engines
  PROVE  /\ engines[i] \in Entry /\ engines[i].engine \in Engine
         /\ engines[i].engine.details \in Details
<1>1. engines[i] \in Entry
  OBVIOUS
<1>2. engines[i].engine \in Engine
  BY <1>1 DEF Entry
<1> QED BY <1>1, <1>2 DEF Engine

\* An open edit has details.
LEMMA EditIs ==
  ASSUME edit = NoEdit \/ edit \in [open : {TRUE}, details : Details], edit.open
  PROVE  edit \in [open : {TRUE}, details : Details] /\ edit.details \in Details
<1>1. edit # NoEdit
  <2>1. NoEdit.open = FALSE
    BY DEF NoEdit
  <2> QED BY <2>1
<1> QED BY <1>1

\* Every step keeps the types: KeysInv says that a thread that puts an engine has one.
LEMMA TypeIsKept ==
  ASSUME IsFiniteSet(Threads), TypeOK, KeysInv, [Next]_vars
  PROVE  TypeOK'
<1>1. /\ row \in [Sources -> Details]
      /\ edit = NoEdit \/ edit \in [open : {TRUE}, details : Details]
      /\ clock \in 0..MaxClock /\ engines \in Seq(Entry)
      /\ call \in [Threads -> Call] /\ disposed \subseteq Engine
  BY DEF TypeOK, Entry
<1>2. edit.open => edit.details \in Details
  BY <1>1, EditIs
<1> DEFINE Idle == UNCHANGED <<row, edit, clock>>
<1>3. ASSUME Idle, engines' \in Seq(Entry), call' \in [Threads -> Call], disposed' \subseteq Engine
      PROVE  TypeOK'
  BY <1>1, <1>3 DEF TypeOK, Entry
<1>4. ASSUME NEW t \in Threads, NEW d \in Details, GetEngine(t, d)
      PROVE  TypeOK'
  <2>1. [pc |-> "pop", details |-> d, engine |-> NoEngine] \in Call
    BY DEF Call, Steps
  <2> QED BY <1>1, <1>3, <1>4, <2>1 DEF GetEngine
<1>5. ASSUME NEW t \in Threads, Pop(t) PROVE TypeOK'
  <2>1. CASE Becomes(t, "create", NoEngine) /\ UNCHANGED engines
    BY <1>1, <1>3, <1>5, <2>1, BecomesIs DEF Pop, Steps
  <2>2. ASSUME NEW i \in DOMAIN engines, Becomes(t, "put", engines[i].engine),
               engines' = RemoveAt(engines, i)
        PROVE  TypeOK'
    <3>1. engines' \in Seq(Entry)
      BY <1>1, <2>2, RemoveAtIsWithout
    <3>2. engines[i].engine \in Engine
      BY <1>1, EntryIs
    <3> QED BY <1>1, <1>3, <1>5, <2>2, <3>1, <3>2, BecomesIs DEF Pop, Steps
  <2> QED BY <1>5, <2>1, <2>2 DEF Pop, Positions
<1>6. ASSUME NEW t \in Threads, Create(t) PROVE TypeOK'
  BY <1>1, <1>3, <1>6, CreatedIsNew, BecomesIs DEF Create, Steps
<1>7. ASSUME NEW t \in Threads, Put(t) PROVE TypeOK'
  <2>1. call[t].engine \in Engine /\ call[t].details \in Details
    BY <1>1, <1>7 DEF Put, KeysInv, ThreadInv, Holding, Call
  <2>2. engines' \in Seq(Entry)
    BY <1>1, <1>7, <2>1, PutIsSetTo DEF KeysInv
  <2>3. call' \in [Threads -> Call]
    BY <1>1, <1>7, <2>1, BecomesIs DEF Put, Steps
  <2> QED BY <1>1, <1>3, <1>7, <2>2, <2>3 DEF Put
<1>8. ASSUME NEW t \in Threads, Trim(t) PROVE TypeOK'
  BY <1>1, <1>3, <1>8, BecomesIs DEF Trim, Steps, Call
<1>9. ASSUME NEW t \in Threads, Evict(t) PROVE TypeOK'
  <2>1. call[t].engine \in Engine \cup {NoEngine}
    BY <1>1 DEF Call
  <2>2. CASE engines = <<>>
    BY <1>1, <1>3, <1>9, <2>1, <2>2, BecomesIs DEF Evict, Steps
  <2>3. CASE engines # <<>>
    <3>1. engines' \in Seq(Entry) /\ 1 \in DOMAIN engines /\ Head(engines) = engines[1]
      BY <1>1, <1>9, <2>3, TailIsWithout DEF Evict
    <3>3. Head(engines).engine \in Engine
      BY <1>1, <3>1, EntryIs
    <3>2. call' \in [Threads -> Call]
      BY <1>9, <2>1, <2>3, BecomesIs DEF Evict, Steps
    <3> QED BY <1>1, <1>3, <1>9, <2>3, <3>1, <3>2, <3>3 DEF Evict
  <2> QED BY <2>2, <2>3
<1>10. ASSUME NEW t \in Threads, Finish(t) PROVE TypeOK'
  BY <1>1, <1>3, <1>10, BecomesIs DEF Finish, Steps
<1> HIDE DEF Idle
<1>11. ASSUME NEW s \in Sources, StartEdit(s) PROVE TypeOK'
  <2>1. clock' \in 0..MaxClock
    BY <1>1, <1>11, BoundsAssumption DEF StartEdit
  <2>2. [source |-> s, updated_at |-> clock + 1, change |-> 1] \in Details
    BY <1>1, <1>11, BoundsAssumption DEF StartEdit, Details
  <2>3. edit' \in [open : {TRUE}, details : Details]
    BY <1>11, <2>2 DEF StartEdit
  <2> QED BY <1>1, <1>11, <2>1, <2>3 DEF StartEdit, TypeOK, Entry
<1>12. ASSUME ChangeAgain PROVE TypeOK'
  <2>1. edit \in [open : {TRUE}, details : Details] /\ edit.details.change < MaxChanges
    BY <1>1, <1>12, EditIs DEF ChangeAgain
  <2>2. [edit.details EXCEPT !.change = @ + 1] \in Details
    BY <2>1, BoundsAssumption DEF Details
  <2>3. edit' = [edit EXCEPT !.details = [edit.details EXCEPT !.change = @ + 1]]
    BY <1>12, <2>1 DEF ChangeAgain
  <2>4. edit' \in [open : {TRUE}, details : Details]
    BY <2>1, <2>2, <2>3
  <2> QED BY <1>1, <1>12, <2>4 DEF ChangeAgain, TypeOK, Entry
<1>13. ASSUME EndEdit PROVE TypeOK'
  BY <1>1, <1>2, <1>13 DEF EndEdit, TypeOK, Entry
<1>14. ASSUME UNCHANGED vars PROVE TypeOK'
  BY <1>1, <1>14 DEF vars, TypeOK, Entry
<1> QED
  BY <1>1, <1>2, <1>4, <1>5, <1>6, <1>7, <1>8, <1>9, <1>10, <1>11, <1>12, <1>13, <1>14
     DEF Next, Inside, Editing

-----------------------------------------------------------------------------
(***************************************************************************)
(* The steps of a thread, as what they do to the entries and to its call.  *)
(* Every other call is left alone.                                         *)
(***************************************************************************)

Moves(t, from, pc, details, engine) ==
    /\ call[t].pc \in from
    /\ call'[t].pc = pc /\ call'[t].details = details /\ call'[t].engine = engine
    /\ \A u \in Threads \ {t} : call'[u] = call[u]

Enters(t) ==
    \E d \in Details :
        /\ (\E s \in Sources : d = row[s]) \/ (edit.open /\ d = edit.details)
        /\ Moves(t, {"idle"}, "pop", d, NoEngine)
        /\ UNCHANGED <<row, edit, engines, disposed>>

Misses(t) ==
    /\ Moves(t, {"pop"}, "create", call[t].details, NoEngine)
    /\ UNCHANGED <<row, edit, engines, disposed>>

Hits(t) ==
    \E i \in DOMAIN engines :
        /\ engines[i].key = CacheKey(call[t].details)
        /\ Moves(t, {"pop"}, "put", call[t].details, engines[i].engine)
        /\ IsWithout(engines', engines, i)
        /\ UNCHANGED <<row, edit, disposed>>

Creates(t) ==
    \E e \in Engine :
        /\ e.details = call[t].details /\ e \notin Referenced
        /\ Moves(t, {"create"}, "put", call[t].details, e)
        /\ UNCHANGED <<row, edit, engines, disposed>>

Puts(t) ==
    /\ Moves(t, {"put"}, "trim", call[t].details, call[t].engine)
    /\ LET key == CacheKey(call[t].details)
       IN  IsSetTo(engines', engines, key, [key |-> key, engine |-> call[t].engine])
    /\ disposed' = disposed \cap Referenced'
    /\ UNCHANGED <<row, edit>>

Trims(t) ==
    /\ Moves(t, {"trim"}, IF Len(engines) > MaxCached THEN "evict" ELSE "use",
             call[t].details, call[t].engine)
    /\ UNCHANGED <<row, edit, engines, disposed>>

Fails(t) ==
    /\ engines = <<>>
    /\ Moves(t, {"evict"}, "key_error", call[t].details, call[t].engine)
    /\ UNCHANGED <<row, edit, engines, disposed>>

Evicts(t) ==
    /\ Moves(t, {"evict"}, "trim", call[t].details, call[t].engine)
    /\ 1 \in DOMAIN engines
    /\ IsWithout(engines', engines, 1)
    /\ disposed' = (disposed \cup {engines[1].engine}) \cap Referenced'
    /\ UNCHANGED <<row, edit>>

Leaves(t) ==
    /\ Moves(t, {"use", "key_error"}, "idle", call[t].details, NoEngine)
    /\ disposed' = disposed \cap Referenced'
    /\ UNCHANGED <<row, edit, engines>>

Edits ==
    /\ UNCHANGED <<engines, call, disposed>>
    /\ Editing \/ UNCHANGED <<row, edit>>

\* Every step is one of these.
LEMMA StepIs ==
  ASSUME IsFiniteSet(Threads), TypeOK, KeysInv, [Next]_vars
  PROVE  \/ \E t \in Threads :
               \/ Enters(t) \/ Misses(t) \/ Hits(t) \/ Creates(t) \/ Puts(t)
               \/ Trims(t) \/ Fails(t) \/ Evicts(t) \/ Leaves(t)
         \/ Edits
<1>1. /\ row \in [Sources -> Details] /\ engines \in Seq(Entry)
      /\ call \in [Threads -> Call]
      /\ edit = NoEdit \/ edit \in [open : {TRUE}, details : Details]
  BY DEF TypeOK, Entry
<1>2. \A t \in Threads : call[t].details \in Details /\ call[t].engine \in Engine \cup {NoEngine}
  BY <1>1 DEF Call
<1>3. edit.open => edit.details \in Details
  BY <1>1, EditIs
<1>4. ASSUME NEW t \in Threads, NEW d \in Details, GetEngine(t, d) PROVE Enters(t)
  <2>1. call' = [call EXCEPT ![t] = [pc |-> "pop", details |-> d, engine |-> NoEngine]]
    BY <1>4 DEF GetEngine
  <2>2. Moves(t, {"idle"}, "pop", d, NoEngine)
    BY <1>1, <1>4, <2>1 DEF GetEngine, Moves
  <2> QED BY <1>4, <2>2 DEF GetEngine, Enters
<1>5. ASSUME NEW t \in Threads, Pop(t) PROVE Misses(t) \/ Hits(t)
  <2>1. CASE Becomes(t, "create", NoEngine) /\ UNCHANGED engines
    BY <1>5, <2>1, BecomesIs DEF Pop, Steps, Moves, Misses
  <2>2. ASSUME NEW i \in Positions(CacheKey(call[t].details)),
               Becomes(t, "put", engines[i].engine), engines' = RemoveAt(engines, i)
        PROVE  Hits(t)
    <3>1. i \in DOMAIN engines /\ engines[i].key = CacheKey(call[t].details)
      BY DEF Positions
    <3>2. engines[i].engine \in Engine
      BY <1>1, <3>1, EntryIs
    <3>3. Moves(t, {"pop"}, "put", call[t].details, engines[i].engine)
      BY <1>5, <2>2, <3>2, BecomesIs DEF Pop, Steps, Moves
    <3>4. IsWithout(engines', engines, i)
      BY <1>1, <2>2, <3>1, RemoveAtIsWithout
    <3> QED BY <1>5, <3>1, <3>3, <3>4 DEF Pop, Hits
  <2> QED BY <1>5, <2>1, <2>2 DEF Pop
<1>6. ASSUME NEW t \in Threads, Create(t) PROVE Creates(t)
  <2>1. PICK e \in Engine : /\ e.details = call[t].details /\ e \notin Referenced
                            /\ Becomes(t, "put", e)
    BY <1>6, CreatedIsNew
  <2>2. Moves(t, {"create"}, "put", call[t].details, e)
    BY <1>6, <2>1, BecomesIs DEF Create, Steps, Moves
  <2> QED BY <1>6, <2>1, <2>2 DEF Create, Creates
<1>7. ASSUME NEW t \in Threads, Put(t) PROVE Puts(t)
  <2>1. call[t].engine \in Engine
    BY <1>7 DEF Put, KeysInv, ThreadInv, Holding
  <2>2. Moves(t, {"put"}, "trim", call[t].details, call[t].engine)
    BY <1>7, <2>1, BecomesIs DEF Put, Steps, Moves
  <2>3. LET key == CacheKey(call[t].details)
        IN  IsSetTo(engines', engines, key, [key |-> key, engine |-> call[t].engine])
    BY <1>1, <1>2, <1>7, <2>1, PutIsSetTo DEF KeysInv
  <2> QED BY <1>7, <2>2, <2>3 DEF Put, Puts
<1>8. ASSUME NEW t \in Threads, Trim(t) PROVE Trims(t)
  BY <1>2, <1>8, BecomesIs DEF Trim, Steps, Moves, Trims
<1>9. ASSUME NEW t \in Threads, Evict(t) PROVE Fails(t) \/ Evicts(t)
  <2>1. CASE engines = <<>>
    BY <1>2, <1>9, <2>1, BecomesIs DEF Evict, Steps, Moves, Fails
  <2>2. CASE engines # <<>>
    <3>1. /\ 1 \in DOMAIN engines /\ Head(engines) = engines[1]
          /\ IsWithout(Tail(engines), engines, 1)
      BY <1>1, <2>2, TailIsWithout
    <3>2. Moves(t, {"evict"}, "trim", call[t].details, call[t].engine)
      BY <1>2, <1>9, <2>2, BecomesIs DEF Evict, Steps, Moves
    <3> QED BY <1>9, <2>2, <3>1, <3>2 DEF Evict, Evicts
  <2> QED BY <2>1, <2>2
<1>10. ASSUME NEW t \in Threads, Finish(t) PROVE Leaves(t)
  BY <1>10, BecomesIs DEF Finish, Steps, Moves, Leaves
<1>11. ASSUME Editing \/ UNCHANGED vars PROVE Edits
  BY <1>11 DEF Editing, StartEdit, ChangeAgain, EndEdit, vars, Edits
<1> QED
  BY <1>1, <1>3, <1>4, <1>5, <1>6, <1>7, <1>8, <1>9, <1>10, <1>11 DEF Next, Inside

-----------------------------------------------------------------------------
(***************************************************************************)
(* Keys.                                                                   *)
(***************************************************************************)

\* Without one of them the entries are still under the key of their engine, one to a key.
LEMMA WithoutKeepsEntries ==
  ASSUME EntriesInv, NEW i \in DOMAIN engines, IsWithout(engines', engines, i)
  PROVE  EntriesInv'
<1>1. PICK at \in [DOMAIN engines' -> DOMAIN engines] :
         /\ \A j \in DOMAIN engines' : engines'[j] = engines[at[j]]
         /\ \A j, k \in DOMAIN engines' : at[j] = at[k] => j = k
  BY DEF IsWithout
<1> QED BY <1>1 DEF EntriesInv, CacheKey

\* So they are after an engine was put under its key.
LEMMA SetKeepsEntries ==
  ASSUME EntriesInv, NEW key, NEW engine, key = CacheKey(engine.details),
         IsSetTo(engines', engines, key, [key |-> key, engine |-> engine])
  PROVE  EntriesInv'
<1> DEFINE entry == [key |-> key, engine |-> engine]
<1>1. entry.key = key /\ entry.engine = engine
  OBVIOUS
<1> HIDE DEF entry
<1>2. PICK k \in DOMAIN engines' :
         /\ engines'[k] = entry
         /\ \A j \in DOMAIN engines' \ {k} :
               j \in DOMAIN engines /\ engines'[j] = engines[j] /\ engines[j].key # key
  BY DEF IsSetTo, entry
<1>3. ASSUME NEW j \in DOMAIN engines'
      PROVE  engines'[j].key = CacheKey(engines'[j].engine.details)
  <2>1. CASE j = k
    BY <1>1, <1>2, <2>1
  <2>2. CASE j # k
    BY <1>2, <2>2 DEF EntriesInv
  <2> QED BY <2>1, <2>2
<1>4. ASSUME NEW i \in DOMAIN engines', NEW j \in DOMAIN engines', engines'[i].key = engines'[j].key
      PROVE  i = j
  BY <1>1, <1>2, <1>4 DEF EntriesInv
<1> QED BY <1>3, <1>4 DEF EntriesInv, CacheKey

\* NoEngine is no engine.
LEMMA NoEngineIsNone == NoEngine \notin Engine
<1>1. NoEngine.id = -1 /\ -1 \notin Nat
  BY DEF NoEngine
<1>2. \A e \in Engine : e.id \in Nat
  BY DEF Engine
<1> QED BY <1>1, <1>2

\* Every step keeps KeysInv: an engine leaves and enters the dict under the same key.
LEMMA KeysAreKept ==
  ASSUME IsFiniteSet(Threads), TypeOK, KeysInv, [Next]_vars
  PROVE  KeysInv'
<1>1. engines \in Seq(Entry) /\ EntriesInv /\ \A t \in Threads : ThreadInv(t)
  BY DEF KeysInv, TypeOK, Entry
<1>2. ASSUME NEW t \in Threads, \A u \in Threads \ {t} : call'[u] = call[u],
             EntriesInv', ThreadInv(t)'
      PROVE  KeysInv'
  BY <1>1, <1>2 DEF KeysInv, ThreadInv, CacheKey
<1>3. ASSUME UNCHANGED engines PROVE EntriesInv'
  BY <1>1, <1>3 DEF EntriesInv, CacheKey
<1>4. ASSUME NEW t \in Threads, Enters(t) PROVE KeysInv'
  BY <1>2, <1>3, <1>4 DEF Enters, Moves, ThreadInv, Holding
<1>5. ASSUME NEW t \in Threads, Misses(t) PROVE KeysInv'
  BY <1>2, <1>3, <1>5 DEF Misses, Moves, ThreadInv, Holding
<1>6. ASSUME NEW t \in Threads, Hits(t) PROVE KeysInv'
  <2>1. PICK i \in DOMAIN engines :
          /\ engines[i].key = CacheKey(call[t].details)
          /\ Moves(t, {"pop"}, "put", call[t].details, engines[i].engine)
          /\ IsWithout(engines', engines, i)
    BY <1>6 DEF Hits
  <2>2. EntriesInv'
    BY <1>1, <2>1, WithoutKeepsEntries
  <2>3. engines[i].engine \in Engine /\ engines[i].key = CacheKey(engines[i].engine.details)
    BY <1>1, EntryIs DEF EntriesInv
  <2>4. ThreadInv(t)'
    BY <2>1, <2>3 DEF Moves, ThreadInv, Holding, CacheKey
  <2> QED BY <1>2, <2>1, <2>2, <2>4 DEF Moves
<1>7. ASSUME NEW t \in Threads, Creates(t) PROVE KeysInv'
  <2>1. ThreadInv(t)'
    BY <1>7 DEF Creates, Moves, ThreadInv, Holding, CacheKey
  <2> QED BY <1>2, <1>3, <1>7, <2>1 DEF Creates, Moves
<1>8. ASSUME NEW t \in Threads, call[t].pc \in Holding, call'[t].pc \in Holding,
             call'[t].engine = call[t].engine, call'[t].details = call[t].details
      PROVE  ThreadInv(t)'
  BY <1>1, <1>8 DEF ThreadInv, CacheKey
<1>9. ASSUME NEW t \in Threads, Puts(t) PROVE KeysInv'
  <2>1. ThreadInv(t)'
    BY <1>8, <1>9 DEF Puts, Moves, Holding
  <2>2. EntriesInv'
    <3>1. CacheKey(call[t].engine.details) = CacheKey(call[t].details)
      BY <1>1, <1>9 DEF Puts, Moves, ThreadInv, Holding
    <3> QED BY <1>1, <1>9, <3>1, SetKeepsEntries DEF Puts
  <2> QED BY <1>2, <1>9, <2>1, <2>2 DEF Puts, Moves
<1>10. ASSUME NEW t \in Threads, Trims(t) PROVE KeysInv'
  <2>1. ThreadInv(t)'
    BY <1>8, <1>10 DEF Trims, Moves, Holding
  <2> QED BY <1>2, <1>3, <1>10, <2>1 DEF Trims, Moves
<1>11. ASSUME NEW t \in Threads, Fails(t) PROVE KeysInv'
  BY <1>2, <1>3, <1>11 DEF Fails, Moves, ThreadInv, Holding
<1>12. ASSUME NEW t \in Threads, Evicts(t) PROVE KeysInv'
  <2>1. ThreadInv(t)'
    BY <1>8, <1>12 DEF Evicts, Moves, Holding
  <2>2. EntriesInv'
    BY <1>1, <1>12, WithoutKeepsEntries DEF Evicts
  <2> QED BY <1>2, <1>12, <2>1, <2>2 DEF Evicts, Moves
<1>13. ASSUME NEW t \in Threads, Leaves(t) PROVE KeysInv'
  BY <1>2, <1>3, <1>13 DEF Leaves, Moves, ThreadInv, Holding
<1>14. ASSUME Edits PROVE KeysInv'
  BY <1>1, <1>3, <1>14 DEF Edits, KeysInv, ThreadInv, CacheKey
<1> QED
  BY <1>4, <1>5, <1>6, <1>7, <1>9, <1>10, <1>11, <1>12, <1>13, <1>14, StepIs

-----------------------------------------------------------------------------
(***************************************************************************)
(* Open engines.                                                           *)
(***************************************************************************)

\* The cached engines, by the places of their entries.
LEMMA CachedIs == Cached = {engines[i].engine : i \in DOMAIN engines}
BY DEF Cached, ToSet

\* An engine is in the dict once, since its key is.
LEMMA EnginesAreUnique ==
  ASSUME EntriesInv
  PROVE  \A i, j \in DOMAIN engines : engines[i].engine = engines[j].engine => i = j
BY DEF EntriesInv

\* A pop takes one engine out of the cache.
LEMMA CachedWithout ==
  ASSUME EntriesInv, NEW i \in DOMAIN engines, IsWithout(engines', engines, i)
  PROVE  Cached' = Cached \ {engines[i].engine}
<1>1. PICK at \in [DOMAIN engines' -> DOMAIN engines] :
         /\ \A j \in DOMAIN engines' : at[j] # i /\ engines'[j] = engines[at[j]]
         /\ \A k \in DOMAIN engines : k # i => \E j \in DOMAIN engines' : at[j] = k
  BY DEF IsWithout
<1>2. Cached' = {engines'[j].engine : j \in DOMAIN engines'}
  BY DEF Cached, ToSet
<1>3. \A j \in DOMAIN engines' : engines'[j].engine \in Cached \ {engines[i].engine}
  BY <1>1, CachedIs, EnginesAreUnique
<1>4. \A k \in DOMAIN engines : k # i => \E j \in DOMAIN engines' : engines'[j].engine = engines[k].engine
  BY <1>1
<1> QED BY <1>2, <1>3, <1>4, CachedIs

\* Setting a key adds one engine at most.
LEMMA CachedSet ==
  ASSUME NEW key, NEW engine, IsSetTo(engines', engines, key, [key |-> key, engine |-> engine])
  PROVE  Cached' \subseteq Cached \cup {engine}
<1> DEFINE entry == [key |-> key, engine |-> engine]
<1>1. entry.engine = engine
  OBVIOUS
<1> HIDE DEF entry
<1>2. PICK k \in DOMAIN engines' :
         /\ engines'[k] = entry
         /\ \A j \in DOMAIN engines' \ {k} : j \in DOMAIN engines /\ engines'[j] = engines[j]
  BY DEF IsSetTo, entry
<1>3. Cached' = {engines'[j].engine : j \in DOMAIN engines'}
  BY DEF Cached, ToSet
<1> QED BY <1>1, <1>2, <1>3, CachedIs

\* Every step keeps OpenInv: only a cached engine is disposed of, and a thread that popped or
\* created one has it for itself.
LEMMA OpenIsKept ==
  ASSUME IsFiniteSet(Threads), TypeOK, KeysInv, OpenInv, [Next]_vars
  PROVE  OpenInv'
<1>1. EntriesInv /\ \A t \in Threads : ThreadInv(t)
  BY DEF KeysInv
<1>2. /\ Cached \cap disposed = {} /\ disposed \subseteq Cached \cup Held
      /\ \A t \in Threads : call[t].pc = "put" =>
            /\ call[t].engine \notin Cached \cup disposed
            /\ \A u \in Threads \ {t} : call[u].pc = "put" => call[u].engine # call[t].engine
  BY DEF OpenInv, Referenced
<1>3. /\ Held = {call[u].engine : u \in Threads} \ {NoEngine}
      /\ Held' = {call'[u].engine : u \in Threads} \ {NoEngine}
  BY DEF Held
<1>4. UNCHANGED engines => Cached' = Cached
  BY DEF Cached
<1>5. \A u \in Threads : call[u].pc = "put" => call[u].engine \in Engine
  BY <1>1 DEF ThreadInv, Holding
<1>6. ASSUME NEW t \in Threads, NEW pc, NEW details, NEW from,
             Moves(t, from, pc, details, call[t].engine) \/ Moves(t, from, pc, details, NoEngine),
             pc # "put",
             UNCHANGED <<engines, disposed>>,
             disposed \subseteq Cached \cup Held'
      PROVE  OpenInv'
  BY <1>2, <1>4, <1>6 DEF Moves, OpenInv, Referenced
<1>7. ASSUME NEW t \in Threads, \A u \in Threads \ {t} : call'[u] = call[u],
             call[t].engine = NoEngine \/ call'[t].engine = call[t].engine
      PROVE  Held \subseteq Held'
  BY <1>3, <1>7
<1>8. ASSUME NEW t \in Threads, Enters(t) PROVE OpenInv'
  <2>1. call[t].engine = NoEngine
    BY <1>1, <1>8 DEF Enters, Moves, ThreadInv, Holding
  <2>2. Held \subseteq Held'
    BY <1>7, <1>8, <2>1 DEF Enters, Moves
  <2> QED BY <1>2, <1>6, <1>8, <2>2 DEF Enters
<1>9. ASSUME NEW t \in Threads, Misses(t) PROVE OpenInv'
  <2>1. call[t].engine = NoEngine
    BY <1>1, <1>9 DEF Misses, Moves, ThreadInv, Holding
  <2>2. Held \subseteq Held'
    BY <1>7, <1>9, <2>1 DEF Misses, Moves
  <2> QED BY <1>2, <1>6, <1>9, <2>2 DEF Misses
<1>10. ASSUME NEW t \in Threads, Hits(t) PROVE OpenInv'
  <2>1. PICK i \in DOMAIN engines :
          /\ Moves(t, {"pop"}, "put", call[t].details, engines[i].engine)
          /\ IsWithout(engines', engines, i) /\ disposed' = disposed
    BY <1>10 DEF Hits
  <2> DEFINE e == engines[i].engine
  <2>2. Cached' = Cached \ {e} /\ e \in Cached
    BY <1>1, <2>1, CachedWithout, CachedIs
  <2>3. call[t].engine = NoEngine
    BY <1>1, <2>1 DEF Moves, ThreadInv, Holding
  <2>4. Held \subseteq Held'
    BY <1>7, <2>1, <2>3 DEF Moves
  <2>5. e \in Held'
    <3>1. e \in Engine
      BY EntryIs DEF TypeOK, Entry
    <3> QED BY <1>3, <2>1, <3>1, NoEngineIsNone DEF Moves
  <2> HIDE DEF e
  <2>6. call'[t].engine = e /\ \A u \in Threads \ {t} : call'[u] = call[u]
    BY <2>1 DEF Moves, e
  <2> QED BY <1>2, <2>1, <2>2, <2>4, <2>5, <2>6 DEF OpenInv, Referenced
<1>11. ASSUME NEW t \in Threads, Creates(t) PROVE OpenInv'
  <2>1. PICK e \in Engine :
          /\ e \notin Referenced /\ Moves(t, {"create"}, "put", call[t].details, e)
          /\ UNCHANGED <<engines, disposed>>
    BY <1>11 DEF Creates
  <2>2. call[t].engine = NoEngine
    BY <1>1, <2>1 DEF Moves, ThreadInv, Holding
  <2>3. Held \subseteq Held'
    BY <1>7, <2>1, <2>2 DEF Moves
  <2>4. \A u \in Threads : call[u].pc = "put" => call[u].engine \in Held
    BY <1>3, <1>5, NoEngineIsNone
  <2>5. call'[t].engine = e /\ \A u \in Threads \ {t} : call'[u] = call[u]
    BY <2>1 DEF Moves
  <2> QED BY <1>2, <1>4, <2>1, <2>3, <2>4, <2>5 DEF OpenInv, Referenced
<1>12. ASSUME NEW t \in Threads, Puts(t) PROVE OpenInv'
  <2> DEFINE e == call[t].engine
  <2>1. Cached' \subseteq Cached \cup {e}
    BY <1>12, CachedSet DEF Puts
  <2>2. e \notin disposed /\ \A u \in Threads \ {t} : call[u].pc = "put" => call[u].engine # e
    BY <1>2, <1>12 DEF Puts, Moves
  <2>3. call'[t].pc # "put" /\ \A u \in Threads \ {t} : call'[u] = call[u]
    BY <1>12 DEF Puts, Moves
  <2>4. disposed' = disposed \cap Referenced'
    BY <1>12 DEF Puts
  <2> HIDE DEF e
  <2> QED BY <1>2, <2>1, <2>2, <2>3, <2>4 DEF OpenInv
<1>13. ASSUME NEW t \in Threads, Trims(t) PROVE OpenInv'
  <2>1. Held \subseteq Held'
    BY <1>7, <1>13 DEF Trims, Moves
  <2> QED BY <1>2, <1>6, <1>13, <2>1 DEF Trims
<1>14. ASSUME NEW t \in Threads, Fails(t) PROVE OpenInv'
  <2>1. Held \subseteq Held'
    BY <1>7, <1>14 DEF Fails, Moves
  <2> QED BY <1>2, <1>6, <1>14, <2>1 DEF Fails
<1>15. ASSUME NEW t \in Threads, Evicts(t) PROVE OpenInv'
  <2> DEFINE e == engines[1].engine
  <2>1. Cached' = Cached \ {e} /\ e \in Cached
    BY <1>1, <1>15, CachedWithout, CachedIs DEF Evicts
  <2>2. call'[t].pc # "put" /\ \A u \in Threads \ {t} : call'[u] = call[u]
    BY <1>15 DEF Evicts, Moves
  <2>3. disposed' = (disposed \cup {e}) \cap Referenced'
    BY <1>15 DEF Evicts
  <2> HIDE DEF e
  <2> QED BY <1>2, <2>1, <2>2, <2>3 DEF OpenInv
<1>16. ASSUME NEW t \in Threads, Leaves(t) PROVE OpenInv'
  <2>1. call'[t].pc # "put" /\ \A u \in Threads \ {t} : call'[u] = call[u]
    BY <1>16 DEF Leaves, Moves
  <2> QED BY <1>2, <1>4, <1>16, <2>1 DEF OpenInv, Leaves
<1>17. ASSUME Edits PROVE OpenInv'
  BY <1>2, <1>3, <1>4, <1>17 DEF Edits, OpenInv, Referenced
<1> QED
  BY <1>8, <1>9, <1>10, <1>11, <1>12, <1>13, <1>14, <1>15, <1>16, <1>17, StepIs

-----------------------------------------------------------------------------
(***************************************************************************)
(* Details.                                                                *)
(***************************************************************************)

\* Every step keeps DetailsInv.
LEMMA DetailsAreKept ==
  ASSUME IsFiniteSet(Threads), TypeOK, KeysInv, DetailsInv, [Next]_vars
  PROVE  DetailsInv'
<1>1. /\ row \in [Sources -> Details] /\ clock \in 0..MaxClock
      /\ edit = NoEdit \/ edit \in [open : {TRUE}, details : Details]
      /\ engines \in Seq(Entry)
  BY DEF TypeOK, Entry
<1> DEFINE CallNumbered(t) ==
      Numbered(call[t].details) /\ (call[t].pc \in Holding => Numbered(call[t].engine.details))
<1>2. /\ \A s \in Sources : Numbered(row[s])
      /\ edit.open => Numbered(edit.details) /\ edit.details.change # 0
      /\ \A t \in Threads : CallNumbered(t)
      /\ \A i \in DOMAIN engines : Numbered(engines[i].engine.details)
  BY DEF DetailsInv
<1> DEFINE EntriesNumbered == \A i \in DOMAIN engines : Numbered(engines[i].engine.details)
<1>3. ASSUME NEW t \in Threads, \A u \in Threads \ {t} : call'[u] = call[u],
             UNCHANGED <<row, edit>>, EntriesNumbered', CallNumbered(t)'
      PROVE  DetailsInv'
  BY <1>2, <1>3 DEF DetailsInv, Numbered
<1>4. UNCHANGED engines => EntriesNumbered'
  BY <1>2 DEF Numbered
<1>5. ASSUME NEW i \in DOMAIN engines, IsWithout(engines', engines, i) PROVE EntriesNumbered'
  BY <1>2, <1>5 DEF IsWithout, Numbered
<1>6. ASSUME NEW t \in Threads, Enters(t) PROVE DetailsInv'
  <2>1. PICK d \in Details :
          /\ (\E s \in Sources : d = row[s]) \/ (edit.open /\ d = edit.details)
          /\ Moves(t, {"idle"}, "pop", d, NoEngine)
          /\ UNCHANGED <<row, edit, engines, disposed>>
    BY <1>6 DEF Enters
  <2>2. Numbered(d)
    BY <1>2, <2>1
  <2>3. CallNumbered(t)'
    BY <2>1, <2>2 DEF Moves, Holding, Numbered
  <2> QED BY <1>3, <1>4, <2>1, <2>3 DEF Moves
<1>7. ASSUME NEW t \in Threads, Misses(t) PROVE DetailsInv'
  <2>1. CallNumbered(t)'
    BY <1>2, <1>7 DEF Misses, Moves, Holding, Numbered
  <2> QED BY <1>3, <1>4, <1>7, <2>1 DEF Misses, Moves
<1>8. ASSUME NEW t \in Threads, Hits(t) PROVE DetailsInv'
  <2>1. PICK i \in DOMAIN engines :
          /\ Moves(t, {"pop"}, "put", call[t].details, engines[i].engine)
          /\ IsWithout(engines', engines, i)
          /\ UNCHANGED <<row, edit, disposed>>
    BY <1>8 DEF Hits
  <2>2. CallNumbered(t)'
    BY <1>2, <2>1 DEF Moves, Numbered
  <2> QED BY <1>3, <1>5, <2>1, <2>2 DEF Moves
<1>9. ASSUME NEW t \in Threads, Creates(t) PROVE DetailsInv'
  <2>1. CallNumbered(t)'
    BY <1>2, <1>9 DEF Creates, Moves, Numbered
  <2> QED BY <1>3, <1>4, <1>9, <2>1 DEF Creates, Moves
<1>10. ASSUME NEW t \in Threads, call[t].pc \in Holding,
              call'[t].engine = call[t].engine, call'[t].details = call[t].details
       PROVE  CallNumbered(t)'
  BY <1>2, <1>10 DEF Numbered
<1>11. ASSUME NEW t \in Threads, Puts(t) PROVE DetailsInv'
  <2>1. CallNumbered(t)'
    BY <1>10, <1>11 DEF Puts, Moves, Holding
  <2> DEFINE key == CacheKey(call[t].details)
             entry == [key |-> key, engine |-> call[t].engine]
  <2>2. entry.engine = call[t].engine
    OBVIOUS
  <2>3. Numbered(call[t].engine.details)
    BY <1>2, <1>11 DEF Puts, Moves, Holding
  <2>4. IsSetTo(engines', engines, key, entry)
    BY <1>11 DEF Puts
  <2> HIDE DEF entry, key
  <2>5. EntriesNumbered'
    BY <1>2, <2>2, <2>3, <2>4 DEF IsSetTo, Numbered
  <2> QED BY <1>3, <1>11, <2>1, <2>5 DEF Puts, Moves
<1>12. ASSUME NEW t \in Threads, Trims(t) PROVE DetailsInv'
  <2>1. CallNumbered(t)'
    BY <1>10, <1>12 DEF Trims, Moves, Holding
  <2> QED BY <1>3, <1>4, <1>12, <2>1 DEF Trims, Moves
<1>13. ASSUME NEW t \in Threads, Fails(t) PROVE DetailsInv'
  <2>1. CallNumbered(t)'
    BY <1>10, <1>13 DEF Fails, Moves, Holding
  <2> QED BY <1>3, <1>4, <1>13, <2>1 DEF Fails, Moves
<1>14. ASSUME NEW t \in Threads, Evicts(t) PROVE DetailsInv'
  <2>1. CallNumbered(t)'
    BY <1>10, <1>14 DEF Evicts, Moves, Holding
  <2> QED BY <1>3, <1>5, <1>14, <2>1 DEF Evicts, Moves
<1>15. ASSUME NEW t \in Threads, Leaves(t) PROVE DetailsInv'
  <2>1. CallNumbered(t)'
    BY <1>2, <1>15 DEF Leaves, Moves, Holding, Numbered
  <2> QED BY <1>3, <1>4, <1>15, <2>1 DEF Leaves, Moves
<1>16. ASSUME UNCHANGED <<engines, call>>, \A s \in Sources : Numbered(row[s])',
              (edit.open => Numbered(edit.details) /\ edit.details.change # 0)'
       PROVE  DetailsInv'
  BY <1>2, <1>16 DEF DetailsInv, Numbered
<1>17. ASSUME NEW s \in Sources, StartEdit(s) PROVE DetailsInv'
  <2>1. edit'.details.change = 1 /\ edit'.details.updated_at = clock + 1
    BY <1>17 DEF StartEdit
  <2>2. Numbered(edit.details)'
    BY <1>1, <2>1, BoundsAssumption DEF Numbered
  <2> QED BY <1>2, <1>16, <1>17, <2>1, <2>2 DEF StartEdit, Numbered
<1>18. ASSUME ChangeAgain PROVE DetailsInv'
  <2>1. edit \in [open : {TRUE}, details : Details] /\ edit.details \in Details
    BY <1>1, <1>18, EditIs DEF ChangeAgain
  <2>2. /\ edit'.details.change = edit.details.change + 1
        /\ edit'.details.updated_at = edit.details.updated_at
    BY <1>18, <2>1 DEF ChangeAgain, Details
  <2>3. edit.details.change \in Nat /\ edit.details.change # 0
    BY <1>2, <1>18, <2>1 DEF ChangeAgain, Details
  <2>4. Numbered(edit.details)'
    BY <1>2, <1>18, <2>2, <2>3 DEF ChangeAgain, Numbered
  <2> QED BY <1>2, <1>16, <1>18, <2>2, <2>3, <2>4 DEF ChangeAgain, Numbered
<1>19. ASSUME EndEdit PROVE DetailsInv'
  <2>1. \A s \in Sources : row'[s] \in {row[s], edit.details}
    BY <1>1, <1>19 DEF EndEdit
  <2>2. ~edit'.open
    BY <1>19 DEF EndEdit, NoEdit
  <2> QED BY <1>2, <1>16, <1>19, <2>1, <2>2 DEF EndEdit, Numbered
<1>20. ASSUME Edits PROVE DetailsInv'
  <2>1. CASE UNCHANGED <<row, edit>>
    BY <1>2, <1>16, <1>20, <2>1 DEF Edits, Numbered
  <2> QED BY <1>17, <1>18, <1>19, <1>20, <2>1 DEF Edits, Editing
<1> QED
  BY <1>6, <1>7, <1>8, <1>9, <1>11, <1>12, <1>13, <1>14, <1>15, <1>20, StepIs

-----------------------------------------------------------------------------
(***************************************************************************)
(* The invariant, and what follows from it at once.                        *)
(***************************************************************************)

\* The invariant holds at first.
LEMMA InitHasInvariant == Init => IInv
<1> SUFFICES ASSUME Init PROVE IInv
  OBVIOUS
<1>1. engines = <<>> /\ disposed = {} /\ \A i \in DOMAIN engines : FALSE
  BY DEF Init
<1>2. PICK s \in Sources : call = [t \in Threads |-> [pc |-> "idle", details |-> Fresh(s), engine |-> NoEngine]]
  BY DEF Init
<1>3. \A t \in Threads : call[t].pc = "idle" /\ call[t].details = Fresh(s) /\ call[t].engine = NoEngine
  BY <1>2
<1>4. \A r \in Sources : Numbered(Fresh(r))
  BY DEF Numbered, Fresh
<1>5. ~edit.open
  BY DEF Init, NoEdit
<1>6. KeysInv
  BY <1>1, <1>3 DEF KeysInv, EntriesInv, ThreadInv, Holding
<1>7. OpenInv
  BY <1>1, <1>3 DEF OpenInv
<1>8. DetailsInv
  BY <1>1, <1>3, <1>4, <1>5 DEF DetailsInv, Init, Holding
<1> QED BY <1>6, <1>7, <1>8, InitHasTypes DEF IInv

\* The inductive invariant holds of every state get_engine() and the edits can reach.
THEOREM Invariant ==
  ASSUME IsFiniteSet(Threads)
  PROVE  Spec => []IInv
<1>1. IInv /\ [Next]_vars => IInv'
  BY TypeIsKept, KeysAreKept, OpenIsKept, DetailsAreKept DEF IInv
<1> QED BY <1>1, InitHasInvariant, PTL DEF Spec

\* The dict, the rows and the locals of get_engine() keep their types.
THEOREM TypeCorrect ==
  ASSUME IsFiniteSet(Threads)
  PROVE  Spec => []TypeOK
<1>1. IInv => TypeOK
  BY DEF IInv
<1> QED BY <1>1, Invariant, PTL

\* Whatever the threads interleave, get_engine() returns an engine of the data source and the
\* updated_at it was called with.
THEOREM CallersGetTheKeyTheyAskFor ==
  ASSUME IsFiniteSet(Threads)
  PROVE  Spec => []EngineIsOfTheKey
<1>1. IInv => EngineIsOfTheKey
  BY DEF IInv, KeysInv, ThreadInv, Holding, EngineIsOfTheKey
<1> QED BY <1>1, Invariant, PTL

\* An engine that was disposed of is never in the cache again, nor is one in it twice.
THEOREM CacheHoldsOpenEngines ==
  ASSUME IsFiniteSet(Threads)
  PROVE  Spec => []CachedEnginesAreOpen
<1>1. IInv => CachedEnginesAreOpen
  BY EnginesAreUnique DEF IInv, KeysInv, OpenInv, CachedEnginesAreOpen
<1> QED BY <1>1, Invariant, PTL

\* With one change to a transaction, the engine get_engine() returns connects with the details
\* its caller read.
THEOREM CallersGetTheDetailsTheyRead ==
  ASSUME IsFiniteSet(Threads)
  PROVE  Spec => []EngineHasDetails
<1>1. ASSUME IInv, NEW t \in Threads, call[t].pc = "use",
             call[t].engine.details.change <= 1, call[t].details.change <= 1
      PROVE  call[t].engine.details = call[t].details
  <2> DEFINE have == call[t].engine.details
             asked == call[t].details
  <2>1. /\ call[t].engine \in Engine /\ CacheKey(have) = CacheKey(asked)
        /\ Numbered(have) /\ Numbered(asked)
    BY <1>1 DEF IInv, KeysInv, ThreadInv, DetailsInv, Holding
  <2>2. have \in Details /\ asked \in Details
    BY <1>1, <2>1 DEF IInv, TypeOK, Call, Engine
  <2>3. have.change <= 1 /\ asked.change <= 1
    BY <1>1
  <2> HIDE DEF have, asked
  <2>4. have.source = asked.source /\ have.updated_at = asked.updated_at
    BY <2>1 DEF CacheKey
  <2>5. have.change = asked.change
    BY <2>1, <2>2, <2>3, <2>4, BoundsAssumption DEF Numbered, Details
  <2>6. have = asked
    BY <2>2, <2>4, <2>5 DEF Details
  <2> QED BY <2>6 DEF have, asked
<1>2. IInv => EngineHasDetails
  BY <1>1 DEF EngineHasDetails
<1> QED BY <1>2, Invariant, PTL

-----------------------------------------------------------------------------
(***************************************************************************)
(* The size of the cache.                                                  *)
(***************************************************************************)

Trimming == {t \in Threads : call[t].pc \in {"trim", "evict"}}

\* The dict is finite.
LEMMA SizesAre ==
  ASSUME TypeOK
  PROVE  Len(engines) \in Nat /\ DOMAIN engines = 1..Len(engines)
<1>1. engines \in Seq(Entry)
  BY DEF TypeOK, Entry
<1> QED BY <1>1

\* A thread that makes the dict larger is one that has still to trim it.
LEMMA BoundIsKept ==
  ASSUME IsFiniteSet(Threads), TypeOK, TypeOK', KeysInv, CacheIsBounded, [Next]_vars
  PROVE  CacheIsBounded'
<1>1. /\ IsFiniteSet(Trimming) /\ Cardinality(Trimming) \in Nat
      /\ IsFiniteSet(Trimming') /\ Cardinality(Trimming') \in Nat
  BY FS_Subset, FS_CardinalityType DEF Trimming
<1>2. Len(engines) \in Nat /\ Len(engines') \in Nat
  BY SizesAre
<1>3. Len(engines) <= MaxCached + Cardinality(Trimming) /\ MaxCached \in Nat
  BY MaxCachedAssumption DEF CacheIsBounded, Trimming
<1>4. ASSUME Len(engines') <= MaxCached + Cardinality(Trimming') PROVE CacheIsBounded'
  BY <1>4 DEF CacheIsBounded, Trimming
<1>5. ASSUME NEW t \in Threads, NEW from, NEW pc, NEW d, NEW e, Moves(t, from, pc, d, e)
      PROVE  /\ pc \in {"trim", "evict"} => Trimming' = Trimming \cup {t}
             /\ pc \notin {"trim", "evict"} => Trimming' = Trimming \ {t}
  BY <1>5 DEF Moves, Trimming
<1>6. ASSUME Trimming' = Trimming, Len(engines') <= Len(engines) PROVE CacheIsBounded'
  BY <1>1, <1>2, <1>3, <1>4, <1>6
<1>7. ASSUME Len(engines') <= MaxCached PROVE CacheIsBounded'
  BY <1>1, <1>2, <1>3, <1>4, <1>7
<1>8. ASSUME NEW t \in Threads, Enters(t) \/ Misses(t) \/ Creates(t) \/ Leaves(t) PROVE CacheIsBounded'
  <2>1. t \notin Trimming /\ UNCHANGED engines
    BY <1>8 DEF Enters, Misses, Creates, Leaves, Moves, Trimming
  <2>2. Trimming' = Trimming
    BY <1>5, <1>8, <2>1 DEF Enters, Misses, Creates, Leaves
  <2> QED BY <1>2, <1>6, <2>1, <2>2
<1>9. ASSUME NEW t \in Threads, Hits(t) PROVE CacheIsBounded'
  <2>1. t \notin Trimming
    BY <1>9 DEF Hits, Moves, Trimming
  <2>2. Trimming' = Trimming
    BY <1>5, <1>9, <2>1 DEF Hits
  <2>3. Len(engines') <= Len(engines)
    BY <1>2, <1>9 DEF Hits, IsWithout
  <2> QED BY <1>6, <2>2, <2>3
<1>10. ASSUME NEW t \in Threads, Puts(t) PROVE CacheIsBounded'
  <2>1. t \notin Trimming
    BY <1>10 DEF Puts, Moves, Trimming
  <2>2. Trimming' = Trimming \cup {t}
    BY <1>5, <1>10 DEF Puts
  <2>3. Cardinality(Trimming') = Cardinality(Trimming) + 1
    BY <1>1, <2>1, <2>2, FS_AddElement
  <2>4. Len(engines') <= Len(engines) + 1
    BY <1>10 DEF Puts, IsSetTo
  <2> QED BY <1>1, <1>2, <1>3, <1>4, <2>3, <2>4
<1>11. ASSUME NEW t \in Threads, Trims(t) PROVE CacheIsBounded'
  <2>1. t \in Trimming /\ UNCHANGED engines
    BY <1>11 DEF Trims, Moves, Trimming
  <2>2. CASE Len(engines) > MaxCached
    <3>1. Trimming' = Trimming
      BY <1>5, <1>11, <2>1, <2>2 DEF Trims
    <3> QED BY <1>2, <1>6, <2>1, <3>1
  <2>3. CASE ~(Len(engines) > MaxCached)
    BY <1>2, <1>3, <1>7, <2>1, <2>3
  <2> QED BY <2>2, <2>3
<1>12. ASSUME NEW t \in Threads, Fails(t) PROVE CacheIsBounded'
  <2>1. Len(engines') = 0
    BY <1>12 DEF Fails
  <2> QED BY <1>3, <1>7, <2>1
<1>13. ASSUME NEW t \in Threads, Evicts(t) PROVE CacheIsBounded'
  <2>1. t \in Trimming
    BY <1>13 DEF Evicts, Moves, Trimming
  <2>2. Trimming' = Trimming
    BY <1>5, <1>13, <2>1 DEF Evicts
  <2>3. Len(engines') <= Len(engines)
    BY <1>2, <1>13 DEF Evicts, IsWithout
  <2> QED BY <1>6, <2>2, <2>3
<1>14. ASSUME Edits PROVE CacheIsBounded'
  <2>1. Trimming' = Trimming /\ Len(engines') <= Len(engines)
    BY <1>2, <1>14 DEF Edits, Trimming
  <2> QED BY <1>6, <2>1
<1> QED
  BY <1>8, <1>9, <1>10, <1>11, <1>12, <1>13, <1>14, StepIs

\* The dict is never larger than _MAX_CACHED_ENGINES and the threads that have still to trim it.
THEOREM CacheStaysBounded ==
  ASSUME IsFiniteSet(Threads)
  PROVE  Spec => []CacheIsBounded
<1>1. Init => CacheIsBounded
  <2> SUFFICES ASSUME Init PROVE CacheIsBounded
    OBVIOUS
  <2>1. Len(engines) = 0
    BY DEF Init
  <2>2. IsFiniteSet(Trimming) /\ Cardinality(Trimming) \in Nat
    BY FS_Subset, FS_CardinalityType DEF Trimming
  <2> QED BY <2>1, <2>2, MaxCachedAssumption DEF CacheIsBounded, Trimming
<1>2. IInv /\ IInv' /\ CacheIsBounded /\ [Next]_vars => CacheIsBounded'
  BY BoundIsKept DEF IInv
<1> QED BY <1>1, <1>2, Invariant, PTL DEF Spec

-----------------------------------------------------------------------------
(***************************************************************************)
(* The entries left for an eviction.                                       *)
(***************************************************************************)

EntryKeys == {engines[i].key : i \in DOMAIN engines}

PutKeys == {CacheKey(call[t].details) : t \in Putting}

\* There are as many keys in the dict as entries.
LEMMA EntryKeysAreCounted ==
  ASSUME TypeOK
  PROVE  /\ IsFiniteSet(EntryKeys)
         /\ EntriesInv => Cardinality(EntryKeys) = Len(engines)
<1> DEFINE f == [i \in DOMAIN engines |-> engines[i].key]
<1>1. f \in Surjection(DOMAIN engines, EntryKeys)
  BY DEF Surjection, EntryKeys
<1>2. IsFiniteSet(DOMAIN engines) /\ Cardinality(DOMAIN engines) = Len(engines)
  <2>1. Len(engines) \in Nat /\ DOMAIN engines = 1..Len(engines)
    BY SizesAre
  <2>2. IsFiniteSet(1..Len(engines)) /\ Cardinality(1..Len(engines)) = Len(engines)
    <3>1. ASSUME NEW n \in Nat PROVE IsFiniteSet(1..n) /\ Cardinality(1..n) = n
      BY FS_Interval
    <3> QED BY <2>1, <3>1
  <2> QED BY <2>1, <2>2
<1>3. EntriesInv => f \in Injection(DOMAIN engines, EntryKeys)
  BY <1>1 DEF EntriesInv, Injection, IsInjective, Surjection
<1> HIDE DEF f
<1> QED BY <1>1, <1>2, <1>3, FS_Surjection

\* There are no more keys about to be put than threads about to put one.
LEMMA PutKeysAreCounted ==
  ASSUME IsFiniteSet(Threads)
  PROVE  /\ IsFiniteSet(PutKeys) /\ IsFiniteSet(Putting)
         /\ Cardinality(PutKeys) <= Cardinality(Putting)
<1> DEFINE f == [t \in Putting |-> CacheKey(call[t].details)]
<1>1. f \in Surjection(Putting, PutKeys)
  BY DEF Surjection, PutKeys
<1>2. IsFiniteSet(Putting)
  BY FS_Subset DEF Putting
<1> HIDE DEF f
<1> QED BY <1>1, <1>2, FS_Surjection

\* Keys is finite.
LEMMA KeysAre ==
  ASSUME IsFiniteSet(Threads), TypeOK
  PROVE  Keys = EntryKeys \cup PutKeys /\ IsFiniteSet(Keys) /\ Cardinality(Keys) \in Nat
<1>1. Keys = EntryKeys \cup PutKeys
  BY DEF Keys, EntryKeys, PutKeys
<1>2. IsFiniteSet(EntryKeys \cup PutKeys)
  BY EntryKeysAreCounted, PutKeysAreCounted, FS_Union
<1> QED BY <1>1, <1>2, FS_CardinalityType

\* Keys is finite in the next state.
LEMMA KeysWillBe ==
  ASSUME IsFiniteSet(Threads)
  PROVE  TypeOK' => IsFiniteSet(Keys)' /\ (Cardinality(Keys) \in Nat)'
<1>1. TypeOK => IsFiniteSet(Keys) /\ Cardinality(Keys) \in Nat
  BY KeysAre
<1> QED BY <1>1, PTL

\* Only an eviction loses a key.
LEMMA KeysStay ==
  ASSUME IsFiniteSet(Threads), TypeOK, KeysInv, [Next]_vars
  PROVE  \/ Keys \subseteq Keys'
         \/ \E t \in Threads : Evicts(t) /\ Keys \ {engines[1].key} \subseteq Keys'
<1>1. ASSUME NEW t \in Threads, \A u \in Threads \ {t} : call'[u] = call[u],
             EntryKeys \subseteq Keys',
             call[t].pc = "put" => CacheKey(call[t].details) \in Keys'
      PROVE  Keys \subseteq Keys'
  BY <1>1 DEF Keys, EntryKeys, Putting, CacheKey
<1>2. ASSUME UNCHANGED engines PROVE EntryKeys \subseteq Keys'
  BY <1>2 DEF Keys, EntryKeys
<1>3. ASSUME NEW t \in Threads,
             Enters(t) \/ Misses(t) \/ Creates(t) \/ Trims(t) \/ Fails(t) \/ Leaves(t)
      PROVE  Keys \subseteq Keys'
  <2>1. call[t].pc # "put" /\ UNCHANGED engines /\ \A u \in Threads \ {t} : call'[u] = call[u]
    BY <1>3 DEF Enters, Misses, Creates, Trims, Fails, Leaves, Moves
  <2> QED BY <1>1, <1>2, <2>1
<1>4. ASSUME NEW t \in Threads, Hits(t) PROVE Keys \subseteq Keys'
  <2>1. PICK i \in DOMAIN engines :
          /\ engines[i].key = CacheKey(call[t].details)
          /\ Moves(t, {"pop"}, "put", call[t].details, engines[i].engine)
          /\ IsWithout(engines', engines, i)
    BY <1>4 DEF Hits
  <2>2. engines[i].key \in Keys'
    BY <2>1 DEF Moves, Keys, Putting, CacheKey
  <2>3. \A k \in DOMAIN engines : k # i => engines[k].key \in Keys'
    BY <2>1 DEF IsWithout, Keys
  <2>4. EntryKeys \subseteq Keys'
    BY <2>2, <2>3 DEF EntryKeys
  <2> QED BY <1>1, <2>1, <2>4 DEF Moves
<1>5. ASSUME NEW t \in Threads, Puts(t) PROVE Keys \subseteq Keys'
  <2> DEFINE key == CacheKey(call[t].details)
             entry == [key |-> key, engine |-> call[t].engine]
  <2>1. entry.key = key
    OBVIOUS
  <2>2. IsSetTo(engines', engines, key, entry)
    BY <1>5 DEF Puts
  <2> HIDE DEF entry, key
  <2>3. key \in Keys'
    BY <2>1, <2>2 DEF IsSetTo, Keys
  <2>4. \A j \in DOMAIN engines : engines[j].key # key => engines[j].key \in Keys'
    BY <2>2 DEF IsSetTo, Keys
  <2>5. EntryKeys \subseteq Keys'
    BY <2>3, <2>4 DEF EntryKeys
  <2>6. CacheKey(call[t].details) \in Keys'
    BY <2>3 DEF key
  <2> QED BY <1>1, <1>5, <2>5, <2>6 DEF Puts, Moves
<1>6. ASSUME NEW t \in Threads, Evicts(t) PROVE Keys \ {engines[1].key} \subseteq Keys'
  <2>1. \A k \in DOMAIN engines : k # 1 => engines[k].key \in Keys'
    BY <1>6 DEF Evicts, IsWithout, Keys
  <2>2. call[t].pc # "put" /\ \A u \in Threads \ {t} : call'[u] = call[u]
    BY <1>6 DEF Evicts, Moves
  <2>3. PutKeys \subseteq Keys'
    BY <2>2 DEF PutKeys, Keys, Putting, CacheKey
  <2> QED BY <2>1, <2>3, KeysAre DEF EntryKeys
<1>7. ASSUME Edits PROVE Keys \subseteq Keys'
  BY <1>7 DEF Edits, Keys, Putting, CacheKey
<1> QED
  BY <1>3, <1>4, <1>5, <1>6, <1>7, StepIs

\* Every step keeps PlacesInv.
LEMMA PlacesAreKept ==
  ASSUME IsFiniteSet(Threads), TypeOK, TypeOK', KeysInv, PlacesInv, [Next]_vars
  PROVE  PlacesInv'
<1>1. /\ IsFiniteSet(Evicting) /\ Cardinality(Evicting) \in Nat
      /\ IsFiniteSet(Evicting') /\ Cardinality(Evicting') \in Nat
      /\ Cardinality(Evicting') <= Cardinality(Threads) /\ Cardinality(Threads) \in Nat
      /\ MaxCached \in Nat
  BY FS_Subset, FS_CardinalityType, MaxCachedAssumption DEF Evicting
<1>2. /\ IsFiniteSet(Keys) /\ Cardinality(Keys) \in Nat
      /\ IsFiniteSet(Keys') /\ Cardinality(Keys') \in Nat
  <2>1. IsFiniteSet(Keys)' /\ (Cardinality(Keys) \in Nat)'
    BY KeysWillBe
  <2> QED BY <2>1, KeysAre
<1>3. Evicting # {} =>
         Cardinality(Keys) + Cardinality(Threads) >= MaxCached + 1 + Cardinality(Evicting)
  BY DEF PlacesInv
<1>4. Evicting # {} <=> Cardinality(Evicting) # 0
  BY <1>1, FS_EmptySet
<1>5. ASSUME Keys \subseteq Keys', Evicting' \subseteq Evicting PROVE PlacesInv'
  <2>1. Cardinality(Keys) <= Cardinality(Keys') /\ Cardinality(Evicting') <= Cardinality(Evicting)
    BY <1>1, <1>2, <1>5, FS_Subset
  <2> QED BY <1>1, <1>2, <1>3, <1>5, <2>1 DEF PlacesInv
<1>6. ASSUME NEW t \in Threads, Trims(t), Len(engines) > MaxCached PROVE PlacesInv'
  <2>1. EntryKeys \subseteq Keys' /\ Cardinality(EntryKeys) > MaxCached
    <3>1. EntryKeys' = EntryKeys /\ EntryKeys' \subseteq Keys'
      BY <1>6, KeysAre DEF Trims, EntryKeys, Keys
    <3> QED BY <1>6, <3>1, EntryKeysAreCounted DEF KeysInv
  <2>2. Cardinality(EntryKeys) \in Nat /\ Cardinality(EntryKeys) <= Cardinality(Keys')
    BY <1>2, <2>1, EntryKeysAreCounted, FS_CardinalityType, FS_Subset
  <2> QED BY <1>1, <1>2, <2>1, <2>2 DEF PlacesInv
<1>7. ASSUME NEW t \in Threads, Evicts(t), Keys \ {engines[1].key} \subseteq Keys' PROVE PlacesInv'
  <2>1. Cardinality(Keys) - 1 <= Cardinality(Keys')
    <3>1. /\ IsFiniteSet(Keys \ {engines[1].key})
          /\ Cardinality(Keys \ {engines[1].key}) \in {Cardinality(Keys) - 1, Cardinality(Keys)}
      BY <1>2, FS_RemoveElement
    <3>2. Cardinality(Keys \ {engines[1].key}) <= Cardinality(Keys')
      BY <1>2, <1>7, FS_Subset
    <3> QED BY <1>2, <3>1, <3>2
  <2>2. t \in Evicting /\ Evicting' = Evicting \ {t}
    BY <1>7 DEF Evicts, Moves, Evicting
  <2>3. Cardinality(Evicting') = Cardinality(Evicting) - 1
    BY <1>1, <2>2, FS_RemoveElement
  <2> QED BY <1>1, <1>2, <1>3, <2>1, <2>2, <2>3 DEF PlacesInv
<1>8. ASSUME NEW t \in Threads,
             \/ Enters(t) \/ Misses(t) \/ Hits(t) \/ Creates(t) \/ Puts(t) \/ Fails(t) \/ Evicts(t) \/ Leaves(t)
             \/ Trims(t) /\ ~(Len(engines) > MaxCached)
      PROVE  Evicting' \subseteq Evicting
  BY <1>8 DEF Enters, Misses, Hits, Creates, Puts, Fails, Evicts, Leaves, Trims, Moves, Evicting
<1>9. ASSUME Edits PROVE Evicting' \subseteq Evicting
  BY <1>9 DEF Edits, Evicting
<1>10. CASE Keys \subseteq Keys'
  BY <1>5, <1>6, <1>8, <1>9, <1>10, StepIs
<1> QED BY <1>7, <1>10, KeysStay

\* With two places for each other thread, an eviction cannot meet an empty dict: all keys would
\* be about to be put, and too many threads are needed to put them.
LEMMA EvictionFindsAnEntry ==
  ASSUME IsFiniteSet(Threads), TypeOK, PlacesInv,
         2 * (Cardinality(Threads) - 1) <= MaxCached, NEW t \in Threads, call[t].pc = "evict"
  PROVE  engines # <<>>
<1> SUFFICES ASSUME engines = <<>> PROVE FALSE
  OBVIOUS
<1>1. Keys = PutKeys
  <2>1. DOMAIN engines = {}
    OBVIOUS
  <2> QED BY <2>1, KeysAre DEF EntryKeys
<1>2. /\ IsFiniteSet(Putting) /\ IsFiniteSet(Evicting) /\ Evicting # {}
      /\ Putting \cap Evicting = {} /\ Putting \cup Evicting \subseteq Threads
  BY FS_Subset DEF Putting, Evicting
<1>3. /\ Cardinality(Putting) \in Nat /\ Cardinality(Evicting) \in Nat
      /\ Cardinality(Threads) \in Nat /\ MaxCached \in Nat
  BY <1>2, FS_CardinalityType, MaxCachedAssumption
<1>4. Cardinality(Evicting) >= 1
  BY <1>2, <1>3, FS_EmptySet
<1>5. Cardinality(Putting) + Cardinality(Evicting) <= Cardinality(Threads)
  <2>1. Cardinality(Putting \cup Evicting) = Cardinality(Putting) + Cardinality(Evicting)
    <3>1. Cardinality(Putting \cap Evicting) = 0
      BY <1>2, FS_EmptySet
    <3>2. Cardinality(Putting \cup Evicting)
             = Cardinality(Putting) + Cardinality(Evicting) - Cardinality(Putting \cap Evicting)
      BY <1>2, FS_Union
    <3> QED BY <1>3, <3>1, <3>2
  <2> QED BY <1>2, <2>1, FS_Subset
<1>6. Cardinality(Keys) \in Nat /\ Cardinality(Keys) <= Cardinality(Putting)
  BY <1>1, KeysAre, PutKeysAreCounted
<1>7. Cardinality(Keys) + Cardinality(Threads) >= MaxCached + 1 + Cardinality(Evicting)
  BY <1>2 DEF PlacesInv
<1> QED BY <1>3, <1>4, <1>5, <1>6, <1>7

\* With two places for each other thread, popitem() never raises KeyError.
THEOREM EvictionNeverFails ==
  ASSUME IsFiniteSet(Threads)
  PROVE  Spec => []NoKeyError
<1>1. Init => PlacesInv /\ NoKeyError
  <2> SUFFICES ASSUME Init PROVE PlacesInv /\ NoKeyError
    OBVIOUS
  <2>1. \A t \in Threads : call[t].pc = "idle"
    BY DEF Init
  <2> QED BY <2>1 DEF PlacesInv, Evicting, NoKeyError
<1>2. IInv /\ IInv' /\ PlacesInv /\ [Next]_vars => PlacesInv'
  BY PlacesAreKept DEF IInv
<1>3. ASSUME IInv, PlacesInv, NoKeyError, [Next]_vars PROVE NoKeyError'
  <2> SUFFICES ASSUME 2 * (Cardinality(Threads) - 1) <= MaxCached, NEW u \in Threads
               PROVE  call'[u].pc # "key_error"
    BY DEF NoKeyError
  <2>1. call[u].pc # "key_error"
    BY <1>3 DEF NoKeyError
  <2>2. \A t \in Threads : ~Fails(t)
    BY <1>3, EvictionFindsAnEntry DEF IInv, Fails, Moves
  <2>3. ASSUME NEW t \in Threads,
               \/ Enters(t) \/ Misses(t) \/ Hits(t) \/ Creates(t) \/ Puts(t)
               \/ Trims(t) \/ Evicts(t) \/ Leaves(t)
        PROVE  call'[u].pc # "key_error"
    BY <2>1, <2>3 DEF Enters, Misses, Hits, Creates, Puts, Trims, Evicts, Leaves, Moves
  <2>4. ASSUME Edits PROVE call'[u].pc # "key_error"
    BY <2>1, <2>4 DEF Edits
  <2> QED BY <1>3, <2>2, <2>3, <2>4, StepIs DEF IInv
<1> QED BY <1>1, <1>2, <1>3, Invariant, PTL DEF Spec

=============================================================================
