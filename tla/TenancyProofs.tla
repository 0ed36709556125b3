---------------------------- MODULE TenancyProofs ----------------------------
(***************************************************************************)
(* What holds of Tenancy for any requests, tenants, keys, workspaces and   *)
(* connections of the pool.                                                *)
(***************************************************************************)
EXTENDS Tenancy, TLAPS

-----------------------------------------------------------------------------
(***************************************************************************)
(* The inductive invariant, in parts that each serve one property.         *)
(***************************************************************************)

\* A request whose session is open, and one whose key has been verified besides.
Active(r) == request[r].pc \notin {"new", "answered"}

Verified(r) == request[r].pc \notin {"new", "verify", "answered"}

\* What the request that holds a connection has set; if there is none, nothing is set.
HoldInv(c) ==
    IF connections[c].by = None
    THEN connections[c].setting = None
    ELSE LET r == connections[c].by
         IN  /\ Active(r)
             /\ connections[c].setting \in {None, request[r].tenant}
             /\ request[r].pc = "verify" => connections[c].setting = None
             /\ (request[r].pc \notin {"verify", "scope"} /\ request[r].call.route \in Scoped)
                    => connections[c].setting = request[r].tenant

\* An active request holds one connection.
PoolInv ==
    /\ \A c, d \in Connections : connections[c].by # None /\ connections[c].by = connections[d].by => c = d
    /\ \A r \in Requests : Active(r) => \E c \in Connections : connections[c].by = r
    /\ \A c \in Connections : HoldInv(c)

\* The routes that come to a step.
Routes(pc) ==
    CASE pc = "scope" -> Scoped
      [] pc \in {"insert", "refresh"} -> {"create_workspace"}
      [] pc = "erase" -> {"delete_workspace"}
      [] pc = "found" -> {"create_tenant"}
      [] pc \in {"lock", "cascade"} -> {"delete_tenant"}
      [] pc \in {"touch", "commit"} -> {"create_workspace", "delete_workspace", "create_tenant", "delete_tenant"}
      [] OTHER -> Scoped \cup {"create_tenant", "delete_tenant"}

\* What a session knows and holds is its own.
SessionInv(r) ==
    LET q == request[r]
    IN  /\ q.call.route \in Routes(q.pc)
        /\ Verified(r) => q.key = q.secret /\ q.tenant = KeyTenant[q.secret]
        /\ q.pc # "answered" => q.status = None
        /\ q.touched => Verified(r)
        /\ q.pc \in {"insert", "refresh"} => q.touched
        /\ q.inserted # {} =>
              /\ q.pc \in {"refresh", "commit"}
              /\ q.call.route = "create_workspace"
              /\ q.inserted = {NewRow(r)}
        /\ \A w \in q.rows : w.tenant = KeyTenant[q.secret]

\* A key in the table is of a tenant that is there, and while a transaction holds
\* the lock on a key's row nobody is about to take it away.
LockInv ==
    /\ \A k \in Keys : api_keys[k] # None => Live(KeyTenant[k])
    /\ \A r \in Requests : request[r].touched => api_keys[request[r].key] # None
    /\ \A r, q \in Requests :
        (r # q /\ request[r].touched /\ request[q].pc = "commit")
            => ~Drops(q, KeyTenant[request[r].key])

\* The workspace a request creates appears with its answer.
CreatedInv ==
    \A w \in workspaces : w.id \in Requests =>
        request[w.id].pc = "answered" /\ request[w.id].status = "ok"

IInv ==
    /\ TypeOK
    /\ PoolInv
    /\ \A r \in Requests : SessionInv(r)
    /\ LockInv
    /\ CreatedInv

-----------------------------------------------------------------------------
(***************************************************************************)
(* What the steps have in common.                                          *)
(***************************************************************************)

\* None is no row of api_keys.
LEMMA NoneIsNoRow == None \notin Requests /\ None \notin Tenants /\ None \notin Keys /\ None \notin ApiKey
BY TenancyAssumption

\* An answer changes the request that is answered and the connection it held.
LEMMA AnswerShape ==
    ASSUME TypeOK, NEW r \in Requests, NEW status \in Statuses, NEW rows \in SUBSET Workspace,
           Answer(r, status, rows)
    PROVE  /\ request' \in [Requests -> Request]
           /\ \A q \in Requests \ {r} : request'[q] = request[q]
           /\ request'[r].pc = "answered" /\ request'[r].status = status
           /\ request'[r].rows = rows /\ ~request'[r].touched /\ request'[r].inserted = {}
           /\ request'[r].secret = request[r].secret /\ request'[r].call = request[r].call
           /\ connections' \in [Connections -> [by : Requests \cup {None}, setting : Tenants \cup {None}]]
           /\ \A c \in Connections :
                 connections'[c] = IF connections[c].by = r THEN Free ELSE connections[c]
<1>1. /\ request \in [Requests -> Request]
      /\ connections \in [Connections -> [by : Requests \cup {None}, setting : Tenants \cup {None}]]
    BY DEF TypeOK
<1>2. request' = [request EXCEPT
          ![r].pc = "answered", ![r].status = status, ![r].rows = rows,
          ![r].touched = FALSE, ![r].inserted = {}]
    BY DEF Answer
<1> DEFINE answered == [request[r] EXCEPT !.pc = "answered", !.status = status, !.rows = rows,
                                          !.touched = FALSE, !.inserted = {}]
<1>a. request[r] \in Request
    BY <1>1
<1>b. answered \in Request
    BY <1>a DEF Request, Steps
<1>c. /\ answered.pc = "answered" /\ answered.status = status /\ answered.rows = rows
      /\ answered.touched = FALSE /\ answered.inserted = {}
      /\ answered.secret = request[r].secret /\ answered.call = request[r].call
    BY <1>a DEF Request
<1>d. request' = [request EXCEPT ![r] = answered]
    BY <1>1, <1>2, <1>a DEF Request
<1> HIDE DEF answered
<1>3. /\ request' \in [Requests -> Request]
      /\ \A q \in Requests \ {r} : request'[q] = request[q]
      /\ request'[r] = answered
    BY <1>1, <1>b, <1>d
<1>4. connections' = [c \in Connections |-> IF connections[c].by = r THEN Free ELSE connections[c]]
    BY DEF Answer, EndTransaction
<1>5. Free \in [by : Requests \cup {None}, setting : Tenants \cup {None}]
    BY DEF Free
<1>q. QED BY <1>1, <1>3, <1>4, <1>5, <1>c

\* A step within a request changes where it is.
LEMMA GotoShape ==
    ASSUME TypeOK, NEW r \in Requests, NEW pc \in Steps, Goto(r, pc)
    PROVE  /\ request' \in [Requests -> Request]
           /\ \A q \in Requests \ {r} : request'[q] = request[q]
           /\ request'[r] = [request[r] EXCEPT !.pc = pc]
           /\ request'[r].pc = pc
           /\ request'[r].secret = request[r].secret /\ request'[r].call = request[r].call
           /\ request'[r].key = request[r].key /\ request'[r].tenant = request[r].tenant
           /\ request'[r].status = request[r].status /\ request'[r].touched = request[r].touched
           /\ request'[r].inserted = request[r].inserted /\ request'[r].rows = request[r].rows
BY DEF TypeOK, Goto, Request

\* An answer keeps what holds of the pool and of the sessions.
LEMMA AnswerKeepsSessions ==
    ASSUME TypeOK, PoolInv, \A q \in Requests : SessionInv(q),
           NEW r \in Requests, request[r].pc # "answered",
           NEW status \in Statuses, NEW rows \in SUBSET Workspace,
           \A w \in rows : w.tenant = KeyTenant[request[r].secret],
           Answer(r, status, rows)
    PROVE  PoolInv' /\ \A q \in Requests : SessionInv(q)'
<1>1. /\ \A q \in Requests \ {r} : request'[q] = request[q]
      /\ request'[r].pc = "answered" /\ request'[r].rows = rows
      /\ ~request'[r].touched /\ request'[r].inserted = {}
      /\ request'[r].secret = request[r].secret /\ request'[r].call = request[r].call
    BY AnswerShape
<1>2. \A c \in Connections :
        connections'[c] = IF connections[c].by = r THEN Free ELSE connections[c]
    BY AnswerShape
<1>3. connections \in [Connections -> [by : Requests \cup {None}, setting : Tenants \cup {None}]]
    BY DEF TypeOK
<1>4. PoolInv'
  <2>1. \A c \in Connections : connections'[c].by # None =>
            connections'[c] = connections[c] /\ connections[c].by \in Requests \ {r}
    BY <1>2, <1>3 DEF Free
  <2>2. \A c, d \in Connections :
            connections'[c].by # None /\ connections'[c].by = connections'[d].by => c = d
    BY <2>1 DEF PoolInv
  <2>3. ASSUME NEW q \in Requests, Active(q)'
        PROVE  \E c \in Connections : connections'[c].by = q
    <3>1. q # r /\ Active(q)
        BY <2>3, <1>1 DEF Active
    <3>2. PICK c \in Connections : connections[c].by = q
        BY <3>1 DEF PoolInv
    <3>q. QED BY <3>1, <3>2, <1>2
  <2>4. ASSUME NEW c \in Connections PROVE HoldInv(c)'
    <3>1. HoldInv(c)
        BY DEF PoolInv
    <3>2. CASE connections'[c].by = None
        BY <3>1, <3>2, <1>2, <1>3 DEF HoldInv, Free
    <3>3. CASE connections'[c].by # None
      <4>1. /\ connections'[c] = connections[c] /\ connections[c].by # None
            /\ request'[connections[c].by] = request[connections[c].by]
        BY <2>1, <3>3, <1>1
      <4>q. QED BY <3>1, <4>1 DEF HoldInv, Active
    <3>q. QED BY <3>2, <3>3
  <2>q. QED BY <2>2, <2>3, <2>4 DEF PoolInv
<1>5. ASSUME NEW q \in Requests \ {r} PROVE SessionInv(q)'
  <2>1. request'[q] = request[q] /\ SessionInv(q)
    BY <1>1
  <2>q. QED BY <2>1 DEF SessionInv, Verified, NewRow
<1>6. SessionInv(r)'
  <2>1. request[r].call.route \in Scoped \cup {"create_tenant", "delete_tenant"}
    BY DEF TypeOK, Request, Calls, Scoped
  <2>q. QED BY <2>1, <1>1 DEF SessionInv, Verified, Routes
<1>q. QED BY <1>4, <1>5, <1>6

\* An answer after which the tables are as before keeps the invariant.
LEMMA AnswerKeeps ==
    ASSUME IInv, NEW r \in Requests, request[r].pc # "answered",
           NEW status \in Statuses, NEW rows \in SUBSET Workspace,
           \A w \in rows : w.tenant = KeyTenant[request[r].secret],
           Answer(r, status, rows), UNCHANGED <<tenants, api_keys, workspaces>>, now' \in Nat
    PROVE  IInv'
<1>1. /\ TypeOK /\ PoolInv /\ LockInv /\ CreatedInv
      /\ \A q \in Requests : SessionInv(q)
    BY DEF IInv
<1>2. /\ request' \in [Requests -> Request]
      /\ connections' \in [Connections -> [by : Requests \cup {None}, setting : Tenants \cup {None}]]
      /\ \A q \in Requests \ {r} : request'[q] = request[q]
      /\ request'[r].pc = "answered" /\ ~request'[r].touched
    BY <1>1, AnswerShape
<1>3. TypeOK'
    BY <1>1, <1>2 DEF TypeOK
<1>4. PoolInv' /\ \A q \in Requests : SessionInv(q)'
    BY <1>1, AnswerKeepsSessions
<1>5. LockInv'
    BY <1>1, <1>2 DEF LockInv, Live, Drops
<1>6. CreatedInv'
    BY <1>1, <1>2 DEF CreatedInv
<1>q. QED BY <1>3, <1>4, <1>5, <1>6 DEF IInv

\* A step between two statements after the scope is set keeps what holds of the pool.
LEMMA StepKeepsPool ==
    ASSUME TypeOK, PoolInv, NEW r \in Requests, UNCHANGED connections,
           \A q \in Requests \ {r} : request'[q] = request[q],
           request'[r].call = request[r].call, request'[r].tenant = request[r].tenant,
           request[r].pc \notin {"new", "verify", "scope", "answered"},
           request'[r].pc \notin {"new", "verify", "scope", "answered"}
    PROVE  PoolInv'
<1>1. \A q \in Requests : Active(q)' <=> Active(q)
    BY DEF Active
<1>2. connections \in [Connections -> [by : Requests \cup {None}, setting : Tenants \cup {None}]]
    BY DEF TypeOK
<1>3. ASSUME NEW c \in Connections PROVE HoldInv(c)'
    BY <1>1, <1>2 DEF PoolInv, HoldInv, Active
<1>q. QED BY <1>1, <1>3 DEF PoolInv

\* What is created appears with its answer, for other requests and other tables.
LEMMA StepKeepsCreated ==
    ASSUME CreatedInv, NEW r \in Requests, request[r].pc # "answered",
           \A q \in Requests \ {r} : request'[q] = request[q], UNCHANGED workspaces
    PROVE  CreatedInv'
BY DEF CreatedInv

\* A step that takes no lock and is not the cascade of a deletion keeps the locks.
LEMMA StepKeepsLocks ==
    ASSUME LockInv, NEW r \in Requests, UNCHANGED <<tenants, api_keys>>,
           \A q \in Requests \ {r} : request'[q] = request[q],
           request'[r].call = request[r].call,
           request'[r].touched => request[r].touched /\ request'[r].key = request[r].key,
           request'[r].pc = "commit" => request[r].call.route # "delete_tenant"
    PROVE  LockInv'
<1>1. \A k \in Keys : api_keys'[k] # None => Live(KeyTenant[k])'
    BY DEF LockInv, Live
<1>2. \A q \in Requests : request'[q].touched => api_keys'[request'[q].key] # None
    BY DEF LockInv
<1>3. ASSUME NEW p \in Requests, NEW q \in Requests, p # q, request'[p].touched, request'[q].pc = "commit"
      PROVE  ~Drops(q, KeyTenant[request[p].key])'
  <2>1. request[p].touched /\ request'[p].key = request[p].key
    BY <1>3
  <2>2. CASE q = r
    BY <2>2, <1>3 DEF Drops
  <2>3. CASE q # r
    BY <2>1, <2>3, <1>3 DEF LockInv, Drops
  <2>q. QED BY <2>2, <2>3
<1>q. QED BY <1>1, <1>2, <1>3 DEF LockInv

\* The setting of a request whose scope is set is the tenant of its key.
LEMMA SettingIsHeld ==
    ASSUME TypeOK, PoolInv, NEW c \in Connections, connections[c].by # None
    PROVE  Setting(connections[c].by) = connections[c].setting
<1>1. \A d \in Connections : connections[d].by = connections[c].by => d = c
    BY DEF PoolInv
<1>q. QED BY <1>1 DEF Setting

LEMMA SettingIsTheKeys ==
    ASSUME IInv, NEW r \in Requests, request[r].call.route \in Scoped,
           request[r].pc \notin {"new", "verify", "scope", "answered"}
    PROVE  /\ Setting(r) = request[r].tenant
           /\ request[r].tenant = KeyTenant[request[r].secret]
           /\ request[r].tenant \in Tenants
<1>1. TypeOK /\ PoolInv /\ SessionInv(r)
    BY DEF IInv
<1>2. PICK c \in Connections : connections[c].by = r
    BY <1>1 DEF PoolInv, Active
<1>3. connections[c].by # None
    BY <1>2, NoneIsNoRow
<1>4. Setting(r) = connections[c].setting
    BY <1>1, <1>2, <1>3, SettingIsHeld
<1>5. connections[c].setting = request[r].tenant
    BY <1>1, <1>2, <1>3 DEF PoolInv, HoldInv
<1>6. request[r].tenant = KeyTenant[request[r].secret]
    BY <1>1 DEF SessionInv, Verified
<1>7. request[r].secret \in Keys
    BY <1>1 DEF TypeOK, Request
<1>q. QED BY <1>4, <1>5, <1>6, <1>7, TenancyAssumption

-----------------------------------------------------------------------------
(***************************************************************************)
(* The invariant is kept, action by action.                                *)
(***************************************************************************)

LEMMA InitInv == Init => IInv
<1> SUFFICES ASSUME Init PROVE IInv
    OBVIOUS
<1>1. PICK secret \in [Requests -> Keys], call \in [Requests -> Calls] :
        request = [r \in Requests |->
            [pc |-> "new", secret |-> secret[r], call |-> call[r], key |-> None,
             tenant |-> None, used_at |-> 0,
             loaded |-> [revoked |-> FALSE, last_used_at |-> 0], touched |-> FALSE,
             inserted |-> {}, status |-> None, rows |-> {}]]
    BY DEF Init
<1>2. request \in [Requests -> Request]
    BY <1>1 DEF Request, Steps, ApiKey, Statuses
<1>3. \A r \in Requests :
        /\ request[r].pc = "new" /\ ~request[r].touched /\ request[r].inserted = {}
        /\ request[r].rows = {} /\ request[r].status = None /\ request[r].call \in Calls
    BY <1>1
<1>4. /\ tenants \in [Tenants -> {"new", "live", "gone"}]
      /\ connections \in [Connections -> [by : Requests \cup {None}, setting : Tenants \cup {None}]]
      /\ \A c \in Connections : connections[c].by = None /\ connections[c].setting = None
      /\ now \in Nat
    BY DEF Init, Free
<1>5. /\ api_keys \in [Keys -> ApiKey \cup {None}]
      /\ \A k \in Keys : api_keys[k] # None => Live(KeyTenant[k])
    BY DEF Init, ApiKey, Live
<1>6. workspaces \subseteq Workspace /\ \A w \in workspaces : w.id \in Seeds
  <2>1. PICK owner \in [Seeds -> {t \in Tenants : tenants[t] = "live"} \cup {None}], n \in Names :
            workspaces = {[id |-> i, tenant |-> owner[i], name |-> n] :
                            i \in {j \in Seeds : owner[j] # None}}
    BY DEF Init
  <2>q. QED BY <2>1 DEF Workspace, Ids
<1>7. TypeOK
    BY <1>2, <1>4, <1>5, <1>6 DEF TypeOK
<1>8. PoolInv
    BY <1>3, <1>4 DEF PoolInv, HoldInv, Active
<1>9. ASSUME NEW r \in Requests PROVE SessionInv(r)
  <2>1. request[r].call.route \in Scoped \cup {"create_tenant", "delete_tenant"}
    BY <1>3 DEF Calls, Scoped
  <2>q. QED BY <2>1, <1>3 DEF SessionInv, Routes, Verified
<1>10. LockInv
    BY <1>3, <1>5 DEF LockInv
<1>11. CreatedInv
    BY <1>6, TenancyAssumption DEF CreatedInv
<1>q. QED BY <1>7, <1>8, <1>9, <1>10, <1>11 DEF IInv

LEMMA ArriveKeeps == ASSUME IInv, NEW r \in Requests, Arrive(r) PROVE IInv'
<1>1. /\ TypeOK /\ PoolInv /\ LockInv /\ CreatedInv
      /\ \A q \in Requests : SessionInv(q)
    BY DEF IInv
<1>2. PICK d \in Connections :
        connections[d].by = None /\ connections' = [connections EXCEPT ![d].by = r]
    BY DEF Arrive
<1>3. request[r].pc = "new" /\ UNCHANGED <<tenants, api_keys, workspaces, now>>
    BY DEF Arrive
<1>4. connections \in [Connections -> [by : Requests \cup {None}, setting : Tenants \cup {None}]]
    BY <1>1 DEF TypeOK
<1>5. /\ connections' \in [Connections -> [by : Requests \cup {None}, setting : Tenants \cup {None}]]
      /\ connections'[d].by = r /\ connections'[d].setting = None
      /\ \A c \in Connections \ {d} : connections'[c] = connections[c]
    BY <1>1, <1>2, <1>4 DEF PoolInv, HoldInv
<1>6. Goto(r, "verify") /\ "verify" \in Steps
    BY DEF Arrive, Steps
<1>7. /\ request' \in [Requests -> Request]
      /\ \A q \in Requests \ {r} : request'[q] = request[q]
      /\ request'[r].pc = "verify"
      /\ request'[r].secret = request[r].secret /\ request'[r].call = request[r].call
      /\ request'[r].key = request[r].key /\ request'[r].tenant = request[r].tenant
      /\ request'[r].status = request[r].status /\ request'[r].touched = request[r].touched
      /\ request'[r].inserted = request[r].inserted /\ request'[r].rows = request[r].rows
    BY <1>1, <1>6, GotoShape
<1>8. TypeOK'
    BY <1>1, <1>3, <1>5, <1>7 DEF TypeOK
<1>9. PoolInv'
  <2>1. \A c \in Connections : connections[c].by # r
    BY <1>1, <1>3, NoneIsNoRow DEF PoolInv, HoldInv, Active
  <2>2. \A b, c \in Connections :
            connections'[b].by # None /\ connections'[b].by = connections'[c].by => b = c
    BY <2>1, <1>1, <1>5 DEF PoolInv
  <2>3. ASSUME NEW q \in Requests, Active(q)'
        PROVE  \E c \in Connections : connections'[c].by = q
    <3>1. CASE q = r
        BY <3>1, <1>5
    <3>2. CASE q # r
      <4>1. Active(q)
        BY <3>2, <2>3, <1>7 DEF Active
      <4>2. PICK c \in Connections : connections[c].by = q
        BY <4>1, <1>1 DEF PoolInv
      <4>3. c # d
        BY <4>2, <1>2, NoneIsNoRow
      <4>q. QED BY <4>2, <4>3, <1>5
    <3>q. QED BY <3>1, <3>2
  <2>4. ASSUME NEW c \in Connections PROVE HoldInv(c)'
    <3>1. CASE c = d
        BY <3>1, <1>5, <1>7 DEF HoldInv, Active
    <3>2. CASE c # d
      <4>1. connections'[c] = connections[c] /\ connections[c].by \in (Requests \ {r}) \cup {None} /\ HoldInv(c)
        BY <3>2, <2>1, <1>1, <1>4, <1>5 DEF PoolInv
      <4>2. connections[c].by # None => request'[connections[c].by] = request[connections[c].by]
        BY <4>1, <1>7
      <4>q. QED BY <4>1, <4>2 DEF HoldInv, Active
    <3>q. QED BY <3>1, <3>2
  <2>q. QED BY <2>2, <2>3, <2>4 DEF PoolInv
<1>10. ASSUME NEW q \in Requests PROVE SessionInv(q)'
  <2>1. CASE q = r
    <3>1. SessionInv(r)
        BY <1>1
    <3>q. QED BY <2>1, <3>1, <1>3, <1>7 DEF SessionInv, Verified, Routes, NewRow
  <2>2. CASE q # r
    <3>1. request'[q] = request[q] /\ SessionInv(q)
        BY <2>2, <1>1, <1>7
    <3>q. QED BY <3>1 DEF SessionInv, Verified, NewRow
  <2>q. QED BY <2>1, <2>2
<1>11. LockInv'
    BY <1>1, <1>3, <1>7, StepKeepsLocks
<1>12. CreatedInv'
    BY <1>1, <1>3, <1>7, StepKeepsCreated
<1>q. QED BY <1>8, <1>9, <1>10, <1>11, <1>12 DEF IInv

\* The routes step by step.
LEMMA RoutesOfSteps ==
    /\ Routes("scope") = Scoped
    /\ Routes("insert") = {"create_workspace"} /\ Routes("refresh") = {"create_workspace"}
    /\ Routes("erase") = {"delete_workspace"}
    /\ Routes("found") = {"create_tenant"}
    /\ Routes("lock") = {"delete_tenant"} /\ Routes("cascade") = {"delete_tenant"}
    /\ Routes("touch") = {"create_workspace", "delete_workspace", "create_tenant", "delete_tenant"}
    /\ Routes("commit") = Routes("touch")
    /\ Routes("new") = Scoped \cup {"create_tenant", "delete_tenant"}
    /\ Routes("verify") = Routes("new") /\ Routes("handler") = Routes("new")
    /\ Routes("answered") = Routes("new")
BY DEF Routes

LEMMA OtherSessions ==
    ASSUME NEW q \in Requests, SessionInv(q), request'[q] = request[q]
    PROVE  SessionInv(q)'
BY DEF SessionInv, Verified, NewRow

LEMMA VerifyKeeps == ASSUME IInv, NEW r \in Requests, Verify(r) PROVE IInv'
<1> DEFINE valid == {k \in Candidates(request[r].secret) : ~api_keys[k].revoked}
           route == request[r].call.route
<1>1. /\ TypeOK /\ PoolInv /\ LockInv /\ CreatedInv
      /\ \A q \in Requests : SessionInv(q)
    BY DEF IInv
<1>2. request[r].pc = "verify" /\ UNCHANGED <<tenants, api_keys, workspaces>>
    BY DEF Verify
<1>3. CASE Answer(r, "401", {}) /\ UNCHANGED now
  <2>1. now' \in Nat
    BY <1>1, <1>3 DEF TypeOK
  <2>q. QED BY <1>1, <1>2, <1>3, <2>1, AnswerKeeps DEF Statuses
<1>4. ASSUME NEW k \in valid, now' = now + 1, Answer(r, "403", {})
      PROVE  IInv'
  <2>1. now' \in Nat
    BY <1>1, <1>4 DEF TypeOK
  <2>q. QED BY <1>1, <1>2, <1>4, <2>1, AnswerKeeps DEF Statuses
<1>5. ASSUME NEW k \in valid, now' = now + 1, UNCHANGED connections,
             request' = [request EXCEPT
                 ![r].pc = IF route \in Scoped THEN "scope" ELSE "handler",
                 ![r].key = k,
                 ![r].tenant = KeyTenant[k],
                 ![r].used_at = now + 1,
                 ![r].loaded = api_keys[k]]
      PROVE  IInv'
  <2> DEFINE known == [request[r] EXCEPT
                          !.pc = IF route \in Scoped THEN "scope" ELSE "handler",
                          !.key = k,
                          !.tenant = KeyTenant[k],
                          !.used_at = now + 1,
                          !.loaded = api_keys[k]]
  <2>1. /\ request \in [Requests -> Request] /\ request[r] \in Request
        /\ now \in Nat /\ api_keys \in [Keys -> ApiKey \cup {None}]
    BY <1>1 DEF TypeOK
  <2>2. k \in Keys /\ api_keys[k] # None /\ k = request[r].secret
    BY DEF Candidates
  <2>3. api_keys[k] \in ApiKey /\ KeyTenant[k] \in Tenants
    BY <2>1, <2>2, TenancyAssumption
  <2>4. known \in Request
    <3>1. (IF route \in Scoped THEN "scope" ELSE "handler") \in Steps
        BY DEF Steps
    <3>2. now + 1 \in Nat /\ KeyTenant[k] \in Tenants \cup {None} /\ k \in Keys \cup {None}
        BY <2>1, <2>2, <2>3
    <3>3. api_keys[k] \in ApiKey
        BY <2>3
    <3> HIDE DEF route, valid
    <3>q. QED BY <2>1, <3>1, <3>2, <3>3 DEF Request
  <2>5. /\ known.pc = IF route \in Scoped THEN "scope" ELSE "handler"
        /\ known.key = k /\ known.tenant = KeyTenant[k]
        /\ known.secret = request[r].secret /\ known.call = request[r].call
        /\ known.status = request[r].status /\ known.touched = request[r].touched
        /\ known.inserted = request[r].inserted /\ known.rows = request[r].rows
    BY <2>1 DEF Request
  <2>6. request' = [request EXCEPT ![r] = known]
    BY <1>5, <2>1 DEF Request
  <2> HIDE DEF known
  <2>7. /\ request' \in [Requests -> Request]
        /\ \A q \in Requests \ {r} : request'[q] = request[q]
        /\ request'[r] = known
    BY <2>1, <2>4, <2>6
  <2>8. TypeOK'
    BY <1>1, <1>2, <1>5, <2>1, <2>7 DEF TypeOK
  <2>9. SessionInv(r)'
    <3>1. route \in Scoped \cup {"create_tenant", "delete_tenant"}
        BY <2>1 DEF Request, Calls, Scoped
    <3>2. SessionInv(r)
        BY <1>1
    <3>3. request'[r].call.route \in Routes(request'[r].pc)
        BY <3>1, <2>5, <2>7, RoutesOfSteps
    <3>4. request'[r].key = request'[r].secret /\ request'[r].tenant = KeyTenant[request'[r].secret]
        BY <2>2, <2>5, <2>7
    <3>5. /\ request'[r].status = None /\ ~request'[r].touched /\ request'[r].inserted = {}
          /\ \A w \in request'[r].rows : w.tenant = KeyTenant[request'[r].secret]
        BY <3>2, <1>2, <2>5, <2>7 DEF SessionInv, Verified
    <3>6. request'[r].pc \notin {"insert", "refresh"}
        BY <2>5, <2>7
    <3>q. QED BY <3>3, <3>4, <3>5, <3>6 DEF SessionInv
  <2>10. \A q \in Requests : SessionInv(q)'
    BY <1>1, <2>7, <2>9, OtherSessions
  <2>11. PoolInv'
    <3>1. \A q \in Requests : Active(q)' <=> Active(q)
        BY <1>2, <2>5, <2>7 DEF Active
    <3>2. connections \in [Connections -> [by : Requests \cup {None}, setting : Tenants \cup {None}]]
        BY <1>1 DEF TypeOK
    <3>3. ASSUME NEW c \in Connections PROVE HoldInv(c)'
      <4>1. HoldInv(c)
        BY <1>1 DEF PoolInv
      <4>2. CASE connections[c].by = r
        <5>1. connections'[c] = connections[c] /\ connections[c].by # None
            BY <4>2, <1>5, NoneIsNoRow
        <5>2. connections[c].setting = None /\ Active(r)
            BY <4>1, <4>2, <5>1, <1>2 DEF HoldInv
        <5>3. ~(request'[r].pc \notin {"verify", "scope"} /\ request'[r].call.route \in Scoped)
            BY <2>5, <2>7
        <5>q. QED BY <4>2, <5>1, <5>2, <5>3, <3>1 DEF HoldInv
      <4>3. CASE connections[c].by # r
        <5>1. connections'[c] = connections[c]
            BY <1>5
        <5>2. CASE connections[c].by = None
            BY <4>1, <5>1, <5>2 DEF HoldInv
        <5>3. CASE connections[c].by # None
          <6>1. PICK holder \in Requests \ {r} : connections[c].by = holder
            BY <3>2, <4>3, <5>3
          <6>2. request'[holder] = request[holder] /\ (Active(holder)' <=> Active(holder))
            BY <6>1, <2>7, <3>1
          <6>3. /\ Active(holder)
                /\ connections[c].setting \in {None, request[holder].tenant}
                /\ request[holder].pc = "verify" => connections[c].setting = None
                /\ (request[holder].pc \notin {"verify", "scope"}
                     /\ request[holder].call.route \in Scoped)
                       => connections[c].setting = request[holder].tenant
            BY <4>1, <5>3, <6>1 DEF HoldInv
          <6>4. /\ Active(holder)'
                /\ connections'[c].setting \in {None, request'[holder].tenant}
                /\ request'[holder].pc = "verify" => connections'[c].setting = None
                /\ (request'[holder].pc \notin {"verify", "scope"}
                     /\ request'[holder].call.route \in Scoped)
                       => connections'[c].setting = request'[holder].tenant
            BY <5>1, <6>2, <6>3
          <6>5. connections'[c].by = holder /\ holder # None
            BY <5>1, <5>3, <6>1
          <6>q. QED BY <6>4, <6>5 DEF HoldInv
        <5>q. QED BY <5>2, <5>3
      <4>q. QED BY <4>2, <4>3
    <3>q. QED BY <1>1, <1>5, <3>1, <3>3 DEF PoolInv
  <2>12. LockInv'
    <3>1. ~request[r].touched
        BY <1>1, <1>2 DEF SessionInv, Verified
    <3>q. QED BY <1>1, <1>2, <2>5, <2>7, <3>1, StepKeepsLocks
  <2>13. CreatedInv'
    BY <1>1, <1>2, <2>7, StepKeepsCreated
  <2>q. QED BY <2>8, <2>10, <2>11, <2>12, <2>13 DEF IInv
<1>q. QED BY <1>3, <1>4, <1>5 DEF Verify

LEMMA ScopeKeeps == ASSUME IInv, NEW r \in Requests, Scope(r) PROVE IInv'
<1>1. /\ TypeOK /\ PoolInv /\ LockInv /\ CreatedInv
      /\ \A q \in Requests : SessionInv(q)
    BY DEF IInv
<1>2. request[r].pc = "scope" /\ UNCHANGED <<tenants, api_keys, workspaces, now>>
    BY DEF Scope
<1>3. Goto(r, "handler") /\ "handler" \in Steps
    BY DEF Scope, Steps
<1>4. /\ request' \in [Requests -> Request]
      /\ \A q \in Requests \ {r} : request'[q] = request[q]
      /\ request'[r].pc = "handler"
      /\ request'[r].secret = request[r].secret /\ request'[r].call = request[r].call
      /\ request'[r].key = request[r].key /\ request'[r].tenant = request[r].tenant
      /\ request'[r].status = request[r].status /\ request'[r].touched = request[r].touched
      /\ request'[r].inserted = request[r].inserted /\ request'[r].rows = request[r].rows
    BY <1>1, <1>3, GotoShape
<1>5. /\ connections \in [Connections -> [by : Requests \cup {None}, setting : Tenants \cup {None}]]
      /\ request[r].tenant \in Tenants \cup {None}
    BY <1>1 DEF TypeOK, Request
<1>6. connections' = [c \in Connections |->
        IF connections[c].by = r
        THEN [connections[c] EXCEPT !.setting = request[r].tenant] ELSE connections[c]]
    BY DEF Scope
<1>7. /\ connections' \in [Connections -> [by : Requests \cup {None}, setting : Tenants \cup {None}]]
      /\ \A c \in Connections :
            /\ connections'[c].by = connections[c].by
            /\ connections'[c].setting =
                  IF connections[c].by = r THEN request[r].tenant ELSE connections[c].setting
    BY <1>5, <1>6
<1>8. TypeOK'
    BY <1>1, <1>2, <1>4, <1>7 DEF TypeOK
<1>9. PoolInv'
  <2>1. \A q \in Requests : Active(q)' <=> Active(q)
    BY <1>2, <1>4 DEF Active
  <2>2. ASSUME NEW c \in Connections PROVE HoldInv(c)'
    <3>1. HoldInv(c)
        BY <1>1 DEF PoolInv
    <3>2. CASE connections[c].by = r
        BY <3>1, <3>2, <1>2, <1>4, <1>7, <2>1, NoneIsNoRow DEF HoldInv
    <3>3. CASE connections[c].by # r
        BY <3>1, <3>3, <1>4, <1>5, <1>7, <2>1 DEF HoldInv
    <3>q. QED BY <3>2, <3>3
  <2>q. QED BY <1>1, <1>7, <2>1, <2>2 DEF PoolInv
<1>10. SessionInv(r)'
  <2>1. SessionInv(r)
    BY <1>1
  <2>2. request'[r].call.route \in Routes(request'[r].pc)
    BY <2>1, <1>2, <1>4, RoutesOfSteps DEF SessionInv
  <2>q. QED BY <2>1, <2>2, <1>2, <1>4 DEF SessionInv, Verified
<1>11. \A q \in Requests : SessionInv(q)'
    BY <1>1, <1>4, <1>10, OtherSessions
<1>12. LockInv'
    BY <1>1, <1>2, <1>4, StepKeepsLocks
<1>13. CreatedInv'
    BY <1>1, <1>2, <1>4, StepKeepsCreated
<1>q. QED BY <1>8, <1>9, <1>11, <1>12, <1>13 DEF IInv

\* After the scope is set, a step of a request that changes no table.
LEMMA StepKeeps ==
    ASSUME IInv, NEW r \in Requests, UNCHANGED <<tenants, api_keys, workspaces, connections, now>>,
           request' \in [Requests -> Request],
           \A q \in Requests \ {r} : request'[q] = request[q],
           request'[r].call = request[r].call, request'[r].tenant = request[r].tenant,
           request[r].pc \notin {"new", "verify", "scope", "answered"},
           request'[r].pc \notin {"new", "verify", "scope", "answered"},
           SessionInv(r)', LockInv'
    PROVE  IInv'
<1>1. TypeOK /\ PoolInv /\ CreatedInv /\ \A q \in Requests : SessionInv(q)
    BY DEF IInv
<1>2. TypeOK'
    BY <1>1 DEF TypeOK
<1>3. PoolInv'
    BY <1>1, StepKeepsPool
<1>4. CreatedInv'
    BY <1>1, StepKeepsCreated
<1>5. \A q \in Requests : SessionInv(q)'
    BY <1>1, OtherSessions
<1>q. QED BY <1>2, <1>3, <1>4, <1>5 DEF IInv

LEMMA GotoKeeps ==
    ASSUME IInv, NEW r \in Requests, NEW pc \in Steps, Goto(r, pc),
           UNCHANGED <<tenants, api_keys, workspaces, connections, now>>,
           request[r].pc \notin {"new", "verify", "scope", "answered"},
           pc \notin {"new", "verify", "scope", "insert", "refresh", "answered"},
           request[r].call.route \in Routes(pc),
           request[r].inserted = {},
           (request'[r].pc = "commit" => request[r].call.route # "delete_tenant") \/ LockInv'
    PROVE  IInv'
<1>1. TypeOK /\ LockInv /\ SessionInv(r)
    BY DEF IInv
<1>2. /\ request' \in [Requests -> Request]
      /\ \A q \in Requests \ {r} : request'[q] = request[q]
      /\ request'[r].pc = pc
      /\ request'[r].secret = request[r].secret /\ request'[r].call = request[r].call
      /\ request'[r].key = request[r].key /\ request'[r].tenant = request[r].tenant
      /\ request'[r].status = request[r].status /\ request'[r].touched = request[r].touched
      /\ request'[r].inserted = request[r].inserted /\ request'[r].rows = request[r].rows
    BY <1>1, GotoShape
<1>3. SessionInv(r)'
    BY <1>1, <1>2 DEF SessionInv, Verified
<1>4. LockInv'
    BY <1>1, <1>2, StepKeepsLocks
<1>q. QED BY <1>2, <1>3, <1>4, StepKeeps

LEMMA HandleKeeps == ASSUME IInv, NEW r \in Requests, Handle(r) PROVE IInv'
<1>1. TypeOK /\ SessionInv(r)
    BY DEF IInv
<1>2. request[r].pc = "handler" /\ UNCHANGED <<tenants, api_keys, workspaces, now>>
    BY DEF Handle
<1>3. request[r].inserted = {} /\ now' \in Nat
    BY <1>1, <1>2 DEF SessionInv, TypeOK
<1>4. \/ Goto(r, "touch") /\ UNCHANGED connections /\ request[r].call.route \in Routes("touch")
      \/ Goto(r, "found") /\ UNCHANGED connections /\ request[r].call.route \in Routes("found")
      \/ Answer(r, "404", {})
      \/ \E rows \in SUBSET Owned(r) : Answer(r, "ok", rows) /\ request[r].call.route \in Scoped
  <2>1. request[r].call.route \in Scoped \cup {"create_tenant", "delete_tenant"}
    BY <1>1, <1>2, RoutesOfSteps DEF SessionInv
  <2>2. CASE request[r].call.route = "list_workspaces"
    BY <2>2 DEF Handle, Scoped
  <2>3. CASE request[r].call.route = "get_workspace"
    BY <2>3 DEF Handle, Scoped
  <2>4. CASE request[r].call.route \in {"create_workspace", "delete_workspace", "delete_tenant"}
    <3>1. request[r].call.route \in Routes("touch")
        BY <2>4, RoutesOfSteps
    <3>q. QED BY <2>4, <3>1 DEF Handle
  <2>5. CASE request[r].call.route = "create_tenant"
    BY <2>5, RoutesOfSteps DEF Handle
  <2>q. QED BY <2>1, <2>2, <2>3, <2>4, <2>5 DEF Scoped
<1>5. CASE Goto(r, "touch") /\ UNCHANGED connections /\ request[r].call.route \in Routes("touch")
  <2>1. request'[r].pc # "commit"
    BY <1>1, <1>5, GotoShape DEF Steps
  <2>q. QED BY <1>2, <1>3, <1>5, <2>1, GotoKeeps DEF Steps
<1>6. CASE Goto(r, "found") /\ UNCHANGED connections /\ request[r].call.route \in Routes("found")
  <2>1. request'[r].pc # "commit"
    BY <1>1, <1>6, GotoShape DEF Steps
  <2>q. QED BY <1>2, <1>3, <1>6, <2>1, GotoKeeps DEF Steps
<1>7. CASE Answer(r, "404", {})
    BY <1>2, <1>3, <1>7, AnswerKeeps DEF Statuses
<1>8. ASSUME NEW rows \in SUBSET Owned(r), Answer(r, "ok", rows), request[r].call.route \in Scoped
      PROVE  IInv'
  <2>1. request[r].tenant = KeyTenant[request[r].secret]
    BY <1>2, <1>8, SettingIsTheKeys
  <2>2. /\ \A w \in rows : w.tenant = KeyTenant[request[r].secret]
        /\ rows \in SUBSET Workspace
    BY <2>1, <1>1 DEF Owned, Visible, TypeOK
  <2>q. QED BY <1>2, <1>3, <1>8, <2>2, AnswerKeeps DEF Statuses
<1>q. QED BY <1>4, <1>5, <1>7, <1>8, <1>6

LEMMA EraseKeeps == ASSUME IInv, NEW r \in Requests, Erase(r) PROVE IInv'
<1>1. TypeOK /\ SessionInv(r)
    BY DEF IInv
<1>2. /\ request[r].pc = "erase" /\ Goto(r, "commit")
      /\ UNCHANGED <<tenants, api_keys, workspaces, connections, now>>
    BY DEF Erase
<1>3. request[r].inserted = {} /\ request[r].call.route = "delete_workspace"
    BY <1>1, <1>2, RoutesOfSteps DEF SessionInv
<1>4. request[r].call.route \in Routes("commit")
    BY <1>3, RoutesOfSteps
<1>q. QED BY <1>2, <1>3, <1>4, GotoKeeps DEF Steps

LEMMA FoundKeeps == ASSUME IInv, NEW r \in Requests, Found(r) PROVE IInv'
<1>1. TypeOK /\ SessionInv(r)
    BY DEF IInv
<1>2. /\ request[r].pc = "found" /\ UNCHANGED <<tenants, api_keys, workspaces, now>>
      /\ Answer(r, "409", {}) \/ (Goto(r, "touch") /\ UNCHANGED connections)
    BY DEF Found
<1>3. request[r].inserted = {} /\ request[r].call.route = "create_tenant" /\ now' \in Nat
    BY <1>1, <1>2, RoutesOfSteps DEF SessionInv, TypeOK
<1>4. request[r].call.route \in Routes("touch")
    BY <1>3, RoutesOfSteps
<1>5. CASE Answer(r, "409", {})
    BY <1>2, <1>3, <1>5, AnswerKeeps DEF Statuses
<1>6. CASE Goto(r, "touch") /\ UNCHANGED connections
    BY <1>2, <1>3, <1>4, <1>6, GotoKeeps DEF Steps
<1>q. QED BY <1>2, <1>5, <1>6

LEMMA LockKeeps == ASSUME IInv, NEW r \in Requests, Lock(r) PROVE IInv'
<1>1. TypeOK /\ SessionInv(r)
    BY DEF IInv
<1>2. /\ request[r].pc = "lock" /\ Goto(r, "cascade")
      /\ UNCHANGED <<tenants, api_keys, workspaces, connections, now>>
    BY DEF Lock
<1>3. request[r].inserted = {} /\ request[r].call.route \in Routes("cascade")
    BY <1>1, <1>2, RoutesOfSteps DEF SessionInv
<1>4. request'[r].pc # "commit"
    BY <1>1, <1>2, GotoShape DEF Steps
<1>q. QED BY <1>2, <1>3, <1>4, GotoKeeps DEF Steps

\* The cascade waits for the locks on the keys it is about to take away.
LEMMA CascadeKeeps == ASSUME IInv, NEW r \in Requests, Cascade(r) PROVE IInv'
<1>1. TypeOK /\ LockInv /\ \A q \in Requests : SessionInv(q)
    BY DEF IInv
<1>2. /\ request[r].pc = "cascade" /\ Goto(r, "commit") /\ WaitsFor(r) = {}
      /\ UNCHANGED <<tenants, api_keys, workspaces, connections, now>>
    BY DEF Cascade
<1>3. request[r].inserted = {} /\ request[r].call.route = "delete_tenant"
    BY <1>1, <1>2, RoutesOfSteps DEF SessionInv
<1>4. request[r].call.route \in Routes("commit")
    BY <1>3, RoutesOfSteps
<1>5. /\ \A q \in Requests \ {r} : request'[q] = request[q]
      /\ request'[r].pc = "commit" /\ request'[r].call = request[r].call
      /\ request'[r].key = request[r].key /\ request'[r].touched = request[r].touched
    BY <1>1, <1>2, GotoShape DEF Steps
<1>6. \A q \in Requests \ {r} : \A k \in Keys :
        KeyTenant[k] = request[r].call.tenant => ~KeyLockedBy(k, q)
    BY <1>2 DEF WaitsFor
<1>7. LockInv'
  <2>1. \A k \in Keys : api_keys'[k] # None => Live(KeyTenant[k])'
    BY <1>1, <1>2 DEF LockInv, Live
  <2>2. \A q \in Requests : request'[q].touched => api_keys'[request'[q].key] # None
    BY <1>1, <1>2, <1>5 DEF LockInv
  <2>3. ASSUME NEW p \in Requests, NEW q \in Requests, p # q, request'[p].touched, request'[q].pc = "commit"
        PROVE  ~Drops(q, KeyTenant[request[p].key])'
    <3>1. request[p].touched /\ request'[p].key = request[p].key /\ request[q].call = request'[q].call
        BY <2>3, <1>5
    <3>2. CASE q = r
      <4>1. request[p].key \in Keys
        BY <1>1, <3>1 DEF SessionInv, Verified, TypeOK, Request
      <4>2. request[p].touched /\ request[p].key = request[p].key
        BY <3>1
      <4>3. KeyTenant[request[p].key] # request[r].call.tenant
        BY <4>1, <4>2, <3>2, <2>3, <1>6 DEF KeyLockedBy
      <4>q. QED BY <4>3, <3>1, <3>2 DEF Drops
    <3>3. CASE q # r
        BY <3>1, <3>3, <2>3, <1>1, <1>5 DEF LockInv, Drops
    <3>q. QED BY <3>2, <3>3
  <2>q. QED BY <2>1, <2>2, <2>3 DEF LockInv
<1>q. QED BY <1>2, <1>3, <1>4, <1>7, GotoKeeps DEF Steps

\* The lock on the key's row is taken if nobody is about to take the key away.
LEMMA TouchKeeps == ASSUME IInv, NEW r \in Requests, Touch(r) PROVE IInv'
<1>1. TypeOK /\ LockInv /\ \A q \in Requests : SessionInv(q)
    BY DEF IInv
<1>2. request[r].pc = "touch" /\ WaitsFor(r) = {} /\ UNCHANGED <<tenants, api_keys, workspaces, now>>
    BY DEF Touch
<1>3. CASE api_keys[request[r].key] = None
  <2>1. Answer(r, "500", {}) /\ now' \in Nat
    BY <1>1, <1>2, <1>3 DEF Touch, TypeOK
  <2>q. QED BY <1>2, <2>1, AnswerKeeps DEF Statuses
<1>4. CASE api_keys[request[r].key] # None
  <2> DEFINE route == request[r].call.route
             next == CASE route = "create_workspace" -> "insert"
                       [] route = "delete_workspace" -> "erase"
                       [] route = "create_tenant" -> "commit"
                       [] route = "delete_tenant" -> "lock"
             locked == [request[r] EXCEPT !.touched = TRUE, !.pc = next]
  <2>1. /\ request' = [request EXCEPT ![r].touched = TRUE, ![r].pc = next]
        /\ UNCHANGED connections
    BY <1>4 DEF Touch
  <2>2. route \in {"create_workspace", "delete_workspace", "create_tenant", "delete_tenant"}
    BY <1>1, <1>2, RoutesOfSteps DEF SessionInv
  <2>3. /\ next \in {"insert", "erase", "commit", "lock"} /\ route \in Routes(next)
        /\ next = "commit" => route # "delete_tenant"
    BY <2>2, RoutesOfSteps
  <2>4. request \in [Requests -> Request] /\ request[r] \in Request
    BY <1>1 DEF TypeOK
  <2> HIDE DEF next, route
  <2>5. locked \in Request
    BY <2>3, <2>4 DEF Request, Steps
  <2>6. /\ locked.touched = TRUE /\ locked.pc = next
        /\ locked.call = request[r].call /\ locked.secret = request[r].secret
        /\ locked.key = request[r].key /\ locked.tenant = request[r].tenant
        /\ locked.status = request[r].status
        /\ locked.inserted = request[r].inserted /\ locked.rows = request[r].rows
    BY <2>4 DEF Request
  <2>7. request' = [request EXCEPT ![r] = locked]
    BY <2>1, <2>4 DEF Request
  <2> HIDE DEF locked
  <2>8. /\ request' \in [Requests -> Request] /\ request'[r] = locked
        /\ \A q \in Requests \ {r} : request'[q] = request[q]
    BY <2>4, <2>5, <2>7
  <2>9. SessionInv(r) /\ Verified(r) /\ request[r].inserted = {}
    BY <1>1, <1>2 DEF SessionInv, Verified
  <2>10. SessionInv(r)'
    <3>1. /\ request'[r].call.route \in Routes(request'[r].pc)
          /\ request'[r].pc \in {"insert", "erase", "commit", "lock"}
        BY <2>3, <2>6, <2>8 DEF route
    <3>2. request'[r].key = request'[r].secret /\ request'[r].tenant = KeyTenant[request'[r].secret]
        BY <2>6, <2>8, <2>9 DEF SessionInv
    <3>3. /\ request'[r].status = None /\ request'[r].touched /\ request'[r].inserted = {}
          /\ \A w \in request'[r].rows : w.tenant = KeyTenant[request'[r].secret]
        BY <1>2, <2>6, <2>8, <2>9 DEF SessionInv
    <3>q. QED BY <3>1, <3>2, <3>3 DEF SessionInv, Verified
  <2>11. \A q \in Requests \ {r} : request[q].pc = "commit" => ~Drops(q, KeyTenant[request[r].key])
    BY <1>2 DEF WaitsFor, KeyLockedBy
  <2>12. LockInv'
    <3>1. \A k \in Keys : api_keys'[k] # None => Live(KeyTenant[k])'
        BY <1>1, <1>2 DEF LockInv, Live
    <3>2. \A q \in Requests : request'[q].touched => api_keys'[request'[q].key] # None
        BY <1>1, <1>2, <1>4, <2>6, <2>8 DEF LockInv
    <3>3. ASSUME NEW p \in Requests, NEW q \in Requests, p # q, request'[p].touched, request'[q].pc = "commit"
          PROVE  ~Drops(q, KeyTenant[request[p].key])'
      <4>1. request'[p].key = request[p].key
        BY <2>6, <2>8
      <4>2. CASE q = r
        BY <4>2, <3>3, <2>3, <2>6, <2>8 DEF Drops, route
      <4>3. CASE p = r
        BY <4>1, <4>3, <3>3, <2>8, <2>11 DEF Drops
      <4>4. CASE p # r /\ q # r
        BY <4>1, <4>4, <3>3, <2>8, <1>1 DEF LockInv, Drops
      <4>q. QED BY <4>2, <4>3, <4>4
    <3>q. QED BY <3>1, <3>2, <3>3 DEF LockInv
  <2>13. request'[r].pc \notin {"new", "verify", "scope", "answered"}
    BY <2>3, <2>6, <2>8
  <2>q. QED BY <1>2, <2>1, <2>6, <2>8, <2>10, <2>12, <2>13, StepKeeps
<1>q. QED BY <1>3, <1>4

LEMMA InsertKeeps == ASSUME IInv, NEW r \in Requests, Insert(r) PROVE IInv'
<1>1. TypeOK /\ LockInv /\ \A q \in Requests : SessionInv(q)
    BY DEF IInv
<1>2. request[r].pc = "insert" /\ UNCHANGED <<tenants, api_keys, workspaces, now>>
    BY DEF Insert
<1>3. \/ Answer(r, "500", {})
      \/ Answer(r, "409", {})
      \/ /\ request' = [request EXCEPT ![r].pc = "refresh", ![r].inserted = {NewRow(r)}]
         /\ UNCHANGED connections
    BY DEF Insert
<1>4. CASE Answer(r, "500", {}) \/ Answer(r, "409", {})
  <2>1. now' \in Nat
    BY <1>1, <1>2 DEF TypeOK
  <2>q. QED BY <1>2, <1>4, <2>1, AnswerKeeps DEF Statuses
<1>5. CASE /\ request' = [request EXCEPT ![r].pc = "refresh", ![r].inserted = {NewRow(r)}]
           /\ UNCHANGED connections
  <2> DEFINE inserted == [request[r] EXCEPT !.pc = "refresh", !.inserted = {NewRow(r)}]
  <2>1. request \in [Requests -> Request] /\ request[r] \in Request
    BY <1>1 DEF TypeOK
  <2>2. SessionInv(r) /\ Verified(r) /\ request[r].call.route = "create_workspace" /\ request[r].touched
    BY <1>1, <1>2, RoutesOfSteps DEF SessionInv, Verified
  <2>3. NewRow(r) \in Workspace
    <3>1. request[r].call.name \in Names
        BY <2>1, <2>2 DEF Request, Calls
    <3>2. request[r].tenant \in Tenants
        BY <2>1, <2>2, TenancyAssumption DEF SessionInv, Request
    <3>q. QED BY <3>1, <3>2 DEF NewRow, Workspace, Ids
  <2>4. inserted \in Request
    BY <2>1, <2>3 DEF Request, Steps
  <2>5. /\ inserted.pc = "refresh" /\ inserted.inserted = {NewRow(r)}
        /\ inserted.call = request[r].call /\ inserted.secret = request[r].secret
        /\ inserted.key = request[r].key /\ inserted.tenant = request[r].tenant
        /\ inserted.status = request[r].status /\ inserted.touched = request[r].touched
        /\ inserted.rows = request[r].rows
    BY <2>1 DEF Request
  <2>6. request' = [request EXCEPT ![r] = inserted]
    BY <1>5, <2>1 DEF Request
  <2> HIDE DEF inserted
  <2>7. /\ request' \in [Requests -> Request] /\ request'[r] = inserted
        /\ \A q \in Requests \ {r} : request'[q] = request[q]
    BY <2>1, <2>4, <2>6
  <2>8. SessionInv(r)'
    <3>1. request'[r].call.route \in Routes(request'[r].pc)
        BY <2>2, <2>5, <2>7, RoutesOfSteps
    <3>2. request'[r].key = request'[r].secret /\ request'[r].tenant = KeyTenant[request'[r].secret]
        BY <2>2, <2>5, <2>7 DEF SessionInv
    <3>3. NewRow(r)' = NewRow(r)
        BY <2>5, <2>7 DEF NewRow
    <3>4. /\ request'[r].status = None /\ request'[r].touched /\ request'[r].pc = "refresh"
          /\ request'[r].inserted = {NewRow(r)'} /\ request'[r].call.route = "create_workspace"
          /\ \A w \in request'[r].rows : w.tenant = KeyTenant[request'[r].secret]
        BY <1>2, <2>2, <2>5, <2>7, <3>3 DEF SessionInv
    <3>q. QED BY <3>1, <3>2, <3>4 DEF SessionInv, Verified
  <2>9. LockInv'
    BY <1>1, <1>2, <2>5, <2>7, StepKeepsLocks
  <2>q. QED BY <1>2, <1>5, <2>5, <2>7, <2>8, <2>9, StepKeeps
<1>q. QED BY <1>3, <1>4, <1>5

LEMMA RefreshKeeps == ASSUME IInv, NEW r \in Requests, Refresh(r) PROVE IInv'
<1> DEFINE mine == {w \in Visible(workspaces \cup request[r].inserted, Setting(r)) : w.id = r}
<1>1. TypeOK /\ LockInv /\ \A q \in Requests : SessionInv(q)
    BY DEF IInv
<1>2. request[r].pc = "refresh" /\ UNCHANGED <<tenants, api_keys, workspaces, now>>
    BY DEF Refresh
<1>3. SessionInv(r) /\ Verified(r) /\ request[r].call.route = "create_workspace" /\ request[r].touched
    BY <1>1, <1>2, RoutesOfSteps DEF SessionInv, Verified
<1>4. request \in [Requests -> Request] /\ request[r] \in Request
    BY <1>1 DEF TypeOK
<1>5. /\ mine \in SUBSET Workspace
      /\ \A w \in mine : w.tenant = KeyTenant[request[r].secret]
  <2>1. Setting(r) = KeyTenant[request[r].secret]
    BY <1>2, <1>3, SettingIsTheKeys DEF Scoped
  <2>2. workspaces \cup request[r].inserted \subseteq Workspace
    BY <1>1, <1>4 DEF TypeOK, Request
  <2>q. QED BY <2>1, <2>2 DEF Visible
<1>6. \/ Answer(r, "500", {})
      \/ request' = [request EXCEPT ![r].pc = "commit", ![r].rows = mine] /\ UNCHANGED connections
    BY DEF Refresh
<1> HIDE DEF mine
<1>7. CASE Answer(r, "500", {})
  <2>1. now' \in Nat
    BY <1>1, <1>2 DEF TypeOK
  <2>q. QED BY <1>2, <1>7, <2>1, AnswerKeeps DEF Statuses
<1>8. CASE request' = [request EXCEPT ![r].pc = "commit", ![r].rows = mine] /\ UNCHANGED connections
  <2> DEFINE read == [request[r] EXCEPT !.pc = "commit", !.rows = mine]
  <2>1. read \in Request
    BY <1>4, <1>5 DEF Request, Steps
  <2>2. /\ read.pc = "commit" /\ read.rows = mine
        /\ read.call = request[r].call /\ read.secret = request[r].secret
        /\ read.key = request[r].key /\ read.tenant = request[r].tenant
        /\ read.status = request[r].status /\ read.touched = request[r].touched
        /\ read.inserted = request[r].inserted
    BY <1>4 DEF Request
  <2>3. request' = [request EXCEPT ![r] = read]
    BY <1>4, <1>8 DEF Request
  <2> HIDE DEF read
  <2>4. /\ request' \in [Requests -> Request] /\ request'[r] = read
        /\ \A q \in Requests \ {r} : request'[q] = request[q]
    BY <1>4, <2>1, <2>3
  <2>5. SessionInv(r)'
    <3>1. request'[r].call.route \in Routes(request'[r].pc)
        BY <1>3, <2>2, <2>4, RoutesOfSteps
    <3>2. request'[r].key = request'[r].secret /\ request'[r].tenant = KeyTenant[request'[r].secret]
        BY <1>3, <2>2, <2>4 DEF SessionInv
    <3>3. NewRow(r)' = NewRow(r)
        BY <2>2, <2>4 DEF NewRow
    <3>4. /\ request'[r].status = None /\ request'[r].touched /\ request'[r].pc = "commit"
          /\ request'[r].inserted # {} => request'[r].inserted = {NewRow(r)'}
          /\ request'[r].call.route = "create_workspace"
          /\ \A w \in request'[r].rows : w.tenant = KeyTenant[request'[r].secret]
        BY <1>2, <1>3, <1>5, <2>2, <2>4, <3>3 DEF SessionInv
    <3>q. QED BY <3>1, <3>2, <3>4 DEF SessionInv, Verified
  <2>6. LockInv'
    BY <1>1, <1>2, <1>3, <2>2, <2>4, StepKeepsLocks
  <2>q. QED BY <1>2, <1>8, <2>2, <2>4, <2>5, <2>6, StepKeeps
<1>q. QED BY <1>6, <1>7, <1>8

LEMMA DeadlockKeeps == ASSUME IInv, NEW r \in Requests, DeadlockDetected(r) PROVE IInv'
<1>1. TypeOK
    BY DEF IInv
<1>2. /\ WaitsFor(r) # {} /\ Answer(r, "500", {})
      /\ UNCHANGED <<tenants, api_keys, workspaces, now>>
    BY DEF DeadlockDetected
<1>3. request[r].pc # "answered"
    BY <1>2 DEF WaitsFor
<1>4. now' \in Nat
    BY <1>1, <1>2 DEF TypeOK
<1>q. QED BY <1>2, <1>3, <1>4, AnswerKeeps DEF Statuses

\* The UPDATE of last_used_at touches no other column and no other row.
LEMMA UsedShape ==
    ASSUME IInv, NEW r \in Requests
    PROVE  /\ Used(r) \in [Keys -> ApiKey \cup {None}]
           /\ \A k \in Keys : Used(r)[k] = None <=> api_keys[k] = None
           /\ \A k \in Keys : api_keys[k] # None => Used(r)[k].revoked = api_keys[k].revoked
<1>1. /\ api_keys \in [Keys -> ApiKey \cup {None}]
      /\ request[r] \in Request
    BY DEF IInv, TypeOK
<1>2. CASE ~request[r].touched
    BY <1>1, <1>2 DEF Used
<1>3. CASE request[r].touched
  <2> DEFINE key == request[r].key
             used == [api_keys[key] EXCEPT !.last_used_at = request[r].used_at]
  <2>1. key \in Keys /\ api_keys[key] # None
    <3>1. SessionInv(r) /\ LockInv
        BY DEF IInv
    <3>q. QED BY <1>1, <1>3, <3>1 DEF SessionInv, LockInv, Request
  <2>2. api_keys[key] \in ApiKey /\ request[r].used_at \in Nat
    BY <1>1, <2>1 DEF Request
  <2>3. used \in ApiKey /\ used.revoked = api_keys[key].revoked /\ used # None
    BY <2>2, NoneIsNoRow DEF ApiKey
  <2>4. Used(r) = [api_keys EXCEPT ![key] = used]
    BY <1>1, <1>3, <2>1 DEF Used
  <2> HIDE DEF key, used
  <2>q. QED BY <1>1, <2>1, <2>3, <2>4
<1>q. QED BY <1>2, <1>3

LEMMA CommitKeeps == ASSUME IInv, NEW r \in Requests, Commit(r) PROVE IInv'
<1> DEFINE call == request[r].call
<1>1. /\ TypeOK /\ PoolInv /\ LockInv /\ CreatedInv
      /\ \A q \in Requests : SessionInv(q)
    BY DEF IInv
<1>2. request[r].pc = "commit" /\ UNCHANGED now
    BY DEF Commit
<1>3. call.route \in {"create_workspace", "delete_workspace", "create_tenant", "delete_tenant"}
    BY <1>1, <1>2, RoutesOfSteps DEF SessionInv
<1>4. PICK status \in {"ok", "done"}, rows \in SUBSET Workspace :
        /\ Answer(r, status, rows)
        /\ rows \in {request[r].rows, {}}
        /\ call.route = "create_workspace" => status = "ok"
  <2>1. request[r].rows \in SUBSET Workspace
    BY <1>1 DEF TypeOK, Request
  <2>2. CASE call.route = "create_workspace"
    BY <2>1, <2>2 DEF Commit
  <2>3. CASE call.route = "delete_workspace"
    BY <2>3 DEF Commit
  <2>4. CASE call.route = "create_tenant"
    BY <2>4 DEF Commit
  <2>5. CASE call.route = "delete_tenant"
    BY <2>5 DEF Commit
  <2>q. QED BY <1>3, <2>2, <2>3, <2>4, <2>5
<1>5. status \in Statuses /\ \A w \in rows : w.tenant = KeyTenant[request[r].secret]
    BY <1>1, <1>4 DEF Statuses, SessionInv
<1>6. /\ request' \in [Requests -> Request]
      /\ \A q \in Requests \ {r} : request'[q] = request[q]
      /\ request'[r].pc = "answered" /\ request'[r].status = status /\ ~request'[r].touched
      /\ connections' \in [Connections -> [by : Requests \cup {None}, setting : Tenants \cup {None}]]
    BY <1>1, <1>4, <1>5, AnswerShape
<1>7. PoolInv' /\ \A q \in Requests : SessionInv(q)'
    BY <1>1, <1>2, <1>4, <1>5, AnswerKeepsSessions
<1>8. /\ Used(r) \in [Keys -> ApiKey \cup {None}]
      /\ \A k \in Keys : Used(r)[k] = None <=> api_keys[k] = None
    BY UsedShape
<1>9. /\ tenants \in [Tenants -> {"new", "live", "gone"}]
      /\ workspaces \subseteq Workspace /\ request[r].inserted \subseteq Workspace /\ call \in Calls
      /\ now \in Nat
    BY <1>1 DEF TypeOK, Request
<1>10. /\ tenants' \in [Tenants -> {"new", "live", "gone"}]
       /\ api_keys' \in [Keys -> ApiKey \cup {None}]
       /\ \A k \in Keys : api_keys'[k] # None => Live(KeyTenant[k])'
       /\ \A k \in Keys :
             (api_keys[k] # None /\ ~Drops(r, KeyTenant[k])) => api_keys'[k] # None
  <2>1. CASE call.route \in {"create_workspace", "delete_workspace"}
    <3>1. UNCHANGED tenants /\ api_keys' = Used(r)
        BY <2>1 DEF Commit
    <3>q. QED BY <3>1, <1>1, <1>8, <1>9 DEF LockInv, Live
  <2>2. CASE call.route = "create_tenant"
    <3>1. tenants' = [tenants EXCEPT ![call.tenant] = "live"] /\ api_keys' = Used(r)
        BY <2>2 DEF Commit
    <3>q. QED BY <3>1, <1>1, <1>8, <1>9, TenancyAssumption DEF LockInv, Live
  <2>3. CASE call.route = "delete_tenant"
    <3>1. /\ tenants' = [tenants EXCEPT ![call.tenant] = "gone"]
          /\ api_keys' = [k \in Keys |-> IF KeyTenant[k] = call.tenant THEN None ELSE Used(r)[k]]
        BY <2>3 DEF Commit
    <3>q. QED BY <2>3, <3>1, <1>1, <1>8, <1>9, TenancyAssumption DEF LockInv, Live, Drops
  <2>q. QED BY <1>3, <2>1, <2>2, <2>3
<1>11. workspaces' \subseteq workspaces \cup request[r].inserted
  <2>1. CASE call.route = "create_workspace"
    BY <2>1 DEF Commit
  <2>2. CASE call.route = "delete_workspace"
    BY <2>2 DEF Commit
  <2>3. CASE call.route = "create_tenant"
    BY <2>3 DEF Commit
  <2>4. CASE call.route = "delete_tenant"
    BY <2>4 DEF Commit
  <2>q. QED BY <1>3, <2>1, <2>2, <2>3, <2>4
<1>12. TypeOK'
    BY <1>2, <1>6, <1>9, <1>10, <1>11 DEF TypeOK
<1>13. LockInv'
  <2>1. ASSUME NEW q \in Requests, request'[q].touched
        PROVE  api_keys'[request[q].key] # None /\ request'[q] = request[q]
    <3>1. q # r /\ request'[q] = request[q] /\ request[q].touched
        BY <2>1, <1>6
    <3>2. request[q].key \in Keys
        BY <1>1, <3>1 DEF SessionInv, Verified, TypeOK, Request
    <3>3. api_keys[request[q].key] # None /\ ~Drops(r, KeyTenant[request[q].key])
        BY <1>1, <1>2, <3>1 DEF LockInv
    <3>q. QED BY <1>10, <3>1, <3>2, <3>3
  <2>2. ASSUME NEW p \in Requests, NEW q \in Requests, p # q, request'[p].touched, request'[q].pc = "commit"
        PROVE  ~Drops(q, KeyTenant[request[p].key])'
    <3>1. request'[p] = request[p] /\ request'[q] = request[q]
        BY <2>1, <2>2, <1>6
    <3>q. QED BY <3>1, <2>2, <1>1 DEF LockInv, Drops
  <2>q. QED BY <1>10, <2>1, <2>2 DEF LockInv
<1>14. CreatedInv'
  <2>1. ASSUME NEW w \in workspaces', w.id \in Requests
        PROVE  request'[w.id].pc = "answered" /\ request'[w.id].status = "ok"
    <3>1. CASE w \in workspaces
      <4>1. request[w.id].pc = "answered" /\ request[w.id].status = "ok"
        BY <1>1, <2>1, <3>1 DEF CreatedInv
      <4>q. QED BY <4>1, <1>2, <1>6, <2>1
    <3>2. CASE w \in request[r].inserted
      <4>1. request[r].inserted = {NewRow(r)} /\ call.route = "create_workspace"
        BY <1>1, <3>2 DEF SessionInv
      <4>2. w.id = r
        BY <4>1, <3>2 DEF NewRow
      <4>q. QED BY <4>1, <4>2, <1>4, <1>6
    <3>q. QED BY <2>1, <3>1, <3>2, <1>11
  <2>q. QED BY <2>1 DEF CreatedInv
<1>q. QED BY <1>7, <1>12, <1>13, <1>14 DEF IInv

LEMMA RevokeKeeps == ASSUME IInv, NEW k \in Keys, Revoke(k) PROVE IInv'
<1>1. /\ TypeOK /\ PoolInv /\ LockInv /\ CreatedInv
      /\ \A q \in Requests : SessionInv(q)
    BY DEF IInv
<1>2. /\ api_keys[k] # None /\ api_keys' = [api_keys EXCEPT ![k].revoked = TRUE]
      /\ UNCHANGED <<tenants, workspaces, connections, request, now>>
    BY DEF Revoke
<1>3. api_keys \in [Keys -> ApiKey \cup {None}] /\ api_keys[k] \in ApiKey
    BY <1>1, <1>2 DEF TypeOK
<1>4. /\ api_keys' \in [Keys -> ApiKey \cup {None}]
      /\ \A j \in Keys : api_keys'[j] = None <=> api_keys[j] = None
  <2>1. [api_keys[k] EXCEPT !.revoked = TRUE] \in ApiKey
    BY <1>3 DEF ApiKey
  <2>q. QED BY <1>2, <1>3, <2>1, NoneIsNoRow
<1>5. TypeOK'
    BY <1>1, <1>2, <1>4 DEF TypeOK
<1>6. LockInv'
  <2>1. \A q \in Requests : request[q].touched => request[q].key \in Keys
    BY <1>1 DEF SessionInv, Verified, TypeOK, Request
  <2>q. QED BY <1>1, <1>2, <1>4, <2>1 DEF LockInv, Live, Drops
<1>7. PoolInv'
    BY <1>1, <1>2 DEF PoolInv, HoldInv, Active
<1>8. \A q \in Requests : SessionInv(q)'
    BY <1>1, <1>2, OtherSessions
<1>9. CreatedInv'
    BY <1>1, <1>2 DEF CreatedInv
<1>q. QED BY <1>5, <1>6, <1>7, <1>8, <1>9 DEF IInv

LEMMA IssueKeeps == ASSUME IInv, NEW k \in Keys, Issue(k) PROVE IInv'
<1>1. /\ TypeOK /\ PoolInv /\ LockInv /\ CreatedInv
      /\ \A q \in Requests : SessionInv(q)
    BY DEF IInv
<1>2. /\ api_keys[k] = None /\ Live(KeyTenant[k])
      /\ api_keys' = [api_keys EXCEPT ![k] = [revoked |-> FALSE, last_used_at |-> 0]]
      /\ UNCHANGED <<tenants, workspaces, connections, request, now>>
    BY DEF Issue
<1>3. api_keys \in [Keys -> ApiKey \cup {None}]
    BY <1>1 DEF TypeOK
<1>4. /\ api_keys' \in [Keys -> ApiKey \cup {None}] /\ api_keys'[k] # None
      /\ \A j \in Keys \ {k} : api_keys'[j] = api_keys[j]
  <2>1. [revoked |-> FALSE, last_used_at |-> 0] \in ApiKey
    BY DEF ApiKey
  <2>q. QED BY <1>2, <1>3, <2>1, NoneIsNoRow
<1>5. TypeOK'
    BY <1>1, <1>2, <1>4 DEF TypeOK
<1>6. LockInv'
  <2>1. \A q \in Requests : request[q].touched => request[q].key \in Keys
    BY <1>1 DEF SessionInv, Verified, TypeOK, Request
  <2>q. QED BY <1>1, <1>2, <1>4, <2>1 DEF LockInv, Live, Drops
<1>7. PoolInv'
    BY <1>1, <1>2 DEF PoolInv, HoldInv, Active
<1>8. \A q \in Requests : SessionInv(q)'
    BY <1>1, <1>2, OtherSessions
<1>9. CreatedInv'
    BY <1>1, <1>2 DEF CreatedInv
<1>q. QED BY <1>5, <1>6, <1>7, <1>8, <1>9 DEF IInv

LEMMA NextKeeps == IInv /\ [Next]_vars => IInv'
<1> SUFFICES ASSUME IInv, [Next]_vars PROVE IInv'
    OBVIOUS
<1>1. ASSUME NEW r \in Requests, Serve(r) PROVE IInv'
    BY <1>1, ArriveKeeps, VerifyKeeps, ScopeKeeps, HandleKeeps, TouchKeeps, InsertKeeps, RefreshKeeps,
       EraseKeeps, FoundKeeps, LockKeeps, CascadeKeeps, CommitKeeps, DeadlockKeeps DEF Serve
<1>2. ASSUME NEW k \in Keys, Revoke(k) \/ Issue(k) PROVE IInv'
    BY <1>2, RevokeKeeps, IssueKeeps
<1>3. CASE UNCHANGED vars
  <2>1. /\ TypeOK /\ PoolInv /\ LockInv /\ CreatedInv
        /\ \A q \in Requests : SessionInv(q)
    BY DEF IInv
  <2>2. UNCHANGED <<tenants, api_keys, workspaces, connections, request, now>>
    BY <1>3 DEF vars
  <2>3. TypeOK'
    BY <2>1, <2>2 DEF TypeOK
  <2>4. PoolInv'
    BY <2>1, <2>2 DEF PoolInv, HoldInv, Active
  <2>5. LockInv'
    BY <2>1, <2>2 DEF LockInv, Live, Drops
  <2>6. CreatedInv'
    BY <2>1, <2>2 DEF CreatedInv
  <2>7. \A q \in Requests : SessionInv(q)'
    BY <2>1, <2>2, OtherSessions
  <2>q. QED BY <2>3, <2>4, <2>5, <2>6, <2>7 DEF IInv
<1>q. QED BY <1>1, <1>2, <1>3 DEF Next

LEMMA Invariant == Spec => []IInv
BY InitInv, NextKeeps, PTL DEF Spec

-----------------------------------------------------------------------------
(***************************************************************************)
(* What a step of a request leaves alone.                                  *)
(***************************************************************************)

\* A step of one request does not change another.
LEMMA ServeFrame ==
    ASSUME IInv, NEW r \in Requests, Serve(r)
    PROVE  \A q \in Requests \ {r} : request'[q] = request[q]
<1>1. request \in [Requests -> Request] /\ SessionInv(r)
    BY DEF IInv, TypeOK
<1>2. CASE Verify(r)
    BY <1>1, <1>2 DEF Verify, Answer
<1>3. CASE Handle(r)
  <2>1. CASE request[r].call.route \in {"create_workspace", "list_workspaces", "get_workspace"}
    BY <1>1, <1>3, <2>1 DEF Handle, Goto, Answer
  <2>2. CASE request[r].call.route \in {"delete_workspace", "create_tenant", "delete_tenant"}
    BY <1>1, <1>3, <2>2 DEF Handle, Goto, Answer
  <2>3. request[r].call.route \in Scoped \cup {"create_tenant", "delete_tenant"}
    BY <1>1 DEF Request, Calls, Scoped
  <2>q. QED BY <2>1, <2>2, <2>3 DEF Scoped
<1>4. CASE Touch(r)
    BY <1>1, <1>4 DEF Touch, Answer
<1>5. CASE Insert(r)
    BY <1>1, <1>5 DEF Insert, Answer
<1>6. CASE Refresh(r)
    BY <1>1, <1>6 DEF Refresh, Answer
<1>7. CASE Found(r)
    BY <1>1, <1>7 DEF Found, Goto, Answer
<1>8. CASE Arrive(r) \/ Scope(r) \/ Erase(r) \/ Lock(r) \/ Cascade(r)
    BY <1>1, <1>8 DEF Arrive, Scope, Erase, Lock, Cascade, Goto
<1>9. CASE DeadlockDetected(r)
    BY <1>1, <1>9 DEF DeadlockDetected, Answer
<1>10. CASE Commit(r)
  <2>1. request[r].call.route \in {"create_workspace", "delete_workspace", "create_tenant", "delete_tenant"}
    <3>1. request[r].pc = "commit"
        BY <1>10 DEF Commit
    <3>q. QED BY <1>1, <3>1, RoutesOfSteps DEF SessionInv
  <2>q. QED BY <1>1, <1>10, <2>1 DEF Commit, Answer
<1>q. QED BY <1>2, <1>3, <1>4, <1>5, <1>6, <1>7, <1>8, <1>9, <1>10 DEF Serve

\* Only a commit changes the tables, and only an INSERT that fails answers 409 to a
\* creation.
LEMMA ServeTables ==
    ASSUME IInv, NEW r \in Requests, Serve(r), ~Commit(r)
    PROVE  UNCHANGED <<tenants, api_keys, workspaces>>
BY DEF Serve, Arrive, Verify, Scope, Handle, Touch, Insert, Refresh, Erase, Found, Lock, Cascade,
       DeadlockDetected

\* A step of a request goes on, or answers; 409 is the answer to a creation whose
\* INSERT fails, and to no other.
LEMMA ServeAnswers ==
    ASSUME IInv, NEW r \in Requests, Serve(r)
    PROVE  \/ request'[r].status = request[r].status /\ request'[r].secret = request[r].secret
           \/ \E status \in Statuses, rows \in SUBSET Workspace :
                /\ Answer(r, status, rows)
                /\ (status = "409" /\ request[r].call.route = "create_workspace") => Insert(r)
<1> DEFINE goesOn == request'[r].status = request[r].status /\ request'[r].secret = request[r].secret
           answers == \E status \in Statuses, rows \in SUBSET Workspace :
                        /\ Answer(r, status, rows)
                        /\ (status = "409" /\ request[r].call.route = "create_workspace") => Insert(r)
<1>1. /\ TypeOK /\ SessionInv(r)
      /\ request \in [Requests -> Request] /\ request[r] \in Request
    BY DEF IInv, TypeOK
<1>2. ASSUME NEW pc \in Steps, Goto(r, pc) PROVE goesOn
    BY <1>1, <1>2, GotoShape
<1>3. ASSUME NEW status \in Statuses \ {"409"}, NEW rows \in SUBSET Workspace, Answer(r, status, rows)
      PROVE  answers
    BY <1>3
<1>4. CASE Arrive(r) \/ Scope(r) \/ Erase(r) \/ Lock(r) \/ Cascade(r)
  <2>1. \E pc \in Steps : Goto(r, pc)
    BY <1>4 DEF Arrive, Scope, Erase, Lock, Cascade, Steps
  <2>q. QED BY <2>1, <1>2
<1>5. CASE Verify(r)
  <2>1. CASE Answer(r, "401", {}) \/ Answer(r, "403", {})
    BY <2>1, <1>3 DEF Statuses
  <2>2. CASE ~(Answer(r, "401", {}) \/ Answer(r, "403", {}))
    <3> DEFINE next == IF request[r].call.route \in Scoped THEN "scope" ELSE "handler"
    <3>1. PICK k \in Keys :
            request' = [request EXCEPT ![r].pc = next, ![r].key = k, ![r].tenant = KeyTenant[k],
                                       ![r].used_at = now + 1, ![r].loaded = api_keys[k]]
        BY <1>5, <2>2 DEF Verify, Candidates
    <3> HIDE DEF next
    <3>q. QED BY <1>1, <3>1 DEF Request
  <2>q. QED BY <2>1, <2>2
<1>6. CASE Handle(r)
  <2>1. \/ Goto(r, "touch") \/ Goto(r, "found") \/ Answer(r, "404", {})
        \/ \E rows \in SUBSET Owned(r) : Answer(r, "ok", rows)
    <3>1. request[r].call.route \in {"create_workspace", "delete_workspace", "list_workspaces",
                                     "get_workspace", "create_tenant", "delete_tenant"}
        BY <1>1 DEF Request, Calls
    <3>2. CASE request[r].call.route \in {"create_workspace", "delete_workspace", "create_tenant", "delete_tenant"}
        BY <1>6, <3>2 DEF Handle
    <3>3. CASE request[r].call.route \in {"list_workspaces", "get_workspace"}
        BY <1>6, <3>3 DEF Handle
    <3>q. QED BY <3>1, <3>2, <3>3
  <2>2. Owned(r) \subseteq Workspace
    BY <1>1 DEF Owned, Visible, TypeOK
  <2>q. QED BY <2>1, <2>2, <1>2, <1>3 DEF Steps, Statuses
<1>7. CASE Touch(r)
  <2>1. CASE Answer(r, "500", {})
    BY <2>1, <1>3 DEF Statuses
  <2>2. CASE ~Answer(r, "500", {})
    <3>1. PICK next : request' = [request EXCEPT ![r].touched = TRUE, ![r].pc = next]
        BY <1>7, <2>2 DEF Touch
    <3>q. QED BY <1>1, <3>1 DEF Request
  <2>q. QED BY <2>1, <2>2
<1>8. CASE Insert(r)
  <2>1. CASE Answer(r, "500", {}) \/ Answer(r, "409", {})
    BY <2>1, <1>8 DEF Statuses
  <2>2. CASE ~(Answer(r, "500", {}) \/ Answer(r, "409", {}))
    <3>1. request' = [request EXCEPT ![r].pc = "refresh", ![r].inserted = {NewRow(r)}]
        BY <1>8, <2>2 DEF Insert
    <3>q. QED BY <1>1, <3>1 DEF Request
  <2>q. QED BY <2>1, <2>2
<1>9. CASE Refresh(r)
  <2>1. CASE Answer(r, "500", {})
    BY <2>1, <1>3 DEF Statuses
  <2>2. CASE ~Answer(r, "500", {})
    <3>1. PICK mine : request' = [request EXCEPT ![r].pc = "commit", ![r].rows = mine]
        BY <1>9, <2>2 DEF Refresh
    <3>q. QED BY <1>1, <3>1 DEF Request
  <2>q. QED BY <2>1, <2>2
<1>10. CASE Found(r)
  <2>1. request[r].call.route = "create_tenant"
    BY <1>1, <1>10, RoutesOfSteps DEF Found, SessionInv
  <2>2. Answer(r, "409", {}) \/ Goto(r, "touch")
    BY <1>10 DEF Found
  <2>q. QED BY <2>1, <2>2, <1>2 DEF Statuses, Steps
<1>11. CASE Commit(r)
  <2>1. request[r].call.route \in {"create_workspace", "delete_workspace", "create_tenant", "delete_tenant"}
    BY <1>1, <1>11, RoutesOfSteps DEF Commit, SessionInv
  <2>2. request[r].rows \in SUBSET Workspace
    BY <1>1 DEF Request
  <2>3. \E status \in {"ok", "done"}, rows \in SUBSET Workspace : Answer(r, status, rows)
    BY <1>11, <2>1, <2>2 DEF Commit
  <2>q. QED BY <2>3, <1>3 DEF Statuses
<1>12. CASE DeadlockDetected(r)
    BY <1>3, <1>12 DEF DeadlockDetected, Statuses
<1>q. QED BY <1>4, <1>5, <1>6, <1>7, <1>8, <1>9, <1>10, <1>11, <1>12 DEF Serve

\* What a step tells its caller, and what it does to the workspaces.
LEMMA ServeTells ==
    ASSUME IInv, NEW r \in Requests, Serve(r)
    PROVE  /\ request'[r].secret = request[r].secret
           /\ (request'[r].status # request[r].status /\ request'[r].status = "409"
                  /\ request[r].call.route = "create_workspace")
              => Insert(r) /\ Answer(r, "409", request'[r].rows)
<1>1. TypeOK
    BY DEF IInv
<1>2. CASE request'[r].status = request[r].status /\ request'[r].secret = request[r].secret
    BY <1>2
<1>3. ASSUME NEW status \in Statuses, NEW rows \in SUBSET Workspace, Answer(r, status, rows),
             (status = "409" /\ request[r].call.route = "create_workspace") => Insert(r)
      PROVE  /\ request'[r].secret = request[r].secret
             /\ (request'[r].status # request[r].status /\ request'[r].status = "409"
                    /\ request[r].call.route = "create_workspace")
                => Insert(r) /\ Answer(r, "409", request'[r].rows)
  <2>1. /\ request'[r].secret = request[r].secret
        /\ request'[r].status = status /\ request'[r].rows = rows
    BY <1>1, <1>3, AnswerShape
  <2>q. QED BY <1>3, <2>1
<1>q. QED BY <1>2, <1>3, ServeAnswers

-----------------------------------------------------------------------------
(***************************************************************************)
(* The properties.                                                         *)
(***************************************************************************)

\* Every reachable state is well formed.
THEOREM TypeCorrect == Spec => []TypeOK
<1>1. IInv => TypeOK
    BY DEF IInv
<1>q. QED BY <1>1, Invariant, PTL

\* No transaction runs in the scope of another request's tenant (get_scoped_db()).
THEOREM ScopeStays == Spec => []ScopeIsThePrincipals
<1>1. IInv => ScopeIsThePrincipals
  <2> SUFFICES ASSUME IInv, NEW c \in Connections, connections[c].setting # None
               PROVE  connections[c].by # None /\ connections[c].setting = request[connections[c].by].tenant
    BY DEF ScopeIsThePrincipals
  <2>1. HoldInv(c)
    BY DEF IInv, PoolInv
  <2>q. QED BY <2>1 DEF HoldInv
<1>q. QED BY <1>1, Invariant, PTL

\* A revoked key stays revoked: revoke() commits one column, a request another.
THEOREM RevocationIsFinal == Spec => RevocationSticks
<1> DEFINE sticks(k) ==
        (api_keys[k] # None /\ api_keys[k].revoked /\ api_keys'[k] # None) => api_keys'[k].revoked
<1>1. ASSUME IInv, [Next]_vars, NEW k \in Keys PROVE sticks(k)
  <2>1. api_keys \in [Keys -> ApiKey \cup {None}]
    BY <1>1 DEF IInv, TypeOK
  <2>2. CASE UNCHANGED vars
    BY <2>2 DEF vars
  <2>3. ASSUME NEW r \in Requests, Serve(r) PROVE sticks(k)
    <3>1. CASE ~Commit(r)
        BY <1>1, <2>3, <3>1, ServeTables
    <3>2. CASE Commit(r)
      <4>1. /\ api_keys[k] # None => Used(r)[k].revoked = api_keys[k].revoked
            /\ Used(r) \in [Keys -> ApiKey \cup {None}]
        BY <1>1, <2>3, UsedShape
      <4>2. request[r].call.route \in {"create_workspace", "delete_workspace", "create_tenant", "delete_tenant"}
        <5>1. SessionInv(r) /\ request[r].pc = "commit"
            BY <1>1, <3>2 DEF IInv, Commit
        <5>q. QED BY <5>1, RoutesOfSteps DEF SessionInv
      <4>3. api_keys'[k] \in {Used(r)[k], None}
        BY <3>2, <4>2 DEF Commit
      <4>q. QED BY <4>1, <4>3
    <3>q. QED BY <3>1, <3>2
  <2>4. ASSUME NEW j \in Keys, Revoke(j) PROVE sticks(k)
    <3>1. api_keys[j] \in ApiKey /\ api_keys' = [api_keys EXCEPT ![j].revoked = TRUE]
        BY <2>1, <2>4 DEF Revoke
    <3>q. QED BY <2>1, <3>1 DEF ApiKey
  <2>5. ASSUME NEW j \in Keys, Issue(j) PROVE sticks(k)
    BY <2>1, <2>5 DEF Issue
  <2>q. QED BY <1>1, <2>2, <2>3, <2>4, <2>5 DEF Next
<1>2. IInv /\ [Next]_vars => [\A k \in Keys : sticks(k)]_vars
    BY <1>1
<1>q. QED BY <1>2, Invariant, PTL DEF Spec, RevocationSticks

\* A caller is shown, and changes, the workspaces of its key's tenant only.
THEOREM ReachIsOwn == Spec => CallersReachOnlyTheirs
<1> DEFINE own(r) == KeyTenant[request[r].secret]
           reaches(r) ==
                (request'[r] # request[r] /\ request[r].call.route \in Scoped) =>
                    /\ \A w \in request'[r].rows : w.tenant = own(r)
                    /\ \A w \in Workspace : w.tenant # own(r) => (w \in workspaces' <=> w \in workspaces)
<1>1. ASSUME IInv, IInv', [Next]_vars, NEW r \in Requests, request'[r] # request[r],
             request[r].call.route \in Scoped
      PROVE  /\ \A w \in request'[r].rows : w.tenant = own(r)
             /\ \A w \in Workspace : w.tenant # own(r) => (w \in workspaces' <=> w \in workspaces)
  <2>1. Serve(r)
    <3>1. ASSUME NEW q \in Requests, Serve(q) PROVE q = r
        BY <1>1, <3>1, ServeFrame
    <3>2. ASSUME NEW k \in Keys, Revoke(k) \/ Issue(k) PROVE FALSE
        BY <1>1, <3>2 DEF Revoke, Issue
    <3>q. QED BY <1>1, <3>1, <3>2 DEF Next, vars
  <2>2. \A w \in request'[r].rows : w.tenant = own(r)
    <3>1. SessionInv(r)'
        BY <1>1 DEF IInv
    <3>2. request'[r].secret = request[r].secret
        BY <1>1, <2>1, ServeTells
    <3>q. QED BY <3>1, <3>2 DEF SessionInv
  <2>3. CASE ~Commit(r)
    BY <1>1, <2>1, <2>2, <2>3, ServeTables
  <2>4. CASE Commit(r)
    <3>1. SessionInv(r) /\ request[r].pc = "commit"
        BY <1>1, <2>4 DEF IInv, Commit
    <3>2. Setting(r) = own(r) /\ request[r].tenant = own(r)
        BY <1>1, <3>1, SettingIsTheKeys
    <3>3. request[r].call.route \in {"create_workspace", "delete_workspace"}
        BY <1>1, <3>1, RoutesOfSteps DEF SessionInv, Scoped
    <3>4. CASE request[r].call.route = "create_workspace"
      <4>1. workspaces' = workspaces \cup request[r].inserted
        BY <2>4, <3>4 DEF Commit
      <4>2. \A w \in request[r].inserted : w.tenant = own(r)
        BY <3>1, <3>2 DEF SessionInv, NewRow
      <4>q. QED BY <2>2, <4>1, <4>2
    <3>5. CASE request[r].call.route = "delete_workspace"
      <4>1. \A w : w \in workspaces' <=>
                w \in workspaces /\ (w.id # request[r].call.id \/ w \notin Visible(workspaces, Setting(r)))
        BY <2>4, <3>5 DEF Commit
      <4>q. QED BY <2>2, <3>2, <4>1 DEF Visible
    <3>q. QED BY <3>3, <3>4, <3>5
  <2>q. QED BY <2>3, <2>4
<1>2. IInv /\ IInv' /\ [Next]_vars => [\A r \in Requests : reaches(r)]_vars
    BY <1>1
<1>q. QED BY <1>2, Invariant, PTL DEF Spec, CallersReachOnlyTheirs

\* "Already has a workspace named" is said of a name that is taken, and a failure
\* leaves nothing behind (create() catches every IntegrityError).
THEOREM CreationTold == Spec => CreationIsToldTruly
<1> DEFINE told(r) ==
        (request[r].call.route = "create_workspace" /\ request'[r].status # request[r].status) =>
            /\ request'[r].status = "409" => \E w \in workspaces : SameName(w, NewRow(r))
            /\ request'[r].status = "500" => NewRow(r) \notin workspaces'
<1>1. ASSUME IInv, [Next]_vars, NEW r \in Requests,
             request[r].call.route = "create_workspace", request'[r].status # request[r].status
      PROVE  /\ request'[r].status = "409" => \E w \in workspaces : SameName(w, NewRow(r))
             /\ request'[r].status = "500" => NewRow(r) \notin workspaces'
  <2>1. Serve(r)
    <3>1. ASSUME NEW q \in Requests, Serve(q) PROVE q = r
        BY <1>1, <3>1, ServeFrame
    <3>2. ASSUME NEW k \in Keys, Revoke(k) \/ Issue(k) PROVE FALSE
        BY <1>1, <3>2 DEF Revoke, Issue
    <3>q. QED BY <1>1, <3>1, <3>2 DEF Next, vars
  <2>2. TypeOK /\ LockInv /\ CreatedInv /\ SessionInv(r)
    BY <1>1 DEF IInv
  <2>3. ASSUME request'[r].status = "409" PROVE \E w \in workspaces : SameName(w, NewRow(r))
    <3>1. Insert(r) /\ Answer(r, "409", request'[r].rows)
        BY <1>1, <2>1, <2>3, ServeTells
    <3>2. request[r].pc = "insert" /\ request[r].touched
        BY <2>2, <3>1 DEF Insert, SessionInv
    <3>3. Live(request[r].tenant)
      <4>1. request[r].key \in Keys /\ request[r].tenant = KeyTenant[request[r].key]
        BY <2>2, <3>2 DEF SessionInv, Verified, TypeOK, Request
      <4>q. QED BY <2>2, <3>2, <4>1 DEF LockInv
    <3>4. "409" \in Statuses /\ "500" \in Statuses /\ {} \in SUBSET Workspace
        BY DEF Statuses
    <3>5. ~Answer(r, "500", {})
        BY <2>2, <2>3, <3>4, AnswerShape
    <3>6. request'[r].pc = "answered"
        BY <1>1, <2>1, <2>2, ServeAnswers, AnswerShape
    <3>7. request' # [request EXCEPT ![r].pc = "refresh", ![r].inserted = {NewRow(r)}]
        BY <2>2, <3>6 DEF TypeOK, Request
    <3>q. QED BY <3>1, <3>3, <3>5, <3>7 DEF Insert
  <2>4. ASSUME request'[r].status = "500" PROVE NewRow(r) \notin workspaces'
    <3>1. PICK status \in Statuses, rows \in SUBSET Workspace : Answer(r, status, rows)
        BY <1>1, <2>1, ServeAnswers
    <3>2. status = "500"
        BY <2>2, <2>4, <3>1, AnswerShape
    <3>3. ~Commit(r)
      <4>1. \A st \in Statuses : Answer(r, st, request[r].rows) => st = "500"
        <5>1. request[r].rows \in SUBSET Workspace
            BY <2>2 DEF TypeOK, Request
        <5>q. QED BY <2>2, <2>4, <5>1, AnswerShape
      <4>2. Commit(r) => Answer(r, "ok", request[r].rows)
        BY <1>1 DEF Commit
      <4>q. QED BY <4>1, <4>2 DEF Statuses
    <3>4. UNCHANGED workspaces
        BY <1>1, <2>1, <3>3, ServeTables
    <3>5. request[r].pc # "answered"
        BY <2>1 DEF Serve, Arrive, Verify, Scope, Handle, Touch, Insert, Refresh, Erase, Found, Lock,
           Cascade, Commit, DeadlockDetected, WaitsFor
    <3>q. QED BY <2>2, <3>4, <3>5 DEF CreatedInv, NewRow
  <2>q. QED BY <2>3, <2>4
<1>2. IInv /\ [Next]_vars => [\A r \in Requests : told(r)]_vars
    BY <1>1
<1>q. QED BY <1>2, Invariant, PTL DEF Spec, CreationIsToldTruly
=============================================================================
