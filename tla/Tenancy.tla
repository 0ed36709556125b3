------------------------------- MODULE Tenancy -------------------------------
(***************************************************************************)
(* Who may reach what: API keys (app/services/api_keys.py), the principal  *)
(* and the scoped session of a request (app/api/auth.py), the routes of    *)
(* tenants and workspaces, and row-level security (the migration           *)
(* aec70d6a516d).  A request runs in one session, whose transaction holds  *)
(* a connection of the pool from its first statement to its commit; one    *)
(* statement is one action.  Tenants and keys are revoked, dropped and     *)
(* issued by other requests and sessions at any point.                     *)
(***************************************************************************)
EXTENDS Integers, FiniteSets

CONSTANTS
    Requests,
    Connections,  \* the pool
    Tenants,
    Keys,         \* secrets; a row of api_keys has the digest of one
    Names,        \* of workspaces
    Seeds,        \* ids of workspaces that may be there from the start
    KeyTenant,    \* KeyTenant[k], KeyPrefix[k]: the tenant and the prefix of the
    KeyPrefix,    \* row with k's digest
    Admins,       \* the keys with is_admin
    None

\* The id of a workspace a request creates is as new as the request.
Ids == Seeds \cup Requests

Workspace == [id : Ids, tenant : Tenants, name : Names]

\* A row of api_keys: last_used_at counts the verifications so far.
ApiKey == [revoked : BOOLEAN, last_used_at : Nat]

ASSUME TenancyAssumption ==
    /\ KeyTenant \in [Keys -> Tenants]
    /\ Seeds \cap Requests = {}
    /\ None \notin Requests \cup Tenants \cup Keys \cup ApiKey

VARIABLES
    tenants,      \* tenants[t]: "new", "live" or "gone"
    api_keys,     \* api_keys[k]: the committed row, or None
    workspaces,   \* the committed rows of workspaces
    connections,  \* connections[c]: who holds it, and app.current_tenant_id
    request,      \* request[r]: a request and its session
    now           \* verifications so far

vars == <<tenants, api_keys, workspaces, connections, request, now>>

-----------------------------------------------------------------------------
\* What a request asks for: a route and its argument.
Calls ==
    [route : {"create_workspace"}, name : Names] \cup
    [route : {"list_workspaces"}] \cup
    [route : {"get_workspace", "delete_workspace"}, id : Ids] \cup
    [route : {"create_tenant", "delete_tenant"}, tenant : Tenants]

Scoped == {"create_workspace", "list_workspaces", "get_workspace", "delete_workspace"}

Steps ==
    {"new", "verify", "scope", "handler", "touch", "insert", "refresh", "erase",
     "found", "lock", "cascade", "commit", "answered"}

\* 201 and 200 are "ok", 204 is "done".
Statuses == {None, "ok", "done", "401", "403", "404", "409", "500"}

Request ==
    [pc        : Steps,
     secret    : Keys,
     call      : Calls,
     key       : Keys \cup {None},            \* Principal.api_key_id
     tenant    : Tenants \cup {None},         \* Principal.tenant_id
     used_at   : Nat,                         \* last_used_at, set but not flushed
     loaded    : ApiKey,                      \* the row of the key as verify() read it
     touched   : BOOLEAN,                     \* has its UPDATE of the key run?
     inserted  : SUBSET Workspace,            \* rows it has inserted
     status    : Statuses,
     rows      : SUBSET Workspace]            \* the body of the answer

TypeOK ==
    /\ tenants \in [Tenants -> {"new", "live", "gone"}]
    /\ api_keys \in [Keys -> ApiKey \cup {None}]
    /\ workspaces \subseteq Workspace
    /\ connections \in [Connections -> [by : Requests \cup {None}, setting : Tenants \cup {None}]]
    /\ request \in [Requests -> Request]
    /\ now \in Nat

Free == [by |-> None, setting |-> None]

Init ==
    /\ tenants \in [Tenants -> {"new", "live"}]
    /\ api_keys = [k \in Keys |->
           IF tenants[KeyTenant[k]] = "live" THEN [revoked |-> FALSE, last_used_at |-> 0] ELSE None]
    /\ \E owner \in [Seeds -> {t \in Tenants : tenants[t] = "live"} \cup {None}], n \in Names :
        workspaces = {[id |-> i, tenant |-> owner[i], name |-> n] :
                        i \in {j \in Seeds : owner[j] # None}}
    /\ \A v, w \in workspaces : v.tenant = w.tenant => v = w
    /\ connections = [c \in Connections |-> Free]
    /\ \E secret \in [Requests -> Keys], call \in [Requests -> Calls] :
        request = [r \in Requests |->
            [pc |-> "new", secret |-> secret[r], call |-> call[r], key |-> None,
             tenant |-> None, used_at |-> 0,
             loaded |-> [revoked |-> FALSE, last_used_at |-> 0], touched |-> FALSE,
             inserted |-> {}, status |-> None, rows |-> {}]]
    /\ now = 0

-----------------------------------------------------------------------------
Live(t) == tenants[t] = "live"

\* app.current_tenant_id in the transaction of r; unset if r has none.
Setting(r) ==
    IF \E c \in Connections : connections[c].by = r
    THEN LET c == CHOOSE d \in Connections : connections[d].by = r
         IN  connections[c].setting
    ELSE None

\* The policy: rows of the tenant of the setting, none if it is unset.
Visible(rows, setting) == {w \in rows : w.tenant = setting}

\* Mutation of EndTransaction: set_config(..., false) outlives the transaction.
EndKeepsSetting(r) ==
    connections' = [c \in Connections |->
        IF connections[c].by = r THEN [connections[c] EXCEPT !.by = None] ELSE connections[c]]

\* A commit, a rollback or close() gives the connection back; the setting was
\* local to the transaction.
EndTransaction(r) ==
    connections' = [c \in Connections |-> IF connections[c].by = r THEN Free ELSE connections[c]]

\* The route answers, and get_db() closes the session.
Answer(r, status, rows) ==
    /\ request' = [request EXCEPT
           ![r].pc = "answered", ![r].status = status, ![r].rows = rows,
           ![r].touched = FALSE, ![r].inserted = {}]
    /\ EndTransaction(r)

Goto(r, pc) == request' = [request EXCEPT ![r].pc = pc]

\* Row locks, held to the end of the transaction.  The UPDATE of last_used_at
\* locks the key, the DELETE of a tenant its row and then the rows it cascades
\* to; an uncommitted row of workspaces shares the lock of its tenant.
Drops(q, t) == request[q].call.route = "delete_tenant" /\ request[q].call.tenant = t

KeyLockedBy(k, q) ==
    \/ request[q].touched /\ request[q].key = k
    \/ request[q].pc = "commit" /\ Drops(q, KeyTenant[k])

TenantLockedBy(t, q) == request[q].pc \in {"cascade", "commit"} /\ Drops(q, t)

\* The row r is about to insert.
NewRow(r) == [id |-> r, tenant |-> request[r].tenant, name |-> request[r].call.name]

\* uq_workspaces_tenant_id_name: two rows that cannot both be there.
SameName(v, w) == v.tenant = w.tenant /\ v.name = w.name

\* The requests whose locks, or uncommitted rows, the next statement of r waits for.
WaitsFor(r) ==
    {q \in Requests \ {r} :
        CASE request[r].pc = "touch" -> KeyLockedBy(request[r].key, q)
          [] request[r].pc = "insert" ->
                \/ TenantLockedBy(request[r].tenant, q)
                \/ \E w \in request[q].inserted : SameName(w, NewRow(r))
          [] request[r].pc = "found" ->
                request[q].pc \in {"touch", "commit"} /\ request[q].call = request[r].call
          [] request[r].pc = "lock" ->
                \/ TenantLockedBy(request[r].call.tenant, q)
                \/ \E w \in request[q].inserted : w.tenant = request[r].call.tenant
          [] request[r].pc = "cascade" ->
                \E k \in Keys : KeyTenant[k] = request[r].call.tenant /\ KeyLockedBy(k, q)
          [] OTHER -> FALSE}

-----------------------------------------------------------------------------
\* The first statement of the session takes a connection.
Arrive(r) ==
    /\ request[r].pc = "new"
    /\ \E c \in Connections :
        /\ connections[c].by = None
        /\ connections' = [connections EXCEPT ![c].by = r]
    /\ Goto(r, "verify")
    /\ UNCHANGED <<tenants, api_keys, workspaces, now>>

\* Mutation of Candidates: the prefix is trusted.
AnyOfThePrefix(secret) ==
    {k \in Keys : api_keys[k] # None /\ KeyPrefix[k] = KeyPrefix[secret]}

\* verify(): rows with the prefix of the secret, whose digest matches it.
Candidates(secret) ==
    {k \in Keys : api_keys[k] # None /\ KeyPrefix[k] = KeyPrefix[secret] /\ k = secret}

\* get_principal(), require_admin().  last_used_at is set on the object only.
Verify(r) ==
    LET valid == {k \in Candidates(request[r].secret) : ~api_keys[k].revoked}
        route == request[r].call.route
    IN  /\ request[r].pc = "verify"
        /\ \/ /\ valid = {}
              /\ Answer(r, "401", {})
              /\ UNCHANGED now
           \/ \E k \in valid :
              /\ now' = now + 1
              /\ IF route \notin Scoped /\ k \notin Admins
                 THEN Answer(r, "403", {})
                 ELSE /\ request' = [request EXCEPT
                             ![r].pc = IF route \in Scoped THEN "scope" ELSE "handler",
                             ![r].key = k,
                             ![r].tenant = KeyTenant[k],
                             ![r].used_at = now + 1,
                             ![r].loaded = api_keys[k]]
                      /\ UNCHANGED connections
        /\ UNCHANGED <<tenants, api_keys, workspaces>>

\* get_scoped_db(): set_config(..., true)
Scope(r) ==
    /\ request[r].pc = "scope"
    /\ connections' = [c \in Connections |->
           IF connections[c].by = r
           THEN [connections[c] EXCEPT !.setting = request[r].tenant] ELSE connections[c]]
    /\ Goto(r, "handler")
    /\ UNCHANGED <<tenants, api_keys, workspaces, now>>

\* services/workspaces.py: the filter every read has besides the policy.
Owned(r) == {w \in Visible(workspaces, Setting(r)) : w.tenant = request[r].tenant}

\* The first statement of each route: a read.
Handle(r) ==
    LET call == request[r].call
        mine == IF call.route \in {"get_workspace", "delete_workspace"}
                THEN {w \in Owned(r) : w.id = call.id} ELSE Owned(r)
    IN  /\ request[r].pc = "handler"
        /\ CASE call.route = "create_workspace" ->
                  IF Live(request[r].tenant)
                  THEN Goto(r, "touch") /\ UNCHANGED connections
                  ELSE Answer(r, "404", {})
             [] call.route = "list_workspaces" -> Answer(r, "ok", mine)
             [] call.route = "get_workspace" ->
                  IF mine = {} THEN Answer(r, "404", {}) ELSE Answer(r, "ok", mine)
             [] call.route = "delete_workspace" ->
                  IF mine = {}
                  THEN Answer(r, "404", {})
                  ELSE Goto(r, "touch") /\ UNCHANGED connections
             [] call.route = "create_tenant" -> Goto(r, "found") /\ UNCHANGED connections
             [] call.route = "delete_tenant" ->
                  IF Live(call.tenant)
                  THEN Goto(r, "touch") /\ UNCHANGED connections
                  ELSE Answer(r, "404", {})
        /\ UNCHANGED <<tenants, api_keys, workspaces, now>>

\* The UPDATE of last_used_at, by primary key: a flush writes tenants before it, and
\* workspaces and deletes after it.  If the row is gone the session raises
\* StaleDataError, which no route catches.
Touch(r) ==
    /\ request[r].pc = "touch"
    /\ WaitsFor(r) = {}
    /\ IF api_keys[request[r].key] = None
       THEN Answer(r, "500", {})
       ELSE /\ request' = [request EXCEPT
                   ![r].touched = TRUE,
                   ![r].pc = CASE request[r].call.route = "create_workspace" -> "insert"
                               [] request[r].call.route = "delete_workspace" -> "erase"
                               [] request[r].call.route = "create_tenant" -> "commit"
                               [] request[r].call.route = "delete_tenant" -> "lock"]
            /\ UNCHANGED connections
    /\ UNCHANGED <<tenants, api_keys, workspaces, now>>

\* Mutation of Insert: the row is committed first and refreshed afterwards.
InsertThenCommit(r) ==
    /\ request[r].pc = "insert"
    /\ WaitsFor(r) = {}
    /\ Live(request[r].tenant)
    /\ ~\E w \in workspaces : SameName(w, NewRow(r))
    /\ workspaces' = workspaces \cup {NewRow(r)}
    /\ request' = [request EXCEPT ![r].pc = "refresh", ![r].touched = FALSE]
    /\ EndTransaction(r)
    /\ UNCHANGED <<tenants, api_keys, now>>

\* The INSERT of workspaces.create(): WITH CHECK of the policy, the unique
\* constraint, the foreign key.
Insert(r) ==
    /\ request[r].pc = "insert"
    /\ WaitsFor(r) = {}
    /\ IF Visible({NewRow(r)}, Setting(r)) = {}
       THEN Answer(r, "500", {})
       ELSE IF (\E w \in workspaces : SameName(w, NewRow(r))) \/ ~Live(request[r].tenant)
       THEN Answer(r, "409", {})
       ELSE /\ request' = [request EXCEPT ![r].pc = "refresh", ![r].inserted = {NewRow(r)}]
            /\ UNCHANGED connections
    /\ UNCHANGED <<tenants, api_keys, workspaces, now>>

\* db.refresh(workspace): the row must be visible to the transaction.
Refresh(r) ==
    LET mine == {w \in Visible(workspaces \cup request[r].inserted, Setting(r)) : w.id = r}
    IN  /\ request[r].pc = "refresh"
        /\ IF mine = {}
           THEN Answer(r, "500", {})
           ELSE /\ request' = [request EXCEPT ![r].pc = "commit", ![r].rows = mine]
                /\ UNCHANGED connections
        /\ UNCHANGED <<tenants, api_keys, workspaces, now>>

\* delete_workspace(): the DELETE by primary key; a row that is gone already is
\* only warned about.  The commit follows at once.
Erase(r) ==
    /\ request[r].pc = "erase"
    /\ Goto(r, "commit")
    /\ UNCHANGED <<tenants, api_keys, workspaces, connections, now>>

\* The INSERT of create_tenant(): the unique constraint on the name.
Found(r) ==
    /\ request[r].pc = "found"
    /\ WaitsFor(r) = {}
    /\ IF tenants[request[r].call.tenant] # "new"
       THEN Answer(r, "409", {})
       ELSE Goto(r, "touch") /\ UNCHANGED connections
    /\ UNCHANGED <<tenants, api_keys, workspaces, now>>

\* delete_tenant(): the DELETE of the tenant's row, which cascades to its keys and
\* workspaces.
Lock(r) ==
    /\ request[r].pc = "lock"
    /\ WaitsFor(r) = {}
    /\ Goto(r, "cascade")
    /\ UNCHANGED <<tenants, api_keys, workspaces, connections, now>>

Cascade(r) ==
    /\ request[r].pc = "cascade"
    /\ WaitsFor(r) = {}
    /\ Goto(r, "commit")
    /\ UNCHANGED <<tenants, api_keys, workspaces, connections, now>>

\* PostgreSQL aborts one of those who wait for each other.
DeadlockDetected(r) ==
    /\ \E R \in SUBSET Requests :
        /\ r \in R
        /\ \A q \in R : WaitsFor(q) \cap R # {}
    /\ Answer(r, "500", {})
    /\ UNCHANGED <<tenants, api_keys, workspaces, now>>

-----------------------------------------------------------------------------
\* Mutation of Used: the whole row is written back as verify() read it.
UsedAsLoaded(r) ==
    [api_keys EXCEPT ![request[r].key] = [request[r].loaded EXCEPT !.last_used_at = request[r].used_at]]

\* Only the column that changed is written.
Used(r) ==
    IF request[r].touched
    THEN [api_keys EXCEPT ![request[r].key].last_used_at = request[r].used_at]
    ELSE api_keys

\* The commit makes visible what the statements did.
Commit(r) ==
    LET call == request[r].call
    IN  /\ request[r].pc = "commit"
        /\ CASE call.route = "create_workspace" ->
                  /\ workspaces' = workspaces \cup request[r].inserted
                  /\ api_keys' = Used(r)
                  /\ UNCHANGED tenants
                  /\ Answer(r, "ok", request[r].rows)
             [] call.route = "delete_workspace" ->
                  /\ workspaces' = {w \in workspaces :
                        w.id # call.id \/ w \notin Visible(workspaces, Setting(r))}
                  /\ api_keys' = Used(r)
                  /\ UNCHANGED tenants
                  /\ Answer(r, "done", {})
             [] call.route = "create_tenant" ->
                  /\ tenants' = [tenants EXCEPT ![call.tenant] = "live"]
                  /\ api_keys' = Used(r)
                  /\ UNCHANGED workspaces
                  /\ Answer(r, "ok", {})
             [] call.route = "delete_tenant" ->
                  /\ tenants' = [tenants EXCEPT ![call.tenant] = "gone"]
                  /\ api_keys' = [k \in Keys |->
                        IF KeyTenant[k] = call.tenant THEN None ELSE Used(r)[k]]
                  /\ workspaces' = {w \in workspaces : w.tenant # call.tenant}
                  /\ Answer(r, "done", {})
        /\ UNCHANGED now

-----------------------------------------------------------------------------
\* Other sessions: revoke(), issue() and their commits.
Revoke(k) ==
    /\ api_keys[k] # None
    /\ ~api_keys[k].revoked
    /\ \A q \in Requests : ~KeyLockedBy(k, q)
    /\ api_keys' = [api_keys EXCEPT ![k].revoked = TRUE]
    /\ UNCHANGED <<tenants, workspaces, connections, request, now>>

\* A secret is made for one row only.
Issue(k) ==
    /\ api_keys[k] = None
    /\ Live(KeyTenant[k])
    /\ \A q \in Requests : ~TenantLockedBy(KeyTenant[k], q)
    /\ api_keys' = [api_keys EXCEPT ![k] = [revoked |-> FALSE, last_used_at |-> 0]]
    /\ UNCHANGED <<tenants, workspaces, connections, request, now>>

-----------------------------------------------------------------------------
Serve(r) ==
    \/ Arrive(r) \/ Verify(r) \/ Scope(r) \/ Handle(r) \/ Touch(r) \/ Insert(r)
    \/ Refresh(r) \/ Erase(r) \/ Found(r) \/ Lock(r) \/ Cascade(r) \/ Commit(r)
    \/ DeadlockDetected(r)

Next ==
    \/ \E r \in Requests : Serve(r)
    \/ \E k \in Keys : Revoke(k) \/ Issue(k)

Spec == Init /\ [][Next]_vars

-----------------------------------------------------------------------------
\* Properties.

\* The tenant of a transaction is the tenant of the request that runs it, and a
\* connection in the pool has none: no request inherits the scope of another.
ScopeIsThePrincipals ==
    \A c \in Connections :
        connections[c].setting # None =>
            /\ connections[c].by # None
            /\ connections[c].setting = request[connections[c].by].tenant

\* Whatever key a caller presents, the rows it is shown and the workspaces that
\* appear or go by its request are of that key's tenant; only an admin's deletion
\* of a tenant reaches further.
CallersReachOnlyTheirs ==
    [][\A r \in Requests :
         (request'[r] # request[r] /\ request[r].call.route \in Scoped) =>
             LET own == KeyTenant[request[r].secret]
             IN  /\ \A w \in request'[r].rows : w.tenant = own
                 /\ \A w \in Workspace : w.tenant # own => (w \in workspaces' <=> w \in workspaces)]_vars

\* What a caller is told of a creation is so.  "Already has a workspace named" is
\* only said if there is one, though any integrity error says it; and a handler that
\* fails otherwise, before its commit or after it, has created nothing.
CreationIsToldTruly ==
    [][\A r \in Requests :
         (request[r].call.route = "create_workspace" /\ request'[r].status # request[r].status) =>
             /\ request'[r].status = "409" =>
                   \E w \in workspaces : SameName(w, NewRow(r))
             /\ request'[r].status = "500" => NewRow(r) \notin workspaces']_vars

\* A key that was revoked stays revoked, whoever writes its row.
RevocationSticks ==
    [][\A k \in Keys :
         (api_keys[k] # None /\ api_keys[k].revoked /\ api_keys'[k] # None)
             => api_keys'[k].revoked]_vars

\* last_used_at only moves forward: does not hold, for requests commit in another
\* order than they were verified in.
LastUseNeverGoesBack ==
    [][\A k \in Keys :
         (api_keys[k] # None /\ api_keys'[k] # None)
             => api_keys'[k].last_used_at >= api_keys[k].last_used_at]_vars
=============================================================================
