------------------------------- MODULE WebApi -------------------------------
(* The web API's requests and its users file.  A request is authenticated     *)
(* against the file as it is when it arrives, and handled later, on the event *)
(* loop or on a worker thread; a handler that changes users loads the file    *)
(* again, and saves it whole through one temporary file.  `autosiem users`    *)
(* does the same from another process.  Rows of the store belong to tenants.  *)
EXTENDS Naturals, Sequences, FiniteSets

CONSTANTS Slots,       \* requests in flight at once
          Accounts,    \* the users file at first: name -> account
          Newcomer,    \* [name, account] that `add` adds
          Routes, CliRoutes,  \* what is requested, and run as `autosiem users`
          Targets,     \* the users changed
          MaxRequests, MaxCrashes  \* bounds of the model

VARIABLES inodes,     \* contents of the users file's inodes, torn ones included
          target, tmp, \* the inodes the path and its .tmp name; 0: none
          meant,      \* what the saved changes, one after the other, make of the users
          slots,      \* slot -> <<>> or the request in it
          rows,       \* [kind, tenant]: incidents, suppressions, rule overrides, events
          touched,    \* [route, user, row, logged] of the request served last
          overlapped, \* two changes of the users were in flight at once
          requests, crashes

vars == <<inodes, target, tmp, meant, slots, rows, touched, overlapped, requests, crashes>>
file == <<inodes, target, tmp, meant>>

NoToken == 0
\* An account is [role, tenant, only, token]; only overrides the role if not empty.
RolePermissions ==
    LET read == {"data:read", "audit:read", "search:execute"}
        triage == read \cup {"incidents:update", "suppressions:manage", "approve:proposals", "rules:manage"}
    IN  [viewer |-> read, ingest |-> {"ingest:events"}, analyst |-> triage,
         admin |-> triage \cup {"ingest:events", "users:manage"}]
EffectivePermissions(account) == IF account.only # {} THEN account.only ELSE RolePermissions[account.role]

\* What a route asks for, what it touches and how, and whether only in the
\* user's tenant.  The lists of incidents, events, findings, sources and
\* suppressions ask for data:read, as pages as in the API; the pages of one incident
\* and of the audit log ask for nothing; the comment form names no tenant.
R(perm, kind, effect) == [perm |-> perm, kind |-> kind, effect |-> effect, scoped |-> TRUE]
ReadRoutes == [list |-> R("data:read", "any", "read"), audit |-> R("audit:read", "audit", "read")]
DecisionRoutes == [decide |-> R("approve:proposals", "proposal", "change"),
                   suppress |-> R("suppressions:manage", "suppression", "create"),
                   unsuppress |-> R("suppressions:manage", "suppression", "delete")]
IncidentRoutes == [update |-> R("incidents:update", "incident", "change")]
IngestRoutes == [ingest |-> R("ingest:events", "event", "create")]
RuleRoutes == [rule |-> R("rules:manage", "rule", "create")]
SearchRoutes == [search |-> R("search:execute", "any", "read")]
PageRoutes == [page |-> R("none", "incident", "read"), audit_page |-> R("none", "audit", "read")]
ListPages == [pages |-> ReadRoutes.list, search_page |-> SearchRoutes.search]
FormRoutes == [ui_unsuppress |-> DecisionRoutes["unsuppress"],
               ui_comment |-> [IncidentRoutes["update"] EXCEPT !.scoped = FALSE]]
Route == [list |-> ReadRoutes.list, audit |-> ReadRoutes.audit, decide |-> DecisionRoutes.decide,
          suppress |-> DecisionRoutes.suppress, unsuppress |-> DecisionRoutes.unsuppress,
          update |-> IncidentRoutes.update, ingest |-> IngestRoutes.ingest, rule |-> RuleRoutes.rule,
          search |-> SearchRoutes.search, page |-> PageRoutes.page, audit_page |-> PageRoutes.audit_page,
          pages |-> ListPages.pages, search_page |-> ListPages.search_page,
          ui_unsuppress |-> FormRoutes.ui_unsuppress, ui_comment |-> FormRoutes.ui_comment]
UserRoutes == {"add", "remove", "rotate", "revoke"}
Permission(route) == IF route \in UserRoutes THEN "users:manage" ELSE Route[route].perm
OnLoop(route) == route \in {"add", "rotate"}
----------------------------------------------------------------------------
\* Rbac.load: <<users>>, or <<>> when the file does not parse.
Load == inodes[target]
Authenticate(users, token) == {n \in DOMAIN users : users[n].token = token /\ token # NoToken}
Tokens(users) == {users[n].token : n \in DOMAIN users} \ {NoToken}

\* A save writes role, tenant and token only, and rotates in the token of the
\* request's number.
Plain(users) == [n \in DOMAIN users |-> [users[n] EXCEPT !.only = {}]]
Size(users) == 2 * Cardinality(DOMAIN users) + Cardinality({n \in DOMAIN users : users[n].token # NoToken})
Known(q, users) == IF q.route = "add" THEN q.name \notin DOMAIN users ELSE q.name \in DOMAIN users
Mutate(q, users) ==
    CASE q.route = "add"    -> [n \in DOMAIN users \cup {q.name} |->
                                  IF n = q.name THEN [Newcomer.account EXCEPT !.token = q.n] ELSE users[n]]
      [] q.route = "remove" -> [n \in DOMAIN users \ {q.name} |-> users[n]]
      [] q.route = "rotate" -> [users EXCEPT ![q.name].token = q.n]
      [] q.route = "revoke" -> [users EXCEPT ![q.name].token = NoToken]
----------------------------------------------------------------------------
Nobody == [name |-> "api-token", tenant |-> "none", perms |-> {}, all |-> TRUE]
Principal(users, n) == [name |-> n, tenant |-> users[n].tenant, perms |-> EffectivePermissions(users[n]), all |-> FALSE]
Allowed(q) == q.user.all \/ Permission(q.route) \in q.user.perms \cup {"none"}
TenantOf(q) == IF q.user.tenant = "none" THEN "default" ELSE q.user.tenant

Request(route, name, cli) ==
    [n |-> 10 + requests, route |-> route, name |-> name, cli |-> cli, user |-> Nobody, pc |-> "handler",
     store |-> <<>>, into |-> 0]
Put(s, q) == slots' = [slots EXCEPT ![s] = <<q>>]
Answer(s) == slots' = [slots EXCEPT ![s] = <<>>]
Quiet == UNCHANGED <<rows, touched, overlapped, requests, crashes>>

\* _api_auth_middleware: 503 for an unreadable file, 401 for a token no user
\* has; without users the shared token, taken as presented, is as good as admin.
Receive(s, route, name, token) ==
    LET q == Request(route, name, FALSE)
        who == Authenticate(Load[1], token)
    IN  /\ slots[s] = <<>> /\ requests < MaxRequests /\ requests' = requests + 1
        /\ CASE Load = <<>> -> UNCHANGED slots
             [] Load # <<>> /\ DOMAIN Load[1] = {} -> Put(s, q)
             [] Load # <<>> /\ DOMAIN Load[1] # {} /\ who = {} -> UNCHANGED slots
             [] OTHER -> Put(s, [q EXCEPT !.user = Principal(Load[1], CHOOSE n \in who : TRUE)])
        /\ touched' = {}
        /\ UNCHANGED <<file, rows, overlapped, crashes>>
\* cli users: no authentication, and the file is loaded at once.
RunCli(s, route, name) ==
    /\ slots[s] = <<>> /\ requests < MaxRequests /\ requests' = requests + 1 /\ Load # <<>>
    /\ Put(s, Request(route, name, TRUE))
    /\ UNCHANGED <<file, rows, touched, overlapped, crashes>>

Forbid(s) == /\ slots[s] # <<>> /\ slots[s][1].pc = "handler" /\ ~Allowed(slots[s][1])
             /\ Answer(s) /\ Quiet /\ UNCHANGED file

\* A handler's one transaction on the rows its tenant may see, and its audit row.
VisibleAnywhere(q) ==  \* mutant: a lookup without the tenant
    {r \in rows : Route[q.route].kind \in {r.kind, "any"}}
Visible(q) == {r \in rows : /\ Route[q.route].kind \in {r.kind, "any"}
                            /\ ~Route[q.route].scoped \/ q.user.tenant \in {"none", r.tenant}}
Serve(s) ==
    LET q == slots[s][1]
        effect == Route[q.route].effect
        new == [kind |-> Route[q.route].kind, tenant |-> TenantOf(q)]
        touch(S, logged) == touched' = {[route |-> q.route, user |-> q.user, row |-> r, logged |-> logged] : r \in S}
    IN  /\ slots[s] # <<>> /\ q.pc = "handler" /\ q.route \notin UserRoutes /\ Allowed(q)
        /\ \/ effect = "read" /\ touch(Visible(q), "none") /\ UNCHANGED rows
           \/ effect = "create" /\ touch({new}, new.tenant) /\ rows' = rows \cup {new}
           \/ \E r \in Visible(q) :
                /\ effect \in {"change", "delete"}
                /\ touch({r}, IF q.route = "ui_comment" THEN r.tenant ELSE TenantOf(q))
                /\ rows' = IF effect = "delete" THEN rows \ {r} ELSE rows
           \/ effect \in {"change", "delete"} /\ Visible(q) = {} /\ UNCHANGED <<rows, touched>>
        /\ Answer(s) /\ UNCHANGED <<file, overlapped, requests, crashes>>
----------------------------------------------------------------------------
\* A change of the users.  The async handlers share the event loop, which only
\* `add` gives up, to read its body after it has loaded the file.
Changing(s) == slots[s] # <<>> /\ slots[s][1].pc \in {"body", "open", "write", "replace"}
LoopFree(s) == slots[s][1].cli \/ ~OnLoop(slots[s][1].route)
               \/ \A t \in Slots \ {s} : ~(/\ slots[t] # <<>> /\ ~slots[t][1].cli /\ OnLoop(slots[t][1].route)
                                           /\ slots[t][1].pc \in {"write", "replace", "audit"})
LoadStore(s) ==
    /\ slots[s] # <<>> /\ slots[s][1].pc = "handler"
    /\ slots[s][1].route \in UserRoutes /\ Allowed(slots[s][1]) /\ LoopFree(s)
    /\ IF Load = <<>> THEN Answer(s)
       ELSE Put(s, [slots[s][1] EXCEPT !.store = Load, !.pc = IF slots[s][1].route = "add" THEN "body" ELSE "open"])
    /\ overlapped' = (overlapped \/ \E t \in Slots \ {s} : Changing(t))
    /\ UNCHANGED <<file, rows, touched, requests, crashes>>
\* 400 or 404, or the temporary file is opened and truncated.
OpenTmp(s) ==
    LET q == slots[s][1]
    IN  /\ slots[s] # <<>> /\ q.pc \in {"body", "open"} /\ LoopFree(s)
        /\ IF ~Known(q, q.store[1]) THEN Answer(s) /\ UNCHANGED file
           ELSE /\ IF tmp = 0 THEN inodes' = Append(inodes, <<>>) /\ tmp' = Len(inodes) + 1
                              ELSE inodes' = [inodes EXCEPT ![tmp] = <<>>] /\ UNCHANGED tmp
                /\ Put(s, [q EXCEPT !.store = <<Plain(Mutate(q, @[1]))>>, !.pc = "write", !.into = tmp'])
                /\ UNCHANGED <<target, meant>>
        /\ Quiet
\* The text goes to the inode that was opened, over what another writer put
\* there; a longer text shows behind a shorter one.
WriteTmp(s) ==
    LET q == slots[s][1]
    IN  /\ slots[s] # <<>> /\ q.pc = "write"
        /\ inodes' = [inodes EXCEPT ![q.into] = IF @ # <<>> /\ Size(@[1]) > Size(q.store[1]) THEN <<>> ELSE q.store]
        /\ Put(s, [q EXCEPT !.pc = "replace"])
        /\ UNCHANGED <<target, tmp, meant>> /\ Quiet
\* os.replace fails when another writer has renamed the temporary file away.
Replace(s) ==
    LET q == slots[s][1]
    IN  /\ slots[s] # <<>> /\ q.pc = "replace"
        /\ IF tmp = 0 THEN Answer(s) /\ UNCHANGED <<target, tmp, meant>>
           ELSE /\ target' = tmp /\ tmp' = 0
                /\ meant' = IF Known(q, meant) THEN Plain(Mutate(q, meant)) ELSE Plain(meant)
                /\ Put(s, [q EXCEPT !.pc = "audit"])
        /\ UNCHANGED <<inodes, rows, touched, overlapped, requests, crashes>>
\* The audit row is a transaction of its own; a crash before it loses it.
AuditUserChange(s) ==
        /\ slots[s] # <<>> /\ slots[s][1].pc = "audit"
        /\ Answer(s) /\ UNCHANGED <<file, rows, touched, overlapped, requests, crashes>>
Crash == /\ crashes < MaxCrashes /\ crashes' = crashes + 1
         /\ slots' = [s \in Slots |-> <<>>]
         /\ UNCHANGED <<file, rows, touched, overlapped, requests>>

Init == /\ inodes = <<<<Accounts>>>> /\ target = 1 /\ tmp = 0 /\ meant = Accounts
        /\ slots = [s \in Slots |-> <<>>]
        /\ rows = [kind : {"incident", "proposal"}, tenant : {Accounts[n].tenant : n \in DOMAIN Accounts}]
        /\ touched = {} /\ overlapped = FALSE /\ requests = 0 /\ crashes = 0
Next == \E s \in Slots :
            \/ \E route \in Routes, name \in Targets, token \in Tokens(meant) \cup Tokens(Accounts) :
                  (route \notin UserRoutes => name = Newcomer.name) /\ Receive(s, route, name, token)
            \/ \E route \in CliRoutes, name \in Targets : RunCli(s, route, name)
            \/ Forbid(s) \/ Serve(s) \/ LoadStore(s) \/ OpenTmp(s) \/ WriteTmp(s) \/ Replace(s)
            \/ AuditUserChange(s) \/ Crash
Spec == Init /\ [][Next]_vars
----------------------------------------------------------------------------
\* Changes of the users that do not overlap are all kept, whatever crashes in
\* between: the file is readable and says what they make of the first users one
\* after the other, so a revoked or replaced token stays refused.
UserChangesKept == ~overlapped => Load # <<>> /\ Plain(Load[1]) = Plain(meant)

\* Whatever a request read or wrote, its user had the route's permission when
\* it arrived, and the row is of the user's tenant, as is the audit row; the
\* comment form alone does not look at the tenant, and the pages of one incident
\* and of the audit log look at no permission.
RequestsScoped ==
    \A t \in touched : ~t.user.all =>
        /\ Route[t.route].perm \in t.user.perms \cup {"none"}
        /\ t.user.tenant = t.row.tenant \/ t.route = "ui_comment"
        /\ t.logged \in {"none", t.row.tenant}
=============================================================================
