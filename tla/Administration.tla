---------------------------- MODULE Administration ----------------------------
(***************************************************************************)
(* The console as a whole: requests of several people at a time on one      *)
(* database, from the scenarios given, with crashes of the backend.         *)
(***************************************************************************)
EXTENDS PortalSession, Listings

CONSTANT Scenarios      \* a database, requests to send, and the state of the browser

AgentColumns == {"tenant", "extension", "group", "portalUser", "parent"}

GroupColumns == {"tenant", "name", "owner"}

InboundColumns == {"tenant", "did", "type", "value"}

UserColumns == {"email", "role", "active", "password", "hash"}

(* The agents that an agent or a group refers to are of its tenant, and so   *)
(* is the group of an agent.                                                 *)
OneTenant(d) ==
    /\ \A a \in DOMAIN d.agent : LET row == d.agent[a] IN
         /\ row.group # Nil => d.group[row.group].tenant = row.tenant
         /\ row.parent # Nil => d.agent[row.parent].tenant = row.tenant
    /\ \A g \in DOMAIN d.group :
         d.group[g].owner # Nil => d.agent[d.group[g].owner].tenant = d.group[g].tenant

(* An account is of one agent, an extension one of the agent's tenant.       *)
Equipped(d) ==
    \A a, b \in DOMAIN d.agent : LET row == d.agent[a] IN
      /\ row.portalUser = d.agent[b].portalUser /\ row.portalUser # Nil => a = b
      /\ row.extension # Nil => <<row.tenant, row.extension>> \in DOMAIN d.extension

(* Among any agents there is one whose parent is not among them.             *)
Rooted(d) ==
    \A S \in SUBSET DOMAIN d.agent : S # {} => \E a \in S : d.agent[a].parent \notin S

(* What the requests find: rows with their columns and keys, references that *)
(* hold, and agents that are sound.                                          *)
Found(d) ==
    /\ TableNames \subseteq DOMAIN d /\ Referenced(d)
    /\ IsFiniteSet(DOMAIN d.agent) /\ IsFiniteSet(DOMAIN d.extension)
    /\ Nil \notin DOMAIN d.agent \cup DOMAIN d.user \cup DOMAIN d.tenant \cup DOMAIN d.inbound
    /\ \A a \in DOMAIN d.agent : DOMAIN d.agent[a] = AgentColumns
    /\ \A g \in DOMAIN d.group : DOMAIN d.group[g] = GroupColumns
    /\ \A i \in DOMAIN d.inbound : InboundColumns \subseteq DOMAIN d.inbound[i]
    /\ \A x \in DOMAIN d.extension : d.extension[x] = ExtensionRow(x, d.extension[x].password)
                                    /\ x[1] # Nil
    /\ \A t \in DOMAIN d.tenant : "limit" \in DOMAIN d.tenant[t] /\ d.tenant[t].limit \in Nat \cup {Nil}
    /\ OneTenant(d) /\ Equipped(d) /\ Rooted(d)

(* A request that makes a row makes it under a key of its own, a uuid.       *)
OwnKeys(s, op, table) ==
    \A r \in s.requests : r.op = op =>
        /\ r.id # Nil /\ r.id \notin DOMAIN s.db[table]
        /\ \A q \in s.requests : q.op = op /\ q.id = r.id => q = r

ASSUME ScenariosAssumption ==
    \A s \in Scenarios :
      /\ Found(s.db)
      /\ OwnKeys(s, "createAgent", "agent") /\ OwnKeys(s, "createGroup", "group")
      /\ OwnKeys(s, "createUser", "user")
      /\ \A r \in s.requests :
           /\ r.op = "createAgent" => DOMAIN r.dto = AgentColumns
           /\ r.op = "createGroup" => DOMAIN r.dto = GroupColumns
           /\ r.op = "createInbound" => r.id # Nil /\ InboundColumns \subseteq DOMAIN r.dto
           /\ r.op \in {"createTenant", "updateTenant"} =>
                /\ r.id # Nil
                /\ "limit" \in DOMAIN r.dto => r.dto.limit \in Nat \cup {Nil}

(* A scenario sends no request of the browser, which asks for itself; its     *)
(* account has the bundle that it was given last, or none.  A membership has  *)
(* its account and its tenant for a key.                                     *)
ASSUME SessionsAssumption ==
    /\ Nil \notin Nat
    /\ \A s \in Scenarios :
         /\ s.bundle \in Nat
         /\ \A u \in DOMAIN s.db.user : UserColumns \subseteq DOMAIN s.db.user[u]
         /\ \A m \in DOMAIN s.db.member :
              DOMAIN s.db.member[m] = {"user", "tenant"} /\ m = <<s.db.member[m].user, s.db.member[m].tenant>>
         /\ Visitor \in DOMAIN s.db.user => s.db.user[Visitor].hash \in {Nil} \cup 1..s.bundle
         /\ \A r \in s.requests :
              r.op \notin {"login", "refresh", "logout"} /\ (r.op = "createUser" => r.id # Visitor)

vars == <<consoleVars, sessionVars>>

Init ==
    /\ \E s \in Scenarios :
         /\ db = s.db /\ requests = s.requests
         /\ calls = s.calls /\ SessionInit(s.bundle)
         /\ disk = [gateways |-> [f \in { s.db.gateway[g].file : g \in DOMAIN s.db.gateway } |-> f[1]],
                    ports |-> PortsOf(s.db)]
         /\ pbx = [vars |-> PortsOf(s.db), internal |-> PortsOf(s.db).internal,
                   gateways |-> { s.db.gateway[g].name : g \in DOMAIN s.db.gateway },
                   failed |-> FALSE, late |-> {}]
    /\ work = [w \in Workers |-> Idle]
    /\ clean = TRUE /\ lost = FALSE

Serve(w) == \E r \in requests :
    \/ (AgentRequest(w, r) \/ UserRequest(w, r) \/ TenantRequest(w, r)
        \/ RoutingRequest(w, r) \/ NetworkRequest(w, r)) /\ UNCHANGED sessionVars
    \/ SessionRequest(w, r)

Continue(w) ==
    /\ Statement(w) \/ SyncTenantMemberships(w) \/ NetworkStep(w)
    /\ UNCHANGED sessionVars

Next ==
    \/ \E w \in Workers : Serve(w) \/ Continue(w)
    \/ SessionStep
    \/ (Crash \/ LateCommand) /\ UNCHANGED sessionVars

Spec == Init /\ [][Next]_vars

-----------------------------------------------------------------------------
TypeOK ==
    /\ DOMAIN db = TableNames
    /\ \A w \in Workers : work[w] = Idle \/ Busy(w)
    /\ DOMAIN pbx.vars = {"internal", "rtpStart", "rtpEnd"}
    /\ {jar.token, jar.refresh, stored} \subseteq 0..bundles
    /\ calls \in 0..MaxCalls

(* The agents a reference of an agent or of a group names are of its tenant, *)
(* whatever the handlers in progress did to each other and wherever one of   *)
(* them stopped.                                                             *)
SameTenant == OneTenant(db)

(* No agent is above itself, unless handlers raced: the check of the parent  *)
(* reads the agents below, and two checks in a row of reads do not see each  *)
(* other's agent.                                                            *)
Hierarchy ==
    clean => \A a \in DOMAIN db.agent : db.agent[a].parent # Nil =>
        db.agent[a].parent \notin Below(a, DOMAIN db.tenant)

(* An account is the account of one agent at most, in all the tenants, and   *)
(* an agent's extension is one of its tenant, unless handlers raced.         *)
AgentsEquipped == clean => Equipped(db)

(* Agents, together.                                                        *)
AgentsSound == SameTenant /\ Hierarchy /\ AgentsEquipped

(* An extension that is made keeps its tenant within its limit.              *)
QuotaKept == [][
    clean' => \A x \in DOMAIN db'.extension \ DOMAIN db.extension :
        db'.tenant[x[1]].limit # Nil => Cardinality(ExtensionsOf(x[1])') <= db'.tenant[x[1]].limit ]_db

(* The worker whose statement the step is.                                   *)
Acts(w) == work'[w].todo # work[w].todo

Scoped(w) == LET r == work[w].req IN
    r.by \in DOMAIN db.user /\ work[w].scope # NoScope /\ ~work[w].scope.super

(* The rows of the tenants that a request writes, of an account that is no   *)
(* super admin's, were and are of the tenants of that account; but for the   *)
(* link of an agent to its account, which a super admin may have made across *)
(* tenants and which goes with the account.  The requests of custom rules,   *)
(* gateways and ports ask for no account: they are nobody's here, the tenant *)
(* of a rule is checked by none of them, and this says nothing of them.      *)
Writes(t, i) ==
    \/ (i \in DOMAIN db[t]) # (i \in DOMAIN db'[t])
    \/ i \in DOMAIN db[t] /\ Without(db[t][i], {"portalUser"}) # Without(db'[t][i], {"portalUser"})

OwnTenants == [][
    \A w \in Workers : Scoped(w) /\ Acts(w) /\ clean' =>
        \A t \in TableNames \ {"tenant", "user", "role", "gateway", "setting"} :
        \A i \in DOMAIN db[t] \cup DOMAIN db'[t] : Writes(t, i) =>
            /\ i \in DOMAIN db[t] => db[t][i].tenant \in work[w].scope.tenants
            /\ i \in DOMAIN db'[t] => db'[t][i].tenant \in work[w].scope.tenants ]_db

(* A request that made or changed an account and came to its end left the    *)
(* account with a tenant, when its sender is not a super admin.              *)
AccountsKeepTenants == [][
    \A w \in Workers :
        /\ Scoped(w) /\ ~work[w].stale /\ ~lost'
        /\ work[w].req.op \in {"createUser", "updateUser"} /\ work[w] # Idle /\ work'[w] = Idle
        => Memberships(db', work[w].req.id) # {} ]_vars

(* The role of super admin is given by super admins, or by the start of the  *)
(* backend.                                                                  *)
SuperByQualified == [][
    clean' => \A u \in DOMAIN db'.user :
        /\ db'.user[u].role = "super_admin"
        /\ u \notin DOMAIN db.user \/ db.user[u].role # "super_admin"
        => \E w \in Workers : Acts(w) /\ (work[w].scope.super \/ work[w].req.op = "boot") ]_db

(* Accounts, together.                                                      *)
AccountsSound == AccountsKeepTenants /\ SuperByQualified

(* Lists put their conditions into queries, the handlers of one row test the *)
(* row: between requests a manager is listed the agents, the accounts and    *)
(* the extensions that it can open, and of the groups all that it can; talk  *)
(* time, the counts and the live pages are of these.  (A lead is listed no   *)
(* accounts before it has an agent of its own, and the live pages follow the *)
(* agent of a lead to another tenant.)                                       *)
Opens(r, table) == { i \in DOMAIN db[table] : TenantAccess(r, db[table][i].tenant) }

Listed(u) ==
    LET r == [NoRequest EXCEPT !.by = u]
        mine == Scope(u).agent
        agents == ListAgents(r)
    IN
    /\ agents = { a \in DOMAIN db.agent : AgentAccess(r, a) }
    /\ GetTalktimeStats(r) = agents
    /\ { g \in DOMAIN db.group : GroupAccess(r, g) } \subseteq ListGroups(r)
    /\ ListExtensions(r) = Opens(r, "extension")
    /\ GetTenantMetrics(r).extensions = Cardinality(ListExtensions(r))
    /\ (Scope(u).lead => mine # Nil) => ListUsers(r) = { v \in DOMAIN db.user : UserAccess(r, v) }
    /\ Scope(u).lead /\ mine # Nil /\ db.agent[mine].tenant \in Scope(u).tenants =>
           ResolveRealtimeAccess(r) = { db.agent[a].extension : a \in agents } \ {Nil}

ListedRoutes(u) ==
    LET r == [NoRequest EXCEPT !.by = u] IN
    /\ ListRoutes(r) = Opens(r, "outbound") /\ ListCallerIds(r) = Opens(r, "callerid")
    /\ ListInbound(r) = Opens(r, "inbound") /\ ListMenus(r) = Opens(r, "menu")

ListsAgree ==
    Quiet => \A u \in DOMAIN db.user :
        /\ db.user[u].role \in Managers => Listed(u)
        /\ db.user[u].role \in Operators => ListedRoutes(u)

(* A number is of one inbound route of a tenant when it is given to it, and  *)
(* the destination a route is given is of the route's tenant.                *)
Numbered(i) == EnsureDidUnique(db.inbound[i].tenant, db.inbound[i].did, i)

Destined(i) ==
    ValidateDestination(db.inbound[i].tenant, db.inbound[i].type, db.inbound[i].value)

RouteChecked == [][
    clean' => \A i \in DOMAIN db'.inbound : LET was == db.inbound[i] now == db'.inbound[i] IN
        /\ i \notin DOMAIN db.inbound \/ was.did # now.did => Numbered(i)'
        /\ i \notin DOMAIN db.inbound \/ <<was.type, was.value>> # <<now.type, now.value>>
           => Destined(i)' ]_db

(* When nothing failed and nothing raced, a menu has options once the        *)
(* requests are over.                                                        *)
MenusHaveOptions ==
    Quiet /\ clean /\ ~lost => \A m \in DOMAIN db.menu : db.menu[m].options # {}

(* When nothing failed, nothing raced and the requests are over, the files   *)
(* are those of the gateways of the database, and FreeSWITCH has each of     *)
(* those of the profile that includes the files.  A gateway of another       *)
(* profile is not loaded by the rescan of its profile, which includes none.  *)
GatewaysInStep ==
    Quiet /\ clean /\ ~lost /\ ~pbx.failed =>
        /\ disk.gateways = [f \in { db.gateway[g].file : g \in DOMAIN db.gateway } |-> f[1]]
        /\ { db.gateway[g].name : g \in { h \in DOMAIN db.gateway : db.gateway[h].profile = "external" } }
              \subseteq pbx.gateways

(* A gateway whose file was removed, or whose row was saved without one,     *)
(* when an earlier request was cut off, has a file and is loaded after the   *)
(* next request that makes or updates it, if that one comes to its end, its  *)
(* rescan is obeyed and no other request has changed anything meanwhile.     *)
GatewaySaved == [][
    \A w \in Workers : LET r == work[w].req IN
        /\ r.op \in {"createGateway", "updateGateway"} /\ Step(w, "command") /\ ~work[w].stale
        /\ work'[w] = Idle /\ pbx' = Obeyed(pbx, Head(work[w].todo))
        => LET row == db'.gateway[r.id] IN
           /\ FileOf(r.id, row) \in DOMAIN disk'.gateways
           /\ disk'.gateways[FileOf(r.id, row)] = row.name
           /\ row.profile = "external" => row.name \in pbx'.gateways ]_vars

(* The same of the ports: the database, the file, the variables and the      *)
(* profile agree, and the range of the media ports is never empty.           *)
PortsInStep ==
    /\ Quiet /\ clean /\ ~lost /\ ~pbx.failed =>
         /\ disk.ports = PortsOf(db) /\ pbx.vars = PortsOf(db)
         /\ pbx.internal = PortsOf(db).internal
    /\ disk.ports.rtpStart < disk.ports.rtpEnd

(* What the console keeps outside the database follows it: whenever nothing *)
(* is wrong with the requests so far, and for a gateway from its next        *)
(* request on also when an earlier one was cut off.                          *)
FreeSwitchInStep == [](GatewaysInStep /\ PortsInStep /\ MenusHaveOptions) /\ GatewaySaved

(* A refresh token is redeemed once, unless an account was saved over what   *)
(* another handler had written.                                              *)
RedeemedOnce == clean /\ Visitor \in DOMAIN db.user => ~past.twice

(* After the answer to a logout, its token is not the account's any more.    *)
LogoutRevokes ==
    clean /\ ~lost => \A n \in past.revoked \ {0} :
        Visitor \in DOMAIN db.user => db.user[Visitor].hash # n

(* Tokens, together.                                                        *)
TokensSound == RedeemedOnce /\ LogoutRevokes

(* A browser loses its session by a logout, or because its account was       *)
(* switched off, deleted: not by the renewal of its tokens, as long as one   *)
(* tab at a time renews them and the backend answers.                        *)
NotThrownOut == [][
    /\ jar.refresh # 0 /\ jar'.refresh = 0
    /\ clean /\ ~lost /\ ~past'.raced /\ ~past'.unanswered
    => \/ \E t \in Tabs : tabs[t].op = "logout" /\ tabs'[t] = Free
       \/ Visitor \notin DOMAIN db.user \/ ~db.user[Visitor].active ]_jar
=============================================================================
