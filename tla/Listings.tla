------------------------------ MODULE Listings ------------------------------
(***************************************************************************)
(* What the console lists for a caller: the conditions that the lists put    *)
(* into their queries.  The handlers that read one row, or change it, test   *)
(* the row instead: two ways to say who may see what.                        *)
(***************************************************************************)
EXTENDS NetworkAdmin

(* The rows of the tenants of the caller.  What is searched for, the page    *)
(* and the one tenant that may be asked for only narrow a list.              *)
ApplyTenantScope(r, table) ==
    { i \in DOMAIN db[table] :
        Scope(r.by).super \/ db[table][i].tenant \in Scope(r.by).tenants }

(* applyAgentHierarchyScope: nothing for a lead without an agent.            *)
ListAgents(r) ==
    { a \in ApplyTenantScope(r, "agent") : Scope(r.by).lead => a \in Accessible(r) }

(* applyGroupOwnershipScope: a group without an owner is everybody's.        *)
ListGroups(r) ==
    { g \in ApplyTenantScope(r, "group") :
        Scope(r.by).lead => Accessible(r) # {} /\ db.group[g].owner \in Accessible(r) \cup {Nil} }

(* The agents that talk time is shown of.                                    *)
GetTalktimeStats(r) ==
    IF ~Scope(r.by).super /\ Scope(r.by).tenants = {} THEN {}
    ELSE { a \in ApplyTenantScope(r, "agent") : Scope(r.by).lead => a \in Accessible(r) }

(* The accounts all of whose tenants are the caller's, and one is; a lead's  *)
(* have one of its agents, or wait for one.                                  *)
(* Variant: one tenant in common is enough.                                  *)
FilterByAnyTenant(r) ==
    { u \in DOMAIN db.user :
        /\ Scope(r.by).super \/ MembersOf(u) \cap Scope(r.by).tenants # {}
        /\ Scope(r.by).lead => \/ AgentsOf(db, u) \cap Accessible(r) # {}
                               \/ AgentsOf(db, u) = {} /\ db.user[u].role = "agent" }

ApplyScopeFilter(r) ==
    LET scope == Scope(r.by) IN
    CASE scope.super -> DOMAIN db.user
      [] ~scope.super /\ (scope.tenants = {} \/ (scope.lead /\ scope.agent = Nil)) -> {}
      [] OTHER -> { u \in DOMAIN db.user :
                      /\ MembersOf(u) \cap scope.tenants # {}
                      /\ MembersOf(u) \subseteq scope.tenants
                      /\ scope.lead => \/ AgentsOf(db, u) \cap Accessible(r) # {}
                                       \/ AgentsOf(db, u) = {} /\ db.user[u].role = "agent" }

ListUsers(r) == ApplyScopeFilter(r)

ListTenants(r) == IF Scope(r.by).super THEN DOMAIN db.tenant ELSE DOMAIN db.tenant \cap Scope(r.by).tenants

(* The dashboard's counts.                                                   *)
GetTenantMetrics(r) ==
    [tenants |-> Cardinality(ListTenants(r)),
     routed |-> Cardinality(DOMAIN db.routing \cap ListTenants(r)),
     extensions |-> Cardinality({ x \in DOMAIN db.extension : x[1] \in ListTenants(r) })]

ListExtensions(r) == ApplyTenantScope(r, "extension")

ListRoutes(r) == ApplyTenantScope(r, "outbound")

ListCallerIds(r) == ApplyTenantScope(r, "callerid")

ListInbound(r) == ApplyTenantScope(r, "inbound")

ListMenus(r) == ApplyTenantScope(r, "menu")

(* What the live pages show of registrations and calls: the numbers of the   *)
(* extensions, without their tenants.                                        *)
ResolveRealtimeAccess(r) ==
    LET numbers(agents) == { db.agent[a].extension : a \in agents } \ {Nil}
        scope == Scope(r.by) IN
    CASE scope.super                           -> { x[2] : x \in DOMAIN db.extension }
      [] scope.lead                            -> numbers(Accessible(r))
      [] db.user[r.by].role = "agent"          -> numbers({scope.agent} \ {Nil})
      [] OTHER -> { x[2] : x \in { y \in DOMAIN db.extension : y[1] \in scope.tenants } }

=============================================================================
