----------------------------- MODULE AgentsAdmin -----------------------------
(***************************************************************************)
(* The agents of the tenants, their groups and their hierarchy.             *)
(***************************************************************************)
EXTENDS Console

(* An agent, its parent and so on upwards, as long as they are of tenants T. *)
Chain(b, T) ==
    LET up[n \in 0..Cardinality(DOMAIN db.agent)] ==
          IF n = 0 THEN b
          ELSE LET c == up[n-1] IN
               IF c = Nil \/ db.agent[c].tenant \notin T THEN Nil ELSE db.agent[c].parent
    IN { up[n] : n \in DOMAIN up } \ {Nil}

(* The agents of tenants T below an agent, and itself.                       *)
Below(a, T) == { b \in DOMAIN db.agent : a \in Chain(b, T) }

(* What an agent lead sees: the agents below its own, and those of the       *)
(* groups that these own.                                                    *)
Accessible(r) ==
    IF Scope(r.by).agent = Nil THEN {}
    ELSE LET T == IF Scope(r.by).tenants = {} THEN DOMAIN db.tenant ELSE Scope(r.by).tenants
             under == Below(Scope(r.by).agent, T)
             groups == { g \in DOMAIN db.group : db.group[g].owner \in under /\ db.group[g].tenant \in T }
         IN under \cup { a \in DOMAIN db.agent : db.agent[a].tenant \in T /\ db.agent[a].group \in groups }

AgentAccess(r, a) ==
    /\ TenantAccess(r, db.agent[a].tenant)
    /\ Scope(r.by).lead => a \in Accessible(r)

GroupAccess(r, g) ==
    /\ TenantAccess(r, db.group[g].tenant)
    /\ Scope(r.by).lead => db.group[g].owner \in Accessible(r)

(* The checks of the columns of an agent; "self" is the agent itself, or Nil *)
(* for one that is being made.                                               *)
ExtensionFree(t, x, self) ==
    x # Nil => /\ <<t, x>> \in DOMAIN db.extension
               /\ \A a \in DOMAIN db.agent : db.agent[a].tenant = t /\ db.agent[a].extension = x => a = self

(* Variant: any group will do.                                               *)
GroupOfAnyone(t, g) == g # Nil => g \in DOMAIN db.group

GroupOfTenant(t, g) == g # Nil => g \in DOMAIN db.group /\ db.group[g].tenant = t

AccountFits(r, t, u, self) ==
    u # Nil => /\ u \in DOMAIN db.user /\ db.user[u].active
               /\ Scope(r.by).super \/ <<u, t>> \in DOMAIN db.member
               /\ AgentsOf(db, u) = {} \/ self \in AgentsOf(db, u)
               /\ db.user[u].role \in {"agent", "agent_lead"}

ParentFits(r, t, p) ==
    p # Nil => p \in DOMAIN db.agent /\ AgentAccess(r, p) /\ db.agent[p].tenant = t

(* A lead's new agent is placed below the lead.                              *)
CreateAgent(w, r) ==
    LET parent == IF Scope(r.by).lead THEN Scope(r.by).agent ELSE r.dto.parent IN
    /\ r.op = "createAgent" /\ Granted(r, Managers)
    /\ TenantAccess(r, r.dto.tenant) /\ r.dto.tenant \in DOMAIN db.tenant
    /\ ExtensionFree(r.dto.tenant, r.dto.extension, Nil)
    /\ GroupOfTenant(r.dto.tenant, r.dto.group)
    /\ AccountFits(r, r.dto.tenant, r.dto.portalUser, Nil)
    /\ Scope(r.by).lead => parent # Nil
    /\ ParentFits(r, r.dto.tenant, parent)
    /\ Begin(w, r, << Tx(<< Save("agent", r.id, [r.dto EXCEPT !.parent = parent]) >>) >>)

(* The parent an update asks for: a lead puts every agent but itself below   *)
(* itself.                                                                   *)
AskedParent(r) ==
    IF Scope(r.by).lead /\ r.id # Scope(r.by).agent THEN Scope(r.by).agent
    ELSE New(r, "parent", db.agent[r.id].parent)

ParentAllowed(r) ==
    LET a == db.agent[r.id]
        scope == Scope(r.by)
        asked == Given(r, "parent") \/ (scope.lead /\ r.id # scope.agent)
    IN asked =>
       /\ scope.lead => scope.agent # Nil
       /\ scope.lead /\ r.id = scope.agent /\ Given(r, "parent") => r.dto.parent \in {Nil, scope.agent}
       /\ AskedParent(r) # Nil =>
            /\ AskedParent(r) # r.id
            /\ ParentFits(r, a.tenant, AskedParent(r))
            /\ AskedParent(r) \notin Below(r.id, {a.tenant}) \ {r.id}

(* The agent is read with the object of its parent, and only the column is   *)
(* assigned: the parent of an agent that has one stays.                      *)
UpdateAgent(w, r) ==
    /\ r.op = "updateAgent" /\ Granted(r, Managers)
    /\ r.id \in DOMAIN db.agent /\ AgentAccess(r, r.id)
    /\ LET a == db.agent[r.id] IN
       /\ Given(r, "extension") => ExtensionFree(a.tenant, r.dto.extension, r.id)
       /\ Given(r, "group") => GroupOfTenant(a.tenant, r.dto.group)
       /\ Given(r, "portalUser") => AccountFits(r, a.tenant, r.dto.portalUser, r.id)
       /\ ParentAllowed(r)
       /\ Begin(w, r, << Tx(<< Save("agent", r.id,
              [a EXCEPT !.extension = New(r, "extension", @), !.group = New(r, "group", @),
                        !.portalUser = New(r, "portalUser", @),
                        !.parent = RelationWins(@, AskedParent(r))]) >>) >>)

DeleteAgent(w, r) ==
    /\ r.op = "deleteAgent" /\ Granted(r, Managers)
    /\ r.id \in DOMAIN db.agent /\ AgentAccess(r, r.id)
    /\ \A a \in DOMAIN db.agent : db.agent[a].parent # r.id
    /\ Begin(w, r, << Tx(<< Delete("agent", {r.id}) >>) >>)

NameFree(t, name, self) ==
    \A g \in DOMAIN db.group : db.group[g].tenant = t /\ db.group[g].name = name => g = self

OwnerFits(r, t, a) ==
    a # Nil => a \in DOMAIN db.agent /\ AgentAccess(r, a) /\ db.agent[a].tenant = t

CreateGroup(w, r) ==
    LET owner == IF Scope(r.by).lead THEN Scope(r.by).agent ELSE r.dto.owner IN
    /\ r.op = "createGroup" /\ Granted(r, Managers)
    /\ TenantAccess(r, r.dto.tenant) /\ r.dto.tenant \in DOMAIN db.tenant
    /\ NameFree(r.dto.tenant, r.dto.name, Nil)
    /\ Scope(r.by).lead => owner # Nil
    /\ OwnerFits(r, r.dto.tenant, owner)
    /\ Begin(w, r, << Tx(<< Save("group", r.id, [r.dto EXCEPT !.owner = owner]) >>) >>)

(* A lead keeps a group that another agent owns with that agent, and cannot  *)
(* leave one without an owner.                                               *)
UpdateGroup(w, r) ==
    /\ r.op = "updateGroup" /\ Granted(r, Managers)
    /\ r.id \in DOMAIN db.group /\ GroupAccess(r, r.id)
    /\ LET g == db.group[r.id]
           me == Scope(r.by).agent
           owner == IF ~Given(r, "owner") THEN g.owner
                    ELSE IF Scope(r.by).lead /\ r.dto.owner = Nil THEN me ELSE r.dto.owner
       IN /\ Given(r, "name") => NameFree(g.tenant, r.dto.name, r.id)
          /\ Given(r, "owner") =>
               /\ Scope(r.by).lead => g.owner \in {Nil, me} \/ r.dto.owner = me
               /\ OwnerFits(r, g.tenant, owner)
          /\ Begin(w, r, << Tx(<< Save("group", r.id,
                 [g EXCEPT !.name = New(r, "name", @), !.owner = owner]) >>) >>)

DeleteGroup(w, r) ==
    /\ r.op = "deleteGroup" /\ Granted(r, Managers)
    /\ r.id \in DOMAIN db.group /\ GroupAccess(r, r.id)
    /\ Begin(w, r, << Tx(<< Delete("group", {r.id}) >>) >>)

AgentRequest(w, r) ==
    \/ CreateAgent(w, r) \/ UpdateAgent(w, r) \/ DeleteAgent(w, r)
    \/ CreateGroup(w, r) \/ UpdateGroup(w, r) \/ DeleteGroup(w, r)
=============================================================================
