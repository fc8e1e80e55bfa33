------------------------------ MODULE UsersAdmin ------------------------------
(***************************************************************************)
(* The accounts of the portal, their tenants and their roles.               *)
(***************************************************************************)
EXTENDS AgentsAdmin

Sequence == INSTANCE SequencesExt

SystemRoles == {"super_admin", "tenant_admin", "viewer", "operator", "agent_lead", "agent"}

MembersOf(u) == { db.member[m].tenant : m \in Memberships(db, u) }

(* ensureUserInScope: all the tenants of the account are the caller's; a     *)
(* lead also needs one of its agents, or an account that waits for one.      *)
UserAccess(r, u) ==
    \/ Scope(r.by).super
    \/ /\ MembersOf(u) # {} /\ MembersOf(u) \subseteq Scope(r.by).tenants
       /\ Scope(r.by).lead /\ Scope(r.by).agent # Nil =>
            IF AgentsOf(db, u) = {} THEN db.user[u].role = "agent"
            ELSE AgentsOf(db, u) \cap Accessible(r) # {}

AssignableRoles(r) ==
    IF Scope(r.by).super THEN DOMAIN db.role
    ELSE IF Scope(r.by).lead THEN {"agent"}
    ELSE SystemRoles \ {"super_admin"}

RoleAllowed(r, role) == role \in DOMAIN db.role /\ role \in AssignableRoles(r)

(* The account as it is read, with its agents and its memberships.           *)
Account(u) ==
    Over([agents |-> AgentsOf(db, u), members |-> Memberships(db, u)], db.user[u])

Sync == [kind |-> "sync"]

(* The account is saved before its tenants are checked.                      *)
CreateUser(w, r) ==
    /\ r.op = "createUser" /\ Granted(r, Managers)
    /\ \A u \in DOMAIN db.user : db.user[u].email # r.dto.email
    /\ RoleAllowed(r, r.dto.role)
    /\ Begin(w, r, << Tx(<< Save("user", r.id,
           [email |-> r.dto.email, role |-> r.dto.role, active |-> r.dto.active,
            password |-> "new", hash |-> Nil]) >>), Sync >>)

UpdateUser(w, r) ==
    /\ r.op = "updateUser" /\ Granted(r, Managers)
    /\ r.id \in DOMAIN db.user /\ UserAccess(r, r.id)
    /\ Given(r, "email") => \A u \in DOMAIN db.user \ {r.id} : db.user[u].email # r.dto.email
    /\ Given(r, "role") => RoleAllowed(r, r.dto.role)
    /\ Begin(w, r, << Tx(<< SaveAccount(r.id,
           [Account(r.id) EXCEPT !.email = New(r, "email", @), !.role = New(r, "role", @),
                                 !.active = New(r, "active", @)]) >>), Sync >>)

(* syncTenantMemberships: the tenants asked for, if the request says, are    *)
(* checked against the caller's, as they were when the request  *)
(* came in.  A caller that is not a super admin cannot leave an account       *)
(* without a tenant: the request fails here, with the account saved.         *)
AskedTenants(r, scope) ==
    LET given == IF Given(r, "tenants") THEN r.dto.tenants ELSE {} IN
    IF scope.lead /\ r.op = "createUser" /\ given = {} THEN scope.tenants ELSE given

Asks(r, scope) == Given(r, "tenants") \/ (scope.lead /\ r.op = "createUser")

(* Variant: an account may be left without a tenant.                         *)
TenantsMayBeNone(r, scope) ==
    Asks(r, scope) => /\ scope.super \/ AskedTenants(r, scope) \subseteq scope.tenants
                      /\ AskedTenants(r, scope) \subseteq DOMAIN db.tenant

TenantsAllowed(r, scope) ==
    LET asked == AskedTenants(r, scope)
        role == New(r, "role", IF r.id \in DOMAIN db.user THEN db.user[r.id].role ELSE Nil)
    IN
    IF ~Asks(r, scope) THEN scope.super \/ MembersOf(r.id) # {}
    ELSE IF asked = {} THEN scope.super /\ role # "tenant_admin"
    ELSE /\ scope.super \/ asked \subseteq scope.tenants
         /\ asked \subseteq DOMAIN db.tenant

MemberRows(u, tenants) ==
    LET ids == { <<u, t>> : t \in tenants } IN
    [m \in ids |-> [user |-> u, tenant |-> m[2]]]

SyncTenantMemberships(w) ==
    LET r == work[w].req
        scope == work[w].scope
        asked == AskedTenants(r, scope)
        now == MembersOf(r.id)
    IN
    /\ Busy(w) /\ Head(work[w].todo).kind = "sync"
    /\ IF ~TenantsAllowed(r, scope) THEN Abandon(w)
       ELSE /\ work' = [work EXCEPT ![w].stale = FALSE, ![w].todo =
                 IF ~Asks(r, scope) THEN << Tx(<<>>) >>
                 ELSE (IF now \subseteq asked THEN <<>>
                       ELSE << Tx(<< Delete("member", { <<r.id, t>> : t \in now \ asked }) >>) >>)
                      \o << Tx(IF asked \subseteq now THEN <<>>
                               ELSE << Insert("member", MemberRows(r.id, asked \ now)) >>) >>]
            /\ UNCHANGED <<db, disk, pbx, requests, clean, lost>>

ResetPassword(w, r) ==
    /\ r.op = "resetPassword" /\ Granted(r, Managers)
    /\ r.id \in DOMAIN db.user /\ UserAccess(r, r.id)
    /\ Begin(w, r, << Tx(<< SaveAccount(r.id, [Account(r.id) EXCEPT !.password = "new"]) >>) >>)

DeleteUser(w, r) ==
    /\ r.op = "deleteUser" /\ Granted(r, Managers)
    /\ Scope(r.by).super \/ (r.id \in DOMAIN db.user /\ UserAccess(r, r.id))
    /\ Begin(w, r, << Tx(<< Delete("user", {r.id}) >>) >>)

-----------------------------------------------------------------------------
(* Roles.                                                                   *)

CreateRole(w, r) ==
    /\ r.op = "createRole" /\ Granted(r, {"super_admin"})
    /\ r.id \notin DOMAIN db.role
    /\ Begin(w, r, << Tx(<< Save("role", r.id, [system |-> r.id \in SystemRoles, perms |-> r.dto.perms]) >>) >>)

UpdateRole(w, r) ==
    /\ r.op = "updateRole" /\ Granted(r, {"super_admin"})
    /\ r.id \in DOMAIN db.role /\ ~db.role[r.id].system
    /\ Begin(w, r, << Tx(<< Save("role", r.id, [db.role[r.id] EXCEPT !.perms = New(r, "perms", @)]) >>) >>)

DeleteRole(w, r) ==
    /\ r.op = "deleteRole" /\ Granted(r, {"super_admin"})
    /\ r.id \in DOMAIN db.role /\ ~db.role[r.id].system
    /\ \A u \in DOMAIN db.user : db.user[u].role # r.id
    /\ Begin(w, r, << Tx(<< Delete("role", {r.id}) >>) >>)

(* Start of the backend.  The accounts of the role "admin" are moved to      *)
(* super_admin after their role was renamed or removed, which the reference  *)
(* from the accounts refuses: a start with such accounts fails.              *)
RenameAdmin ==
    IF "super_admin" \notin DOMAIN db.role
    THEN << Delete("role", {"admin"}), Save("role", "super_admin", [system |-> TRUE, perms |-> "default"]) >>
    ELSE << Delete("role", {"admin"}) >>

MigrateLegacyAdminRole ==
    IF "admin" \notin DOMAIN db.role THEN <<>>
    ELSE << Tx(RenameAdmin \o << Update("user", [role |-> "admin"], [role |-> "super_admin"]) >>) >>

MissingRoles == SystemRoles \ (DOMAIN db.role
                 \cup (IF "admin" \in DOMAIN db.role THEN {"super_admin"} ELSE {}))

DefaultRole(k) == Tx(<< Save("role", k, [system |-> TRUE, perms |-> "default"]) >>)

SyncRole(k) == Tx(<< Update("role", [id |-> k], [perms |-> "default"]) >>)

Each(S, F(_)) == LET s == Sequence!SetToSeq(S) IN [i \in DOMAIN s |-> F(s[i])]

EnsureDefaultRoles(w, r) ==
    /\ r.op = "boot"
    /\ Begin(w, r, MigrateLegacyAdminRole \o Each(MissingRoles, DefaultRole)
                   \o Each(SystemRoles, SyncRole))

UserRequest(w, r) ==
    \/ CreateUser(w, r) \/ UpdateUser(w, r) \/ ResetPassword(w, r) \/ DeleteUser(w, r)
    \/ CreateRole(w, r) \/ UpdateRole(w, r) \/ DeleteRole(w, r) \/ EnsureDefaultRoles(w, r)
=============================================================================
