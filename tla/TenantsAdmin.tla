----------------------------- MODULE TenantsAdmin -----------------------------
(***************************************************************************)
(* Tenants, with their routing settings, and their extensions; the external *)
(* API makes extensions too.                                                *)
(***************************************************************************)
EXTENDS UsersAdmin

ExtensionsOf(t) == { x \in DOMAIN db.extension : x[1] = t }

DomainFree(domain, self) ==
    \A t \in DOMAIN db.tenant : db.tenant[t].domain = domain => t = self

(* upsertRouting, when the request has a setting of it                       *)
UpsertRouting(r) ==
    IF Given(r, "routing")
    THEN << Tx(<< Save("routing", r.id, [tenant |-> r.id, value |-> r.dto.routing]) >>) >>
    ELSE <<>>

(* The tenant first, its routing after.                                      *)
CreateTenant(w, r) ==
    /\ r.op = "createTenant" /\ Granted(r, {"super_admin"})
    /\ DomainFree(r.dto.domain, Nil) /\ r.id \notin DOMAIN db.tenant
    /\ Begin(w, r, << Tx(<< Save("tenant", r.id, [domain |-> r.dto.domain, limit |-> New(r, "limit", Nil)]) >>) >>
                   \o UpsertRouting(r))

UpdateTenant(w, r) ==
    /\ r.op = "updateTenant" /\ Granted(r, Managers)
    /\ r.id \in DOMAIN db.tenant /\ TenantAccess(r, r.id)
    /\ Given(r, "domain") => DomainFree(r.dto.domain, r.id)
    /\ Begin(w, r, << Tx(<< Save("tenant", r.id,
           [db.tenant[r.id] EXCEPT !.domain = New(r, "domain", @), !.limit = New(r, "limit", @)]) >>) >>
                   \o UpsertRouting(r))

(* Refused while the tenant has extensions; all else it has goes with it.    *)
DeleteTenant(w, r) ==
    /\ r.op = "deleteTenant" /\ Granted(r, {"super_admin"})
    /\ r.id \in DOMAIN db.tenant /\ ExtensionsOf(r.id) = {}
    /\ Begin(w, r, << Tx(<< Delete("tenant", {r.id}) >>) >>)

-----------------------------------------------------------------------------
(* Extensions.  r.id is <<tenant, number>>.                                  *)

(* Variant: one more than the limit.                                         *)
UpToLimit(t) ==
    db.tenant[t].limit # Nil => Cardinality(ExtensionsOf(t)) <= db.tenant[t].limit

BelowLimit(t) ==
    db.tenant[t].limit # Nil => Cardinality(ExtensionsOf(t)) < db.tenant[t].limit

ExtensionRow(x, password) == [tenant |-> x[1], ext |-> x[2], password |-> password]

NewExtension(w, r) ==
    /\ r.id[1] \in DOMAIN db.tenant /\ r.id \notin DOMAIN db.extension
    /\ BelowLimit(r.id[1])
    /\ Begin(w, r, << Tx(<< Save("extension", r.id, ExtensionRow(r.id, r.dto.password)) >>) >>)

(* The permission manage_extensions: of the roles of Managers an agent lead   *)
(* has it not (what an account is given besides its role is left out).       *)
MayManageExtensions(r) == Granted(r, Managers) /\ ~Scope(r.by).lead

CreateExtension(w, r) ==
    /\ r.op = "createExtension" /\ MayManageExtensions(r) /\ TenantAccess(r, r.id[1])
    /\ NewExtension(w, r)

ExternalCreateExtension(w, r) ==
    /\ r.op = "externalCreateExtension"
    /\ NewExtension(w, r)

(* assertExtensionAccess                                                     *)
ExtensionAccess(r) == r.id \in DOMAIN db.extension /\ TenantAccess(r, r.id[1])

ChangeExtension(w, r) ==
    Begin(w, r, << Tx(<< Save("extension", r.id,
        [db.extension[r.id] EXCEPT !.password = New(r, "password", @)]) >>) >>)

UpdateExtension(w, r) ==
    /\ r.op = "updateExtension" /\ MayManageExtensions(r) /\ ExtensionAccess(r)
    /\ ChangeExtension(w, r)

ExternalUpdateExtension(w, r) ==
    /\ r.op = "externalUpdateExtension" /\ r.id \in DOMAIN db.extension
    /\ ChangeExtension(w, r)

(* The agent loses its extension before the extension is deleted, which the  *)
(* reference from an agent refuses: two statements.                          *)
RemoveExtension(w, r) ==
    Begin(w, r, << Tx(<< Update("agent", [tenant |-> r.id[1], extension |-> r.id[2]], [extension |-> Nil]) >>),
                   Tx(<< Delete("extension", {r.id}) >>) >>)

DeleteExtension(w, r) ==
    /\ r.op = "deleteExtension" /\ MayManageExtensions(r) /\ ExtensionAccess(r)
    /\ RemoveExtension(w, r)

ExternalDeleteExtension(w, r) ==
    /\ r.op = "externalDeleteExtension" /\ r.id \in DOMAIN db.extension
    /\ RemoveExtension(w, r)

TenantRequest(w, r) ==
    \/ CreateTenant(w, r) \/ UpdateTenant(w, r) \/ DeleteTenant(w, r)
    \/ CreateExtension(w, r) \/ UpdateExtension(w, r) \/ DeleteExtension(w, r)
    \/ ExternalCreateExtension(w, r) \/ ExternalUpdateExtension(w, r) \/ ExternalDeleteExtension(w, r)
=============================================================================
