---------------------------- MODULE RoutingAdmin ----------------------------
(***************************************************************************)
(* What the dialplan is answered from: outbound routes and caller ids,      *)
(* inbound routes, menus and custom rules, of the tenants.                  *)
(***************************************************************************)
EXTENDS TenantsAdmin

(* A move to another tenant needs access to both.                            *)
(* Variant: any tenant will do.                                              *)
MoveAnywhere(r, now) == New(r, "tenant", now) \in DOMAIN db.tenant

TenantMove(r, now) ==
    LET t == New(r, "tenant", now) IN
    t # now => t \in DOMAIN db.tenant /\ TenantAccess(r, t)

GatewayExists(g) == g # Nil => g \in DOMAIN db.gateway

MayRoute(r, t) == Granted(r, Operators) /\ TenantAccess(r, t)

-----------------------------------------------------------------------------
(* Outbound routes and caller ids.  Both are read with their gateway.        *)

CreateOutbound(w, r, table) ==
    /\ MayRoute(r, r.dto.tenant) /\ r.dto.tenant \in DOMAIN db.tenant
    /\ GatewayExists(r.dto.gateway)
    /\ Begin(w, r, << Tx(<< Save(table, r.id, r.dto) >>) >>)

UpdateOutbound(w, r, table) ==
    /\ r.id \in DOMAIN db[table] /\ MayRoute(r, db[table][r.id].tenant)
    /\ LET row == db[table][r.id] IN
       /\ TenantMove(r, row.tenant)
       /\ Given(r, "gateway") => GatewayExists(r.dto.gateway)
       /\ Begin(w, r, << Tx(<< Save(table, r.id,
              [row EXCEPT !.tenant = New(r, "tenant", @),
                          !.gateway = RelationWins(@, New(r, "gateway", @))]) >>) >>)

DeleteOutbound(w, r, table) ==
    /\ r.id \in DOMAIN db[table] /\ MayRoute(r, db[table][r.id].tenant)
    /\ Begin(w, r, << Tx(<< Delete(table, {r.id}) >>) >>)

CreateRoute(w, r) == r.op = "createRoute" /\ CreateOutbound(w, r, "outbound")
UpdateRoute(w, r) == r.op = "updateRoute" /\ UpdateOutbound(w, r, "outbound")
DeleteRoute(w, r) == r.op = "deleteRoute" /\ DeleteOutbound(w, r, "outbound")

CreateCallerId(w, r) == r.op = "createCallerId" /\ CreateOutbound(w, r, "callerid")
UpdateCallerId(w, r) == r.op = "updateCallerId" /\ UpdateOutbound(w, r, "callerid")
DeleteCallerId(w, r) == r.op = "deleteCallerId" /\ DeleteOutbound(w, r, "callerid")

-----------------------------------------------------------------------------
(* Inbound routes.                                                          *)

EnsureDidUnique(t, did, self) ==
    \A i \in DOMAIN db.inbound : db.inbound[i].tenant = t /\ db.inbound[i].did = did => i = self

ValidateDestination(t, type, value) ==
    CASE type = "extension" -> <<t, value>> \in DOMAIN db.extension
      [] type = "ivr"       -> value \in DOMAIN db.menu /\ db.menu[value].tenant = t
      [] OTHER              -> TRUE

CreateInbound(w, r) ==
    /\ r.op = "createInbound"
    /\ MayRoute(r, r.dto.tenant) /\ r.dto.tenant \in DOMAIN db.tenant
    /\ EnsureDidUnique(r.dto.tenant, r.dto.did, Nil)
    /\ ValidateDestination(r.dto.tenant, r.dto.type, r.dto.value)
    /\ Begin(w, r, << Tx(<< Save("inbound", r.id, r.dto) >>) >>)

(* Variant: checked against the tenant that the route leaves.                *)
UpdateInboundThere(w, r) ==
    /\ r.op = "updateInbound"
    /\ r.id \in DOMAIN db.inbound /\ MayRoute(r, db.inbound[r.id].tenant)
    /\ LET now == db.inbound[r.id]
           next == [now EXCEPT !.tenant = New(r, "tenant", @), !.did = New(r, "did", @),
                               !.type = New(r, "type", @), !.value = New(r, "value", @)]
       IN /\ TenantMove(r, now.tenant)
          /\ ValidateDestination(now.tenant, next.type, next.value)
          /\ Begin(w, r, << Tx(<< Save("inbound", r.id, next) >>) >>)

(* A number is checked when it changes, a destination when it is given: a    *)
(* route that only moves to another tenant is not checked there.             *)
UpdateInbound(w, r) ==
    /\ r.op = "updateInbound"
    /\ r.id \in DOMAIN db.inbound /\ MayRoute(r, db.inbound[r.id].tenant)
    /\ LET now == db.inbound[r.id]
           next == [now EXCEPT !.tenant = New(r, "tenant", @), !.did = New(r, "did", @),
                               !.type = New(r, "type", @), !.value = New(r, "value", @)]
       IN /\ TenantMove(r, now.tenant)
          /\ next.did # now.did => EnsureDidUnique(next.tenant, next.did, r.id)
          /\ Given(r, "type") \/ Given(r, "value") =>
               ValidateDestination(next.tenant, next.type, next.value)
          /\ Begin(w, r, << Tx(<< Save("inbound", r.id, next) >>) >>)

DeleteInbound(w, r) ==
    /\ r.op = "deleteInbound"
    /\ r.id \in DOMAIN db.inbound /\ MayRoute(r, db.inbound[r.id].tenant)
    /\ Begin(w, r, << Tx(<< Delete("inbound", {r.id}) >>) >>)

-----------------------------------------------------------------------------
(* Menus.  prepareOptions refuses a menu without an option.                  *)

PrepareOptions(options) == options # {}

CreateMenu(w, r) ==
    /\ r.op = "createMenu"
    /\ MayRoute(r, r.dto.tenant) /\ r.dto.tenant \in DOMAIN db.tenant
    /\ PrepareOptions(r.dto.options)
    /\ Begin(w, r, << Tx(<< Save("menu", r.id, r.dto) >>) >>)

(* The options of the database are deleted first; the menu, which was read   *)
(* without them, is saved after with the new ones.  The name, which is       *)
(* unique in the tenant, is not checked: that save may be refused.           *)
UpdateMenu(w, r) ==
    /\ r.op = "updateMenu"
    /\ r.id \in DOMAIN db.menu /\ MayRoute(r, db.menu[r.id].tenant)
    /\ LET now == [tenant |-> New(r, "tenant", db.menu[r.id].tenant),
                   name |-> New(r, "name", db.menu[r.id].name)]
       IN /\ TenantMove(r, db.menu[r.id].tenant)
          /\ IF Given(r, "options")
             THEN /\ PrepareOptions(r.dto.options)
                  /\ Begin(w, r, << Tx(<< Update("menu", [id |-> r.id], [options |-> {}]) >>),
                                    Tx(<< Save("menu", r.id, Over([options |-> r.dto.options], now)) >>) >>)
             ELSE Begin(w, r, << Tx(<< Save("menu", r.id, now) >>) >>)

DeleteMenu(w, r) ==
    /\ r.op = "deleteMenu"
    /\ r.id \in DOMAIN db.menu /\ MayRoute(r, db.menu[r.id].tenant)
    /\ Begin(w, r, << Tx(<< Delete("menu", {r.id}) >>) >>)

-----------------------------------------------------------------------------
(* Custom rules.  The rule is read with its actions, which the save writes   *)
(* back before they are replaced; one transaction.                           *)

CreateRule(w, r) ==
    /\ r.op = "createRule" /\ r.dto.tenant \in DOMAIN db.tenant
    /\ Begin(w, r, << Tx(<< Save("rule", r.id, r.dto) >>) >>)

UpdateRule(w, r) ==
    /\ r.op = "updateRule" /\ r.id \in DOMAIN db.rule
    /\ New(r, "tenant", db.rule[r.id].tenant) \in DOMAIN db.tenant
    /\ Begin(w, r, << Tx(<< Save("rule", r.id, [db.rule[r.id] EXCEPT !.tenant = New(r, "tenant", @)]) >>
         \o (IF Given(r, "actions")
             THEN << Update("rule", [id |-> r.id], [actions |-> r.dto.actions]) >> ELSE <<>>)) >>)

DeleteRule(w, r) ==
    /\ r.op = "deleteRule" /\ r.id \in DOMAIN db.rule
    /\ Begin(w, r, << Tx(<< Delete("rule", {r.id}) >>) >>)

RoutingRequest(w, r) ==
    \/ CreateRoute(w, r) \/ UpdateRoute(w, r) \/ DeleteRoute(w, r)
    \/ CreateCallerId(w, r) \/ UpdateCallerId(w, r) \/ DeleteCallerId(w, r)
    \/ CreateInbound(w, r) \/ UpdateInbound(w, r) \/ DeleteInbound(w, r)
    \/ CreateMenu(w, r) \/ UpdateMenu(w, r) \/ DeleteMenu(w, r)
    \/ CreateRule(w, r) \/ UpdateRule(w, r) \/ DeleteRule(w, r)
=============================================================================
