------------------------------ MODULE MCConsole ------------------------------
(***************************************************************************)
(* The scenarios of the console: small databases, and for each the requests *)
(* of which every two are served together, by two workers.                  *)
(***************************************************************************)
EXTENDS Portal

CONSTANTS T1, T2, T3, root, adm, lead, user, other, A1, A2, A3, B1, G1, G2,
          gw1, i1, m1, m2, o1, c1, r1

Req(op, by, id, dto) == [op |-> op, by |-> by, id |-> id, dto |-> dto]

(* A request that makes a row, with the key that the row will have.          *)
Made(op, by, dto) == Req(op, by, CASE by = adm -> "a" [] by = lead -> "b" [] OTHER -> "c", dto)

Makes == {"createAgent", "createGroup", "createUser", "createRoute", "createCallerId",
          "createInbound", "createMenu", "createRule", "createGateway"}

None == <<>>        \* a request without a body

Ports == [internal |-> 5060, rtpStart |-> 10, rtpEnd |-> 20]

Role(system) == [system |-> system, perms |-> "default"]

Account0(email, role) ==
    [email |-> email, role |-> role, active |-> TRUE, password |-> "first", hash |-> Nil]

Agent(t, x, g, u, p) == [tenant |-> t, extension |-> x, group |-> g, portalUser |-> u, parent |-> p]

(* Two tenants: T1 has an administrator, a lead with agent A1 above A2, an   *)
(* agent A3 apart and room for one more extension; T2 has an agent whose     *)
(* extension has the number of one of T1's.                                  *)
Office ==
    [t \in TableNames |->
       CASE t = "tenant" -> (T1 :> [domain |-> "one", limit |-> 3]) @@ (T2 :> [domain |-> "two", limit |-> Nil])
         [] t = "role" -> [k \in SystemRoles |-> Role(TRUE)]
         [] t = "user" -> (root :> Account0("root", "super_admin")) @@ (adm :> Account0("adm", "tenant_admin"))
                          @@ (lead :> Account0("lead", "agent_lead")) @@ (user :> Account0("user", "agent"))
         [] t = "member" -> MemberRows(adm, {T1}) @@ MemberRows(lead, {T1}) @@ MemberRows(user, {T1})
         [] t = "extension" -> (<<T1, "100">> :> ExtensionRow(<<T1, "100">>, "p"))
                               @@ (<<T1, "101">> :> ExtensionRow(<<T1, "101">>, "p"))
                               @@ (<<T2, "100">> :> ExtensionRow(<<T2, "100">>, "p"))
         [] t = "group" -> (G1 :> [tenant |-> T1, name |-> "a", owner |-> A1])
                           @@ (G2 :> [tenant |-> T2, name |-> "a", owner |-> Nil])
         [] t = "agent" -> (A1 :> Agent(T1, "101", Nil, lead, Nil)) @@ (A2 :> Agent(T1, Nil, G1, Nil, A1))
                           @@ (A3 :> Agent(T1, Nil, Nil, Nil, Nil)) @@ (B1 :> Agent(T2, "100", Nil, Nil, Nil))
         [] OTHER -> <<>>]

AgentRequests ==
    { Made("createAgent", by, Agent(T1, "100", G1, user, p)) : by \in {adm, lead}, p \in {Nil, A2} }
    \cup { Made("createAgent", root, Agent(T2, Nil, g, user, Nil)) : g \in {Nil, G1} }
    \cup { Req("updateAgent", by, A1, [parent |-> A3]) : by \in {adm, lead} }
    \cup { Req("updateAgent", adm, A3, dto) : dto \in
             { [parent |-> A2], [parent |-> Nil], [portalUser |-> user], [group |-> G2] } }
    \cup { Req("updateAgent", adm, A3, [extension |-> "100", group |-> G1]),
           Req("updateAgent", lead, A2, [portalUser |-> user]),
           Req("updateAgent", root, B1, [portalUser |-> user]) }
    \cup { Req("deleteAgent", adm, a, None) : a \in {A1, A2, A3} }
    \cup { Made("createGroup", by, [tenant |-> T1, name |-> "b", owner |-> A3]) : by \in {adm, lead} }
    \cup { Req("updateGroup", by, G1, dto) : by \in {adm, lead}, dto \in {[owner |-> A2], [name |-> "b"], [owner |-> Nil]} }
    \cup { Req("updateGroup", adm, G1, [owner |-> B1]), Req("deleteGroup", adm, G1, None) }

NewAccount(email, role) == [email |-> email, role |-> role, active |-> TRUE]

UserRequests ==
    { Made("createUser", by, [tenants |-> T] @@ NewAccount("new", "agent")) :
        by \in {root, adm, lead}, T \in {{}, {T1}, {T1, T2}} }
    \cup { Made("createUser", by, NewAccount("new", "agent")) : by \in {adm, lead} }
    \cup { Made("createUser", adm, [tenants |-> {T1}] @@ NewAccount("new", "super_admin")) }
    \cup { Req("updateUser", adm, user, dto) : dto \in
             { [active |-> FALSE], [email |-> "new"], [tenants |-> {}], [role |-> "super_admin"] } }
    \cup { Req("updateUser", root, user, dto) : dto \in
             { [tenants |-> {T1, T2}], [tenants |-> {T2}], [role |-> "super_admin"], [role |-> "custom"] } }
    \cup { Req(op, by, user, None) : op \in {"deleteUser", "resetPassword"}, by \in {adm, lead} }
    \cup { Req("createRole", root, "custom", [perms |-> "few"]),
           Req("updateRole", root, "custom", [perms |-> "all"]), Req("deleteRole", root, "custom", None) }

TenantRequests ==
    { Req("createTenant", root, T3, [domain |-> "three", routing |-> "x"]),
      Req("createTenant", root, T3, [domain |-> "two"]),
      Req("updateTenant", adm, T1, [limit |-> 3, routing |-> "y"]),
      Req("updateTenant", adm, T1, [domain |-> "three"]),
      Req("deleteTenant", root, T3, None) }

ExtensionRequests ==
    { Req(op, adm, <<T1, x>>, [password |-> "q"]) : op \in {"createExtension", "externalCreateExtension"}, x \in {"102", "103"} }
    \cup { Req(op, adm, <<T1, "100">>, [password |-> "q"]) : op \in {"updateExtension", "externalUpdateExtension"} }
    \cup { Req(op, adm, <<T1, x>>, None) : op \in {"deleteExtension", "externalDeleteExtension"}, x \in {"100", "101"} }
    \cup { Req("createExtension", root, <<T3, "100">>, [password |-> "q"]) }

(* The routing of the same tenants, with T3 without extensions.             *)
Routed ==
    [Office EXCEPT
        !.tenant = @ @@ (T3 :> [domain |-> "three", limit |-> Nil]),
        !.user = @ @@ (other :> Account0("op", "operator")),
        !.member = @ @@ MemberRows(other, {T1}),
        !.role = @ @@ ("custom" :> Role(FALSE)),
        !.gateway = gw1 :> [name |-> "up", file |-> <<"up", gw1>>, profile |-> "external"],
        !.outbound = o1 :> [tenant |-> T1, gateway |-> gw1],
        !.callerid = c1 :> [tenant |-> T1, gateway |-> Nil],
        !.menu = (m1 :> [tenant |-> T1, name |-> "day", options |-> {1}])
                 @@ (m2 :> [tenant |-> T1, name |-> "night", options |-> {1}]),
        !.inbound = i1 :> [tenant |-> T1, did |-> "300", type |-> "ivr", value |-> m1],
        !.rule = r1 :> [tenant |-> T1, actions |-> {1}]]

Inbound(t, did, type, value) == [tenant |-> t, did |-> did, type |-> type, value |-> value]

RouteRequests ==
    { Made(op, other, [tenant |-> t, gateway |-> gw1]) : op \in {"createRoute", "createCallerId"}, t \in {T1, T2} }
    \cup { Req("updateRoute", by, o1, [tenant |-> T2]) : by \in {other, root} }
    \cup { Req("updateRoute", other, o1, [gateway |-> Nil]), Req("deleteRoute", other, o1, None),
           Req("updateCallerId", other, c1, [gateway |-> gw1]), Req("updateCallerId", other, c1, [tenant |-> T2]),
           Req("deleteCallerId", other, c1, None) }
    \cup { Made("createInbound", other, Inbound(T1, did, "ext", "x")) : did \in {"300", "301"} }
    \cup { Made("createInbound", other, Inbound(t, "301", "extension", "101")) : t \in {T1, T2} }
    \cup { Req("updateInbound", by, i1, [did |-> "301"]) : by \in {other, root} }
    \cup { Req("updateInbound", root, i1, [tenant |-> T2]),
           Req("updateInbound", root, i1, [tenant |-> T2, type |-> "extension", value |-> "101"]),
           Req("deleteInbound", other, i1, None) }

MenuRequests ==
    { Made("createMenu", other, [tenant |-> T1, name |-> n, options |-> O]) : n \in {"eve", "night"}, O \in {{}, {3}} }
    \cup { Req("updateMenu", other, m1, dto) : dto \in
             { [name |-> "eve"], [name |-> "night", options |-> {2}], [name |-> "eve", options |-> {}],
               [options |-> {4}], [tenant |-> T2] } }
    \cup { Req("deleteMenu", other, m1, None) }
    \cup { Made("createRule", Nil, [tenant |-> T1, actions |-> {3}]),
           Req("updateRule", Nil, r1, [actions |-> {2}]), Req("updateRule", Nil, r1, [actions |-> {4}]),
           Req("updateRule", Nil, r1, [tenant |-> T2]), Req("deleteRule", Nil, r1, None) }

GatewayRequests ==
    { Req("createGateway", Nil, g, [name |-> "side"]) : g \in {"a", "c"} }
    \cup { Req("createGateway", Nil, "c", dto) : dto \in {[name |-> "up"], [name |-> "side", profile |-> "internal"]} }
    \cup { Req("updateGateway", Nil, gw1, dto) : dto \in
             { [name |-> "side"], None, [profile |-> "internal"], [name |-> "side", profile |-> "internal"] } }
    \cup { Req("updateGateway", Nil, "c", dto) : dto \in {None, [profile |-> "external"]} }
    \cup { Req("deleteGateway", Nil, g, None) : g \in {gw1, "c"} }

PortRequests ==
    { Req("updatePorts", Nil, Nil, dto) : dto \in
        { [internal |-> 5070], [rtpStart |-> 15], [rtpEnd |-> 12], [rtpStart |-> 30, rtpEnd |-> 40] } }
    \cup { Req("updateStorage", Nil, Nil, [mode |-> "cdn", base |-> b]) : b \in {Nil, "cdn"} }

Legacy ==
    [Office EXCEPT !.role = ("admin" :> Role(TRUE)) @@ [k \in {"viewer", "agent", "agent_lead", "tenant_admin"} |-> @[k]],
                   !.user = [u \in {adm, lead, user} |-> @[u]]]

(* A browser that signs in, one that is signed in, and one that makes its    *)
(* last call while an administrator changes the account.                     *)
Home ==
    [t \in TableNames |->
       CASE t \in {"tenant", "role"} -> Office[t]
         [] t = "user" -> [u \in {root, user} |-> Office.user[u]]
         [] t = "member" -> MemberRows(user, {T1})
         [] OTHER -> <<>>]

Browsing ==
    LET signed == [Home EXCEPT !.user[user].hash = 1] IN
    { [db |-> Home, requests |-> {}, calls |-> 0, bundle |-> 0],
      [db |-> signed, requests |-> {}, calls |-> 0, bundle |-> 1],
      [db |-> signed, requests |-> { Req("updateUser", root, user, [email |-> "new"]) },
       calls |-> MaxCalls - 1, bundle |-> 1] }

(* Nobody asks for anything: a page is open.                                *)
Nobody == [db |-> [t \in TableNames |-> <<>>], requests |-> {}, calls |-> MaxCalls, bundle |-> 0]

(* The operator does three things on a page, two on that of the agents.     *)
PageActs ==
    [k \in {"users", "domains", "extensions", "dialer", "billing", "security"} \cup FormKinds \cup TableKinds |-> 3]
    @@ ("agents" :> 2)

Symmetry == Permutations(Workers) \cup Permutations(Tabs)

Pairs(S) == { {p[1], p[2]} : p \in { q \in S \X S : q[1].op \in Makes => q[1].id # q[2].id } }

Serving(d, sets) == { [db |-> d, requests |-> R, calls |-> MaxCalls, bundle |-> 0] : R \in sets }

MCScenarios ==
    Serving(Office, Pairs(AgentRequests \cup UserRequests))
    \cup Serving(Office, Pairs(ExtensionRequests) \cup Pairs(TenantRequests))
    \cup Serving(Routed, Pairs(RouteRequests) \cup Pairs(MenuRequests) \cup Pairs(GatewayRequests) \cup Pairs(PortRequests))
    \cup Serving(Legacy, { { Req("boot", Nil, Nil, None) } })
    \cup Browsing \cup {Nobody}
=============================================================================
