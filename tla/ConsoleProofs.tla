---------------------------- MODULE ConsoleProofs ----------------------------
(***************************************************************************)
(* Proofs about Administration: whatever requests are served together and  *)
(* wherever they are cut off, the references of agents and groups stay in  *)
(* one tenant and the lists show what the handlers open; unless handlers   *)
(* raced, agents are in no cycle and have accounts and extensions of their *)
(* own, tenants stay within their limits and routes are what was checked.  *)
(***************************************************************************)
EXTENDS Administration, FiniteSetTheorems, WellFoundedInduction, TLAPS

-----------------------------------------------------------------------------
(* The tenant that an agent or a group is made in, and always of: keys are  *)
(* used for one row, and no handler writes another tenant.                  *)
AgentHomes(s) ==
    { <<a, s.db.agent[a].tenant>> : a \in DOMAIN s.db.agent }
    \cup { <<r.id, r.dto.tenant>> : r \in { q \in s.requests : q.op = "createAgent" } }

GroupHomes(s) ==
    { <<g, s.db.group[g].tenant>> : g \in DOMAIN s.db.group }
    \cup { <<r.id, r.dto.tenant>> : r \in { q \in s.requests : q.op = "createGroup" } }

AgentAtHome(s, a, row) ==
    /\ DOMAIN row = AgentColumns /\ <<a, row.tenant>> \in AgentHomes(s)
    /\ row.group # Nil => <<row.group, row.tenant>> \in GroupHomes(s)
    /\ row.parent # Nil => <<row.parent, row.tenant>> \in AgentHomes(s)

GroupAtHome(s, g, row) ==
    /\ DOMAIN row = GroupColumns /\ <<g, row.tenant>> \in GroupHomes(s)
    /\ row.owner # Nil => <<row.owner, row.tenant>> \in AgentHomes(s)

Homes(s, d) ==
    /\ \A a \in DOMAIN d.agent : AgentAtHome(s, a, d.agent[a])
    /\ \A g \in DOMAIN d.group : GroupAtHome(s, g, d.group[g])

(* What rows refer to is there.                                             *)
Linked(d) ==
    /\ \A a \in DOMAIN d.agent :
         /\ d.agent[a].group # Nil => d.agent[a].group \in DOMAIN d.group
         /\ d.agent[a].parent # Nil => d.agent[a].parent \in DOMAIN d.agent
    /\ \A g \in DOMAIN d.group : d.group[g].owner # Nil => d.group[g].owner \in DOMAIN d.agent

(* An extension is of its tenant, and has its number.                       *)
Placed(x, row) ==
    {"tenant", "ext"} \subseteq DOMAIN row /\ row.tenant = x[1] /\ row.ext = x[2] /\ x[1] # Nil

Bounded(row) == "limit" \in DOMAIN row /\ row.limit \in Nat \cup {Nil}

(* The agents there may be by now: those that the requests found, and those *)
(* of the requests that were sent.                                          *)
Used(s) ==
    DOMAIN s.db.agent \cup { r.id : r \in { q \in s.requests \ requests : q.op = "createAgent" } }

Rowed(s, U, d) ==
    /\ TableNames \subseteq DOMAIN d
    /\ IsFiniteSet(DOMAIN d.agent) /\ IsFiniteSet(DOMAIN d.extension)
    /\ DOMAIN d.agent \subseteq U
    /\ Nil \notin DOMAIN d.agent \cup DOMAIN d.user \cup DOMAIN d.tenant \cup DOMAIN d.inbound
    /\ \A x \in DOMAIN d.extension : Placed(x, d.extension[x]) /\ x[1] \in DOMAIN d.tenant
    /\ \A t \in DOMAIN d.tenant : Bounded(d.tenant[t])
    /\ \A i \in DOMAIN d.inbound : InboundColumns \subseteq DOMAIN d.inbound[i]
    /\ Homes(s, d) /\ Linked(d)

Sound(d) == Equipped(d) /\ Rooted(d)

-----------------------------------------------------------------------------
(* What a handler has yet to write: statements that are right at any time,  *)
(* or one statement that was right when it was decided on.                  *)
IsSeq(t) == t \in Seq({ t[i] : i \in DOMAIN t })

(* The membership of an account in a tenant has the two for its key.         *)
Keyed(rows) ==
    \A m \in DOMAIN rows : DOMAIN rows[m] = {"user", "tenant"} /\ m = <<rows[m].user, rows[m].tenant>>

(* A statement that keeps the rows as they should be.                       *)
Fits(s, c, wr) ==
    \/ /\ wr.kind = "save" /\ wr.table \in TableNames \ {"member"}
       /\ wr.table \in {"user", "tenant", "agent", "inbound"} => wr.id # Nil
       /\ wr.table = "tenant" => Bounded(wr.row)
       /\ wr.table = "extension" => Placed(wr.id, wr.row)
       /\ wr.table = "inbound" => InboundColumns \subseteq DOMAIN wr.row
       /\ wr.table = "agent" => AgentAtHome(s, wr.id, wr.row)
       /\ wr.table = "group" => GroupAtHome(s, wr.id, wr.row)
    \/ wr.kind = "account" /\ wr.id # Nil /\ (c => \A a, b \in wr.row.agents : a = b)
    \/ wr.kind = "insert" /\ wr.table = "member" /\ Keyed(wr.rows)
    \/ wr.kind = "update" /\ wr.table \in {"user", "role", "menu", "rule"}
    \/ wr.kind = "update" /\ wr.table = "agent" /\ wr.set = [extension |-> Nil]
    \/ wr.kind = "delete" /\ wr.table \in TableNames

(* The tables whose rows are checked against others before they are saved.  *)
Checked(wr) == wr.kind = "save" /\ wr.table \in {"agent", "extension", "inbound"}

(* The statements on what an account is.                                    *)
OfAccount(wr) == wr.kind = "account" \/ (wr.kind \in {"save", "update"} /\ wr.table = "user")

Steady(s, c, wr) == Fits(s, c, wr) /\ ~Checked(wr)

SteadyItem(s, c, x) ==
    x.kind = "tx" /\ IsSeq(x.writes) /\ \A i \in DOMAIN x.writes : Steady(s, c, x.writes[i])

Plain(s, c, wr) == Steady(s, c, wr) /\ ~OfAccount(wr)

PlainWrites(s, c, ws) == IsSeq(ws) /\ \A i \in DOMAIN ws : Plain(s, c, ws[i])

PlainItem(s, c, x) == x.kind # "reply" /\ (x.kind = "tx" => PlainWrites(s, c, x.writes))

PlainTodo(s, c, t) == IsSeq(t) /\ \A i \in DOMAIN t : PlainItem(s, c, t[i])

(* What the checks are for: of a database d and of e, which a step makes    *)
(* of it.                                                                   *)
Within(e, t) ==
    e.tenant[t].limit # Nil => Cardinality({ x \in DOMAIN e.extension : x[1] = t }) <= e.tenant[t].limit

QuotaOf(d, e) == \A x \in DOMAIN e.extension \ DOMAIN d.extension : Within(e, x[1])

NumberedIn(e, i) ==
    \A j \in DOMAIN e.inbound :
        e.inbound[j].tenant = e.inbound[i].tenant /\ e.inbound[j].did = e.inbound[i].did => j = i

DestinedIn(e, i) ==
    LET t == e.inbound[i].tenant v == e.inbound[i].value IN
    CASE e.inbound[i].type = "extension" -> <<t, v>> \in DOMAIN e.extension
      [] e.inbound[i].type = "ivr"       -> v \in DOMAIN e.menu /\ e.menu[v].tenant = t
      [] OTHER                           -> TRUE

RoutesOf(d, e) ==
    \A i \in DOMAIN e.inbound : LET was == d.inbound[i] now == e.inbound[i] IN
        /\ i \notin DOMAIN d.inbound \/ was.did # now.did => NumberedIn(e, i)
        /\ i \notin DOMAIN d.inbound \/ <<was.type, was.value>> # <<now.type, now.value>>
           => DestinedIn(e, i)

Right(d, e) == Sound(e) /\ QuotaOf(d, e) /\ RoutesOf(d, e)

Decided(s, U, c, d, fresh, t) ==
    \E wr \in { Head(t).writes[1] } :
      /\ t = <<Tx(<<wr>>)>>
      /\ Checked(wr) /\ Fits(s, c, wr) /\ (wr.table = "agent" => wr.id \in U)
      /\ fresh => Right(d, Effect(d, wr))

(* A statement on accounts, which comes first, and plain ones.               *)
AccountOps == {"createUser", "updateUser", "resetPassword", "boot"}

(* A statement that leaves the tokens of the accounts as they are.           *)
Lasting(wr) ==
    \/ wr.kind \in {"save", "insert"} /\ wr.table # "user"
    \/ wr.kind = "update" /\ (wr.table = "user" => DOMAIN wr.set = {"role"})
    \/ wr.kind = "delete"

Personal(s, c, op, t) ==
    /\ t # <<>> /\ SteadyItem(s, c, Head(t)) /\ PlainTodo(s, c, Tail(t))
    /\ op = "boot" => \A i \in DOMAIN Head(t).writes : Lasting(Head(t).writes[i])

(* The answers to the browser.                                              *)
BrowserOps == {"login", "refresh", "logout"}

Answers(t) ==
    /\ t # <<>>
    /\ \/ \E b, n : Head(t) = Remember(b) /\ Tail(t) = <<Reply(n)>>
       \/ \E b : Head(t) = Reply(b) /\ Tail(t) = <<>>

Going(s, c, op, t) == PlainTodo(s, c, t) \/ (op \in BrowserOps /\ Answers(t))

Awaits(s, U, c, d, fresh, op, t) ==
    \/ Going(s, c, op, t)
    \/ Decided(s, U, c, d, fresh, t)
    \/ op \in AccountOps /\ Personal(s, c, op, t)

-----------------------------------------------------------------------------
(* The invariant, for the scenario that a behaviour began with.             *)
Consistent(s) ==
    /\ \A r \in requests : r.op \notin BrowserOps => r \in s.requests
    /\ Rowed(s, Used(s), db)
    /\ clean => Sound(db)
    /\ \A w \in Workers : Awaits(s, Used(s), clean, db, clean /\ ~work[w].stale, work[w].req.op, work[w].todo)

Typed ==
    /\ DOMAIN work = Workers /\ clean \in BOOLEAN
    /\ \A w \in Workers : {"req", "scope", "todo", "stale"} \subseteq DOMAIN work[w] /\ work[w].stale \in BOOLEAN

ConsoleInv == Typed /\ \E s \in Scenarios : Consistent(s)

-----------------------------------------------------------------------------
(* Rows and references.                                                     *)
LEMMA OverColumns ==
  ASSUME NEW row, NEW other
  PROVE  /\ DOMAIN Over(row, other) = DOMAIN row \cup DOMAIN other
         /\ \A c \in DOMAIN row : Over(row, other)[c] = row[c]
         /\ \A c \in DOMAIN other \ DOMAIN row : Over(row, other)[c] = other[c]
  BY DEF Over

LEMMA References ==
  ASSUME NEW e, Referenced(e)
  PROVE  /\ Linked(e)
         /\ \A x \in DOMAIN e.extension : e.extension[x].tenant \in DOMAIN e.tenant \cup {Nil}
<1>1. ASSUME NEW a \in DOMAIN e.agent, e.agent[a].group # Nil
      PROVE  e.agent[a].group \in DOMAIN e.group
  <2>1. Ref("agent", "group", "group", "id", "SET NULL") \in ForeignKeys
    BY DEF ForeignKeys, AgentRefs
  <2> QED BY <1>1, <2>1 DEF Referenced, Targets, Ref
<1>2. ASSUME NEW a \in DOMAIN e.agent, e.agent[a].parent # Nil
      PROVE  e.agent[a].parent \in DOMAIN e.agent
  <2>1. Ref("agent", "parent", "agent", "id", "SET NULL") \in ForeignKeys
    BY DEF ForeignKeys, AgentRefs
  <2> QED BY <1>2, <2>1 DEF Referenced, Targets, Ref
<1>3. ASSUME NEW g \in DOMAIN e.group, e.group[g].owner # Nil
      PROVE  e.group[g].owner \in DOMAIN e.agent
  <2>1. Ref("group", "owner", "agent", "id", "SET NULL") \in ForeignKeys
    BY DEF ForeignKeys, GroupRefs
  <2> QED BY <1>3, <2>1 DEF Referenced, Targets, Ref
<1>4. ASSUME NEW x \in DOMAIN e.extension
      PROVE  e.extension[x].tenant \in DOMAIN e.tenant \cup {Nil}
  <2>1. Ref("extension", "tenant", "tenant", "id", "CASCADE") \in ForeignKeys
    BY DEF ForeignKeys, TenantRefs
  <2> QED BY <2>1 DEF Referenced, Targets, Ref
<1> QED BY <1>1, <1>2, <1>3, <1>4 DEF Linked

(* The keys of agents and of groups say their tenants.                      *)
LEMMA HomesUnique ==
  ASSUME NEW s \in Scenarios
  PROVE  /\ \A a, t, u : <<a, t>> \in AgentHomes(s) /\ <<a, u>> \in AgentHomes(s) => t = u
         /\ \A g, t, u : <<g, t>> \in GroupHomes(s) /\ <<g, u>> \in GroupHomes(s) => t = u
<1>1. OwnKeys(s, "createAgent", "agent") /\ OwnKeys(s, "createGroup", "group")
  BY ScenariosAssumption
<1>2. ASSUME NEW a, NEW t, NEW u, <<a, t>> \in AgentHomes(s), <<a, u>> \in AgentHomes(s)
      PROVE  t = u
  BY <1>1, <1>2 DEF AgentHomes, OwnKeys
<1>3. ASSUME NEW g, NEW t, NEW u, <<g, t>> \in GroupHomes(s), <<g, u>> \in GroupHomes(s)
      PROVE  t = u
  BY <1>1, <1>3 DEF GroupHomes, OwnKeys
<1> QED BY <1>2, <1>3

LEMMA HomesKept ==
  ASSUME NEW s \in Scenarios, NEW d, Homes(s, d), Linked(d)
  PROVE  OneTenant(d)
<1>h. /\ \A a, t, u : <<a, t>> \in AgentHomes(s) /\ <<a, u>> \in AgentHomes(s) => t = u
      /\ \A g, t, u : <<g, t>> \in GroupHomes(s) /\ <<g, u>> \in GroupHomes(s) => t = u
  BY HomesUnique
<1>1. ASSUME NEW a \in DOMAIN d.agent, d.agent[a].group # Nil
      PROVE  d.group[d.agent[a].group].tenant = d.agent[a].tenant
  <2>1. /\ <<d.agent[a].group, d.agent[a].tenant>> \in GroupHomes(s)
        /\ d.agent[a].group \in DOMAIN d.group
    BY <1>1 DEF Homes, Linked, AgentAtHome
  <2>2. <<d.agent[a].group, d.group[d.agent[a].group].tenant>> \in GroupHomes(s)
    BY <2>1 DEF Homes, GroupAtHome
  <2> QED BY <1>h, <2>1, <2>2
<1>2. ASSUME NEW a \in DOMAIN d.agent, d.agent[a].parent # Nil
      PROVE  d.agent[d.agent[a].parent].tenant = d.agent[a].tenant
  <2>1. /\ <<d.agent[a].parent, d.agent[a].tenant>> \in AgentHomes(s)
        /\ d.agent[a].parent \in DOMAIN d.agent
    BY <1>2 DEF Homes, Linked, AgentAtHome
  <2>2. <<d.agent[a].parent, d.agent[d.agent[a].parent].tenant>> \in AgentHomes(s)
    BY <2>1 DEF Homes, AgentAtHome
  <2> QED BY <1>h, <2>1, <2>2
<1>3. ASSUME NEW g \in DOMAIN d.group, d.group[g].owner # Nil
      PROVE  d.agent[d.group[g].owner].tenant = d.group[g].tenant
  <2>1. /\ <<d.group[g].owner, d.group[g].tenant>> \in AgentHomes(s)
        /\ d.group[g].owner \in DOMAIN d.agent
    BY <1>3 DEF Homes, Linked, GroupAtHome
  <2>2. <<d.group[g].owner, d.agent[d.group[g].owner].tenant>> \in AgentHomes(s)
    BY <2>1 DEF Homes, AgentAtHome
  <2> QED BY <1>h, <2>1, <2>2
<1> QED BY <1>1, <1>2, <1>3 DEF OneTenant

-----------------------------------------------------------------------------
(* What a statement makes of the tables.                                    *)
LEMMA SaveEffect ==
  ASSUME NEW d, NEW wr, wr.kind = "save", wr.table \in DOMAIN d, NEW e, e = Effect(d, wr)
  PROVE  /\ DOMAIN e = DOMAIN d
         /\ \A t \in DOMAIN d \ {wr.table} : e[t] = d[t]
         /\ DOMAIN e[wr.table] = DOMAIN d[wr.table] \cup {wr.id}
         /\ \A i \in DOMAIN d[wr.table] \ {wr.id} : e[wr.table][i] = d[wr.table][i]
         /\ e[wr.table][wr.id] =
              Over(wr.row, IF wr.id \in DOMAIN d[wr.table] THEN d[wr.table][wr.id] ELSE Absent(wr.table))
<1> DEFINE saved == Over(wr.row, IF wr.id \in DOMAIN d[wr.table] THEN d[wr.table][wr.id] ELSE Absent(wr.table))
           one == [i \in {wr.id} |-> saved]
<1>1. e = [d EXCEPT ![wr.table] = Over(one, d[wr.table])]
  BY DEF Effect, Saved, Put
<1>2. DOMAIN one = {wr.id} /\ one[wr.id] = saved
  OBVIOUS
<1> HIDE DEF one, saved
<1>3. e[wr.table] = Over(one, d[wr.table]) /\ DOMAIN e = DOMAIN d
  BY <1>1
<1>4. \A t \in DOMAIN d \ {wr.table} : e[t] = d[t]
  BY <1>1
<1>o. /\ DOMAIN Over(one, d[wr.table]) = DOMAIN one \cup DOMAIN d[wr.table]
      /\ \A c \in DOMAIN one : Over(one, d[wr.table])[c] = one[c]
      /\ \A c \in DOMAIN d[wr.table] \ DOMAIN one : Over(one, d[wr.table])[c] = d[wr.table][c]
  BY DEF Over
<1>5. DOMAIN e[wr.table] = DOMAIN d[wr.table] \cup {wr.id}
  BY <1>2, <1>3, <1>o
<1>6. \A i \in DOMAIN d[wr.table] \ {wr.id} : e[wr.table][i] = d[wr.table][i]
  BY <1>2, <1>3, <1>o
<1>7. e[wr.table][wr.id] = saved
  BY <1>2, <1>3, <1>o
<1> QED BY <1>3, <1>4, <1>5, <1>6, <1>7 DEF saved

LEMMA InsertEffect ==
  ASSUME NEW d, NEW wr, wr.kind = "insert", NEW e, e = Effect(d, wr)
  PROVE  DOMAIN e = DOMAIN d /\ \A t \in DOMAIN d \ {wr.table} : e[t] = d[t]
  BY DEF Effect

LEMMA UpdateEffect ==
  ASSUME NEW d, NEW wr, wr.kind = "update", wr.table \in DOMAIN d, NEW e, e = Effect(d, wr)
  PROVE  /\ DOMAIN e = DOMAIN d
         /\ \A t \in DOMAIN d \ {wr.table} : e[t] = d[t]
         /\ DOMAIN e[wr.table] = DOMAIN d[wr.table]
         /\ \A i \in DOMAIN d[wr.table] :
              e[wr.table][i] \in { Over(wr.set, d[wr.table][i]), d[wr.table][i] }
  BY DEF Effect

LEMMA AccountEffect ==
  ASSUME NEW d, NEW wr, wr.kind = "account", {"user", "agent"} \subseteq DOMAIN d,
         NEW e, e = Effect(d, wr)
  PROVE  /\ DOMAIN e = DOMAIN d
         /\ \A t \in DOMAIN d \ {"user", "agent"} : e[t] = d[t]
         /\ DOMAIN e.user = DOMAIN d.user \cup {wr.id}
         /\ DOMAIN e.agent = DOMAIN d.agent
         /\ \A a \in DOMAIN d.agent :
              /\ DOMAIN e.agent[a] = DOMAIN d.agent[a]
              /\ \A c \in DOMAIN d.agent[a] \ {"portalUser"} : e.agent[a][c] = d.agent[a][c]
         /\ \A a \in DOMAIN d.agent : "portalUser" \in DOMAIN d.agent[a] =>
              e.agent[a].portalUser = IF a \in wr.row.agents THEN wr.id
                                      ELSE IF d.agent[a].portalUser = wr.id THEN Nil
                                      ELSE d.agent[a].portalUser
<1> DEFINE one == Saved(d, "user", wr.id, Without(wr.row, {"agents", "members"}))
           linked(a) == CASE a \in wr.row.agents -> [d.agent[a] EXCEPT !.portalUser = wr.id]
                          [] a \in AgentsOf(d, wr.id) \ wr.row.agents -> [d.agent[a] EXCEPT !.portalUser = Nil]
                          [] OTHER -> d.agent[a]
<1>1. one = Effect(d, Save("user", wr.id, Without(wr.row, {"agents", "members"})))
  BY DEF Effect, Save
<1>2. /\ DOMAIN one = DOMAIN d /\ \A t \in DOMAIN d \ {"user"} : one[t] = d[t]
      /\ DOMAIN one.user = DOMAIN d.user \cup {wr.id}
  <2> HIDE DEF one
  <2>1. Save("user", wr.id, Without(wr.row, {"agents", "members"})).kind = "save"
    BY DEF Save
  <2>2. /\ Save("user", wr.id, Without(wr.row, {"agents", "members"})).table = "user"
        /\ Save("user", wr.id, Without(wr.row, {"agents", "members"})).id = wr.id
    BY DEF Save
  <2> QED BY <1>1, <2>1, <2>2, SaveEffect
<1>3. e = [one EXCEPT !.agent = [a \in DOMAIN d.agent |-> linked(a)]]
  <2>1. one.agent = d.agent
    BY <1>2
  <2>2. e = [one EXCEPT !.agent = [a \in DOMAIN one.agent |->
               CASE a \in wr.row.agents -> [one.agent[a] EXCEPT !.portalUser = wr.id]
                 [] a \in AgentsOf(d, wr.id) \ wr.row.agents -> [one.agent[a] EXCEPT !.portalUser = Nil]
                 [] OTHER -> one.agent[a]]]
    BY DEF Effect, SavedAccount
  <2> HIDE DEF one
  <2> QED BY <2>1, <2>2
<1> HIDE DEF one
<1>4. /\ DOMAIN e = DOMAIN d /\ e.agent = [a \in DOMAIN d.agent |-> linked(a)] /\ e.user = one.user
      /\ \A t \in DOMAIN d \ {"user", "agent"} : e[t] = d[t]
  BY <1>2, <1>3
<1>5. ASSUME NEW a \in DOMAIN d.agent
      PROVE  /\ DOMAIN linked(a) = DOMAIN d.agent[a]
             /\ \A c \in DOMAIN d.agent[a] \ {"portalUser"} : linked(a)[c] = d.agent[a][c]
             /\ "portalUser" \in DOMAIN d.agent[a] =>
                  linked(a).portalUser = IF a \in wr.row.agents THEN wr.id
                                         ELSE IF d.agent[a].portalUser = wr.id THEN Nil
                                         ELSE d.agent[a].portalUser
  <2>1. CASE a \in wr.row.agents
    <3>1. linked(a) = [d.agent[a] EXCEPT !.portalUser = wr.id]
      BY <2>1
    <3> QED BY <2>1, <3>1
  <2>2. CASE a \notin wr.row.agents /\ a \in AgentsOf(d, wr.id)
    <3>1. linked(a) = [d.agent[a] EXCEPT !.portalUser = Nil]
      BY <2>2
    <3> QED BY <2>2, <3>1 DEF AgentsOf
  <2>3. CASE a \notin wr.row.agents /\ a \notin AgentsOf(d, wr.id)
    <3>1. linked(a) = d.agent[a]
      BY <2>3
    <3> QED BY <2>3, <3>1 DEF AgentsOf
  <2> QED BY <2>1, <2>2, <2>3
<1> HIDE DEF linked
<1> QED BY <1>2, <1>4, <1>5

LEMMA DeleteEffect ==
  ASSUME NEW d, NEW wr, wr.kind = "delete", NEW e, e = Effect(d, wr),
         NEW gone, gone = Gone(d, wr.table, wr.ids)
  PROVE  /\ DOMAIN e = TableNames
         /\ \A t \in TableNames : e[t] = [i \in DOMAIN d[t] \ gone[t] |-> Released(d, gone, t, d[t][i])]
<1>1. e = Deleted(d, gone)
  BY DEF Effect
<1> QED BY <1>1 DEF Deleted

Loosened(gone, t, row, out) ==
    /\ DOMAIN out = DOMAIN row
    /\ \A c \in DOMAIN row :
         /\ out[c] \in {row[c], Nil}
         /\ (\A fk \in ForeignKeys : ~(fk.from = t /\ fk.col = c /\ fk.rule = "SET NULL")) => out[c] = row[c]
         /\ \A fk \in ForeignKeys : fk.from = t /\ fk.col = c /\ fk.rule = "SET NULL" /\ row[c] \in gone[fk.to]
            => out[c] = Nil

LEMMA ReleasedColumns ==
  ASSUME NEW d, NEW gone, NEW t, NEW row
  PROVE  Loosened(gone, t, row, Released(d, gone, t, row))
<1> DEFINE free(c) == \E fk \in ForeignKeys : /\ fk.from = t /\ fk.col = c /\ fk.rule = "SET NULL"
                                              /\ row[c] \in gone[fk.to]
<1>1. Released(d, gone, t, row) = [c \in DOMAIN row |-> IF free(c) THEN Nil ELSE row[c]]
  BY DEF Released
<1>2. \A c \in DOMAIN row :
              /\ (\A fk \in ForeignKeys : ~(fk.from = t /\ fk.col = c /\ fk.rule = "SET NULL")) => ~free(c)
              /\ \A fk \in ForeignKeys : fk.from = t /\ fk.col = c /\ fk.rule = "SET NULL" /\ row[c] \in gone[fk.to]
                 => free(c)
  OBVIOUS
<1> HIDE DEF free
<1> QED BY <1>1, <1>2 DEF Loosened

-----------------------------------------------------------------------------
(* Statements keep the rows as they should be.                              *)
LEMMA SaveKeeps ==
  ASSUME NEW s, NEW U, NEW c, NEW d, NEW wr, Rowed(s, U, d), Fits(s, c, wr), wr.kind = "save",
         wr.table = "agent" => wr.id \in U, NEW e, e = Effect(d, wr), Admitted(d, wr)
  PROVE  Rowed(s, U, e)
<1> DEFINE t == wr.table
<1>0. /\ t \in TableNames /\ TableNames \subseteq DOMAIN d
      /\ t \in {"user", "tenant", "agent", "inbound"} => wr.id # Nil
      /\ t = "tenant" => Bounded(wr.row)
      /\ t = "extension" => Placed(wr.id, wr.row)
      /\ t = "agent" => AgentAtHome(s, wr.id, wr.row)
      /\ t = "inbound" => InboundColumns \subseteq DOMAIN wr.row
      /\ t = "group" => GroupAtHome(s, wr.id, wr.row)
  BY DEF Fits, Rowed
<1>n. {"agent", "group", "extension", "user", "tenant", "inbound"} \subseteq TableNames
  BY DEF TableNames
<1>1. /\ DOMAIN e = DOMAIN d
      /\ \A u \in DOMAIN d \ {t} : e[u] = d[u]
      /\ DOMAIN e[t] = DOMAIN d[t] \cup {wr.id}
      /\ \A i \in DOMAIN d[t] \ {wr.id} : e[t][i] = d[t][i]
      /\ e[t][wr.id] = Over(wr.row, IF wr.id \in DOMAIN d[t] THEN d[t][wr.id] ELSE Absent(t))
  BY <1>0, SaveEffect
<1>2. Referenced(e)
  BY DEF Admitted
<1> DEFINE old == IF wr.id \in DOMAIN d[t] THEN d[t][wr.id] ELSE Absent(t)
<1>3. /\ DOMAIN e[t][wr.id] = DOMAIN wr.row \cup DOMAIN old
      /\ \A k \in DOMAIN wr.row : e[t][wr.id][k] = wr.row[k]
  BY <1>1 DEF Over
<1>4. t \in {"agent", "group", "extension", "tenant", "user"} /\ wr.id \notin DOMAIN d[t] => DOMAIN old = {}
  BY DEF Absent, Owned
<1> HIDE DEF t, old
<1>5. IsFiniteSet(DOMAIN e.agent) /\ IsFiniteSet(DOMAIN e.extension)
  <2>1. IsFiniteSet(DOMAIN d.agent) /\ IsFiniteSet(DOMAIN d.extension)
    BY DEF Rowed
  <2>2. IsFiniteSet(DOMAIN d.agent \cup {wr.id}) /\ IsFiniteSet(DOMAIN d.extension \cup {wr.id})
    BY <2>1, FS_AddElement
  <2>3. DOMAIN e.agent \in {DOMAIN d.agent, DOMAIN d.agent \cup {wr.id}}
    BY <1>0, <1>1, <1>n
  <2>4. DOMAIN e.extension \in {DOMAIN d.extension, DOMAIN d.extension \cup {wr.id}}
    BY <1>0, <1>1, <1>n
  <2> QED BY <2>1, <2>2, <2>3, <2>4
<1>6. DOMAIN e.agent \subseteq U
  BY <1>0, <1>1, <1>n DEF Rowed, t
<1>7. Nil \notin DOMAIN e.agent \cup DOMAIN e.user \cup DOMAIN e.tenant \cup DOMAIN e.inbound
  BY <1>0, <1>1, <1>n DEF Rowed
<1>8. ASSUME NEW x \in DOMAIN e.extension
      PROVE  Placed(x, e.extension[x]) /\ x[1] \in DOMAIN e.tenant
  <2>1. Placed(x, e.extension[x])
    <3>1. CASE t = "extension" /\ x = wr.id
      BY <1>0, <1>3, <3>1 DEF Placed
    <3>2. CASE ~ (t = "extension" /\ x = wr.id)
      BY <1>0, <1>1, <1>n, <3>2 DEF Rowed
    <3> QED BY <3>1, <3>2
  <2> QED BY <2>1, <1>2, References DEF Placed
<1>9. ASSUME NEW x \in DOMAIN e.tenant PROVE Bounded(e.tenant[x])
  <2>1. CASE t = "tenant" /\ x = wr.id
    BY <1>0, <1>3, <2>1 DEF Bounded
  <2>2. CASE ~ (t = "tenant" /\ x = wr.id)
    BY <1>0, <1>1, <1>n, <2>2 DEF Rowed
  <2> QED BY <2>1, <2>2
<1>10. ASSUME NEW a \in DOMAIN e.agent PROVE AgentAtHome(s, a, e.agent[a])
  <2>1. CASE t = "agent" /\ a = wr.id
    <3>1. DOMAIN wr.row = AgentColumns
      BY <1>0, <2>1 DEF AgentAtHome
    <3>2. DOMAIN old \subseteq AgentColumns
      BY <1>4, <2>1 DEF old, Rowed, Homes, AgentAtHome
    <3> QED BY <1>0, <1>3, <2>1, <3>1, <3>2 DEF AgentAtHome, AgentColumns
  <2>2. CASE ~ (t = "agent" /\ a = wr.id)
    BY <1>0, <1>1, <1>n, <2>2 DEF Rowed, Homes
  <2> QED BY <2>1, <2>2
<1>11. ASSUME NEW g \in DOMAIN e.group PROVE GroupAtHome(s, g, e.group[g])
  <2>1. CASE t = "group" /\ g = wr.id
    <3>1. DOMAIN wr.row = GroupColumns
      BY <1>0, <2>1 DEF GroupAtHome
    <3>2. DOMAIN old \subseteq GroupColumns
      BY <1>4, <2>1 DEF old, Rowed, Homes, GroupAtHome
    <3> QED BY <1>0, <1>3, <2>1, <3>1, <3>2 DEF GroupAtHome, GroupColumns
  <2>2. CASE ~ (t = "group" /\ g = wr.id)
    BY <1>0, <1>1, <1>n, <2>2 DEF Rowed, Homes
  <2> QED BY <2>1, <2>2
<1>14. ASSUME NEW i \in DOMAIN e.inbound PROVE InboundColumns \subseteq DOMAIN e.inbound[i]
  <2>1. CASE t = "inbound" /\ i = wr.id
    BY <1>0, <1>3, <2>1
  <2>2. CASE ~ (t = "inbound" /\ i = wr.id)
    BY <1>0, <1>1, <1>n, <2>2 DEF Rowed
  <2> QED BY <2>1, <2>2
<1>12. TableNames \subseteq DOMAIN e
  BY <1>0, <1>1
<1>13. Linked(e)
  BY <1>2, References
<1> QED BY <1>5, <1>6, <1>7, <1>8, <1>9, <1>10, <1>11, <1>12, <1>13, <1>14 DEF Rowed, Homes

(* An agent that loses a reference, or goes, is where it was.               *)
Less(row, was, columns) ==
    /\ DOMAIN row = DOMAIN was
    /\ row.tenant = was.tenant
    /\ \A k \in columns : row[k] \in {was[k], Nil}

Fewer(d, e) ==
    /\ TableNames \subseteq DOMAIN e
    /\ DOMAIN e.agent \subseteq DOMAIN d.agent /\ DOMAIN e.group \subseteq DOMAIN d.group
    /\ DOMAIN e.extension \subseteq DOMAIN d.extension
    /\ \A a \in DOMAIN e.agent : Less(e.agent[a], d.agent[a], {"group", "parent", "extension"})
    /\ \A g \in DOMAIN e.group : Less(e.group[g], d.group[g], {"owner"})
    /\ \A x \in DOMAIN e.extension :
         /\ DOMAIN e.extension[x] = DOMAIN d.extension[x]
         /\ e.extension[x].tenant = d.extension[x].tenant /\ e.extension[x].ext = d.extension[x].ext
    /\ DOMAIN e.inbound \subseteq DOMAIN d.inbound
    /\ \A i \in DOMAIN e.inbound :
         /\ DOMAIN e.inbound[i] = DOMAIN d.inbound[i]
         /\ \A k \in InboundColumns : e.inbound[i][k] = d.inbound[i][k]

LEMMA FewerKeeps ==
  ASSUME NEW s, NEW U, NEW d, NEW e, Rowed(s, U, d), Fewer(d, e), Linked(e),
         Nil \notin DOMAIN e.user \cup DOMAIN e.tenant,
         \A x \in DOMAIN e.extension : x[1] \in DOMAIN e.tenant,
         \A t \in DOMAIN e.tenant : Bounded(e.tenant[t])
  PROVE  Rowed(s, U, e)
<1>1. IsFiniteSet(DOMAIN e.agent) /\ IsFiniteSet(DOMAIN e.extension)
  BY FS_Subset DEF Rowed, Fewer
<1>2. ASSUME NEW a \in DOMAIN e.agent PROVE AgentAtHome(s, a, e.agent[a])
  <2>1. a \in DOMAIN d.agent /\ AgentAtHome(s, a, d.agent[a])
    BY DEF Rowed, Fewer, Homes
  <2>2. Less(e.agent[a], d.agent[a], {"group", "parent", "extension"})
    BY DEF Fewer
  <2> QED BY <2>1, <2>2 DEF AgentAtHome, Less
<1>3. ASSUME NEW g \in DOMAIN e.group PROVE GroupAtHome(s, g, e.group[g])
  <2>1. g \in DOMAIN d.group /\ GroupAtHome(s, g, d.group[g])
    BY DEF Rowed, Fewer, Homes
  <2>2. Less(e.group[g], d.group[g], {"owner"})
    BY DEF Fewer
  <2> QED BY <2>1, <2>2 DEF GroupAtHome, Less
<1>4. ASSUME NEW x \in DOMAIN e.extension PROVE Placed(x, e.extension[x])
  BY DEF Placed, Rowed, Fewer
<1>5. DOMAIN e.agent \subseteq U /\ Nil \notin DOMAIN e.agent
  BY DEF Rowed, Fewer
<1>6. \A i \in DOMAIN e.inbound : InboundColumns \subseteq DOMAIN e.inbound[i]
  BY DEF Rowed, Fewer
<1>7. Nil \notin DOMAIN e.inbound
  BY DEF Rowed, Fewer
<1>8. Nil \notin DOMAIN e.agent \cup DOMAIN e.user \cup DOMAIN e.tenant \cup DOMAIN e.inbound
  BY <1>5, <1>7
<1>9. Homes(s, e)
  BY <1>2, <1>3 DEF Homes
<1>10. TableNames \subseteq DOMAIN e
  BY DEF Fewer
<1>11. \A x \in DOMAIN e.extension : Placed(x, e.extension[x]) /\ x[1] \in DOMAIN e.tenant
  BY <1>4
<1> QED BY <1>1, <1>5, <1>6, <1>8, <1>9, <1>10, <1>11 DEF Rowed

LEMMA RootedFewer ==
  ASSUME NEW d, NEW e, Rooted(d), Nil \notin DOMAIN d.agent, DOMAIN e.agent \subseteq DOMAIN d.agent,
         \A a \in DOMAIN e.agent : e.agent[a].parent \in {d.agent[a].parent, Nil}
  PROVE  Rooted(e)
<1> SUFFICES ASSUME NEW S \in SUBSET DOMAIN e.agent, S # {}
             PROVE  \E a \in S : e.agent[a].parent \notin S
  BY DEF Rooted
<1>1. PICK a \in S : d.agent[a].parent \notin S
  BY DEF Rooted
<1> QED BY <1>1

LEMMA Schema ==
  ASSUME NEW fk \in ForeignKeys
  PROVE  \/ \E t \in {"routing", "extension", "agent", "group", "member",
                      "outbound", "callerid", "inbound", "menu", "rule"} :
              fk = Ref(t, "tenant", "tenant", "id", "CASCADE")
         \/ fk = Ref("agent", "extension", "extension", "ext", "RESTRICT")
         \/ fk = Ref("agent", "group", "group", "id", "SET NULL")
         \/ fk = Ref("agent", "portalUser", "user", "id", "SET NULL")
         \/ fk = Ref("agent", "parent", "agent", "id", "SET NULL")
         \/ fk = Ref("group", "owner", "agent", "id", "SET NULL")
         \/ fk = Ref("user", "role", "role", "id", "RESTRICT")
         \/ fk = Ref("member", "user", "user", "id", "CASCADE")
         \/ fk = Ref("outbound", "gateway", "gateway", "id", "SET NULL")
         \/ fk = Ref("callerid", "gateway", "gateway", "id", "SET NULL")
  BY DEF ForeignKeys, TenantRefs, AgentRefs, GroupRefs, UserRefs, MemberRefs, RouteRefs, CallerIdRefs

SetsNull(fk) ==
    /\ fk.from # "tenant"
    /\ fk.rule = "SET NULL" => \/ fk.from = "agent" /\ fk.col \in {"group", "portalUser", "parent"}
                               \/ fk.from = "group" /\ fk.col = "owner"
                               \/ fk.from \in {"outbound", "callerid"}
    /\ fk.rule = "CASCADE" => fk.to \in {"tenant", "user"} /\ (fk.to = "user" => fk.from = "member")

LEMMA SchemaRules ==
  ASSUME NEW fk \in ForeignKeys
  PROVE  SetsNull(fk)
<1>1. ASSUME NEW t \in {"routing", "extension", "agent", "group", "member",
                        "outbound", "callerid", "inbound", "menu", "rule"},
             fk = Ref(t, "tenant", "tenant", "id", "CASCADE")
      PROVE  SetsNull(fk)
  BY <1>1 DEF Ref, SetsNull
<1>2. CASE fk = Ref("agent", "extension", "extension", "ext", "RESTRICT")
  BY <1>2 DEF Ref, SetsNull
<1>3. CASE fk = Ref("agent", "group", "group", "id", "SET NULL")
  BY <1>3 DEF Ref, SetsNull
<1>4. CASE fk = Ref("agent", "portalUser", "user", "id", "SET NULL")
  BY <1>4 DEF Ref, SetsNull
<1>5. CASE fk = Ref("agent", "parent", "agent", "id", "SET NULL")
  BY <1>5 DEF Ref, SetsNull
<1>6. CASE fk = Ref("group", "owner", "agent", "id", "SET NULL")
  BY <1>6 DEF Ref, SetsNull
<1>7. CASE fk = Ref("user", "role", "role", "id", "RESTRICT")
  BY <1>7 DEF Ref, SetsNull
<1>8. CASE fk = Ref("member", "user", "user", "id", "CASCADE")
  BY <1>8 DEF Ref, SetsNull
<1>9. CASE fk = Ref("outbound", "gateway", "gateway", "id", "SET NULL")
  BY <1>9 DEF Ref, SetsNull
<1>10. CASE fk = Ref("callerid", "gateway", "gateway", "id", "SET NULL")
  BY <1>10 DEF Ref, SetsNull
<1> QED BY Schema, <1>1, <1>2, <1>3, <1>4, <1>5, <1>6, <1>7, <1>8, <1>9, <1>10

LEMMA SameFewer ==
  ASSUME NEW d, NEW e, TableNames \subseteq DOMAIN e, e.agent = d.agent, e.group = d.group,
         e.extension = d.extension, e.inbound = d.inbound
  PROVE  Fewer(d, e)
  BY DEF Fewer, Less

LEMMA InsertKeeps ==
  ASSUME NEW s, NEW U, NEW c, NEW d, NEW wr, Rowed(s, U, d), Fits(s, c, wr), wr.kind = "insert",
         NEW e, e = Effect(d, wr), Admitted(d, wr)
  PROVE  Rowed(s, U, e) /\ Fewer(d, e)
<1>1. wr.table = "member" /\ TableNames \subseteq DOMAIN d
  BY DEF Fits, Rowed
<1>2. DOMAIN e = DOMAIN d /\ \A t \in DOMAIN d \ {wr.table} : e[t] = d[t]
  BY InsertEffect
<1>3. /\ TableNames \subseteq DOMAIN e /\ e.agent = d.agent /\ e.group = d.group
      /\ e.extension = d.extension /\ e.user = d.user /\ e.tenant = d.tenant /\ e.inbound = d.inbound
  BY <1>1, <1>2 DEF TableNames
<1>4. Fewer(d, e)
  BY <1>3, SameFewer
<1>5. Linked(e)
  BY References DEF Admitted
<1>6. Nil \notin DOMAIN e.user \cup DOMAIN e.tenant /\ \A x \in DOMAIN e.extension : x[1] \in DOMAIN e.tenant
  BY <1>3 DEF Rowed
<1>7. \A t \in DOMAIN e.tenant : Bounded(e.tenant[t])
  BY <1>3 DEF Rowed
<1> QED BY <1>4, <1>5, <1>6, <1>7, FewerKeeps

LEMMA UpdateKeeps ==
  ASSUME NEW s, NEW U, NEW c, NEW d, NEW wr, Rowed(s, U, d), Fits(s, c, wr), wr.kind = "update",
         NEW e, e = Effect(d, wr), Admitted(d, wr)
  PROVE  Rowed(s, U, e) /\ Fewer(d, e) /\ (\A a \in DOMAIN e.agent : e.agent[a].portalUser = d.agent[a].portalUser)
         /\ e.extension = d.extension /\ DOMAIN e.agent = DOMAIN d.agent
<1>1. /\ wr.table \in {"user", "role", "menu", "rule", "agent"} /\ TableNames \subseteq DOMAIN d
      /\ wr.table = "agent" => wr.set = [extension |-> Nil]
  BY DEF Fits, Rowed
<1>2. /\ DOMAIN e = DOMAIN d
      /\ \A t \in DOMAIN d \ {wr.table} : e[t] = d[t]
      /\ DOMAIN e[wr.table] = DOMAIN d[wr.table]
      /\ \A i \in DOMAIN d[wr.table] : e[wr.table][i] \in { Over(wr.set, d[wr.table][i]), d[wr.table][i] }
  BY <1>1, UpdateEffect DEF TableNames
<1>3. /\ TableNames \subseteq DOMAIN e /\ e.group = d.group
      /\ e.extension = d.extension /\ DOMAIN e.user = DOMAIN d.user /\ e.tenant = d.tenant
      /\ DOMAIN e.agent = DOMAIN d.agent /\ e.inbound = d.inbound
  BY <1>1, <1>2 DEF TableNames
<1>4. ASSUME NEW a \in DOMAIN e.agent
      PROVE  /\ Less(e.agent[a], d.agent[a], {"group", "parent", "extension"})
             /\ e.agent[a].portalUser = d.agent[a].portalUser
  <2>1. DOMAIN d.agent[a] = AgentColumns
    BY <1>3 DEF Rowed, Homes, AgentAtHome
  <2>2. CASE e.agent[a] = d.agent[a]
    BY <2>2 DEF Less
  <2>3. CASE wr.table = "agent" /\ e.agent[a] = Over([extension |-> Nil], d.agent[a])
    <3> DEFINE row == Over([extension |-> Nil], d.agent[a])
    <3>1. /\ DOMAIN row = {"extension"} \cup AgentColumns
          /\ row.extension = Nil /\ \A k \in AgentColumns \ {"extension"} : row[k] = d.agent[a][k]
      BY <2>1 DEF Over
    <3> HIDE DEF row
    <3>2. DOMAIN row = DOMAIN d.agent[a] /\ row.tenant = d.agent[a].tenant /\ row.group = d.agent[a].group
          /\ row.parent = d.agent[a].parent /\ row.portalUser = d.agent[a].portalUser
      BY <2>1, <3>1 DEF AgentColumns
    <3>3. e.agent[a] = row
      BY <2>3 DEF row
    <3> QED BY <3>1, <3>2, <3>3 DEF Less
  <2>4. e.agent[a] = d.agent[a] \/ (wr.table = "agent" /\ e.agent[a] = Over([extension |-> Nil], d.agent[a]))
    BY <1>1, <1>2, <1>3 DEF TableNames
  <2> QED BY <2>2, <2>3, <2>4
<1>5. Fewer(d, e)
  BY <1>3, <1>4 DEF Fewer, Less
<1>6. Linked(e)
  BY References DEF Admitted
<1>7. Nil \notin DOMAIN e.user \cup DOMAIN e.tenant /\ \A x \in DOMAIN e.extension : x[1] \in DOMAIN e.tenant
  BY <1>3 DEF Rowed
<1>8. \A t \in DOMAIN e.tenant : Bounded(e.tenant[t])
  BY <1>3 DEF Rowed
<1>9. Rowed(s, U, e)
  BY <1>5, <1>6, <1>7, <1>8, FewerKeeps
<1> QED BY <1>3, <1>4, <1>5, <1>9

Relinked(d, e, u, linked) ==
    /\ DOMAIN e.agent = DOMAIN d.agent /\ e.extension = d.extension
    /\ \A a \in DOMAIN d.agent : /\ e.agent[a].extension = d.agent[a].extension
                                 /\ e.agent[a].parent = d.agent[a].parent
                                 /\ e.agent[a].portalUser = IF a \in linked THEN u
                                         ELSE IF d.agent[a].portalUser = u THEN Nil
                                         ELSE d.agent[a].portalUser

LEMMA AccountKeeps ==
  ASSUME NEW s, NEW U, NEW c, NEW d, NEW wr, Rowed(s, U, d), Fits(s, c, wr), wr.kind = "account",
         NEW e, e = Effect(d, wr), Admitted(d, wr)
  PROVE  Rowed(s, U, e) /\ Fewer(d, e) /\ Relinked(d, e, wr.id, wr.row.agents)
<1>1. TableNames \subseteq DOMAIN d /\ wr.id # Nil /\ {"user", "agent"} \subseteq DOMAIN d
  BY DEF Fits, Rowed, TableNames
<1>2. /\ DOMAIN e = DOMAIN d
      /\ \A t \in DOMAIN d \ {"user", "agent"} : e[t] = d[t]
      /\ DOMAIN e.user = DOMAIN d.user \cup {wr.id}
      /\ DOMAIN e.agent = DOMAIN d.agent
      /\ \A a \in DOMAIN d.agent :
           /\ DOMAIN e.agent[a] = DOMAIN d.agent[a]
           /\ \A k \in DOMAIN d.agent[a] \ {"portalUser"} : e.agent[a][k] = d.agent[a][k]
      /\ \A a \in DOMAIN d.agent : "portalUser" \in DOMAIN d.agent[a] =>
              e.agent[a].portalUser = IF a \in wr.row.agents THEN wr.id
                                      ELSE IF d.agent[a].portalUser = wr.id THEN Nil
                                      ELSE d.agent[a].portalUser
  BY <1>1, AccountEffect
<1>3. /\ TableNames \subseteq DOMAIN e /\ e.group = d.group /\ e.extension = d.extension /\ e.tenant = d.tenant
      /\ e.inbound = d.inbound
  BY <1>1, <1>2 DEF TableNames
<1>4. \A a \in DOMAIN d.agent : DOMAIN d.agent[a] = AgentColumns
  BY DEF Rowed, Homes, AgentAtHome
<1>5. \A a \in DOMAIN d.agent : Less(e.agent[a], d.agent[a], {"group", "parent", "extension"})
  BY <1>2, <1>4 DEF Less, AgentColumns
<1>6. Fewer(d, e)
  BY <1>2, <1>3, <1>5 DEF Fewer, Less
<1>7. Linked(e)
  BY References DEF Admitted
<1>8. Nil \notin DOMAIN e.user \cup DOMAIN e.tenant /\ \A x \in DOMAIN e.extension : x[1] \in DOMAIN e.tenant
  BY <1>1, <1>2, <1>3 DEF Rowed
<1>9. \A t \in DOMAIN e.tenant : Bounded(e.tenant[t])
  BY <1>3 DEF Rowed
<1>10. Rowed(s, U, e)
  BY <1>6, <1>7, <1>8, <1>9, FewerKeeps
<1>11. ASSUME NEW a \in DOMAIN d.agent
       PROVE  /\ e.agent[a].extension = d.agent[a].extension /\ e.agent[a].parent = d.agent[a].parent
              /\ e.agent[a].portalUser = IF a \in wr.row.agents THEN wr.id
                                         ELSE IF d.agent[a].portalUser = wr.id THEN Nil
                                         ELSE d.agent[a].portalUser
  BY <1>2, <1>4 DEF AgentColumns
<1>12. Relinked(d, e, wr.id, wr.row.agents)
  BY <1>2, <1>3, <1>11 DEF Relinked
<1> QED BY <1>6, <1>10, <1>12

(* A delete lets go of the references to what goes, and takes no agent's    *)
(* extension.                                                               *)
LEMMA DeleteKeeps ==
  ASSUME NEW s, NEW U, NEW c, NEW d, NEW wr, Rowed(s, U, d), Fits(s, c, wr), wr.kind = "delete",
         NEW e, e = Effect(d, wr), Admitted(d, wr)
  PROVE  Rowed(s, U, e) /\ Fewer(d, e)
         /\ \A a \in DOMAIN e.agent :
              /\ e.agent[a].portalUser \in {d.agent[a].portalUser, Nil}
              /\ <<d.agent[a].tenant, d.agent[a].extension>> \in DOMAIN d.extension
                 => <<d.agent[a].tenant, d.agent[a].extension>> \in DOMAIN e.extension
<1> DEFINE gone == Gone(d, wr.table, wr.ids)
<1>1. TableNames \subseteq DOMAIN d /\ wr.table \in TableNames /\ ~Restricted(d, gone)
  BY DEF Fits, Rowed, Admitted
<1>2. /\ DOMAIN e = TableNames
      /\ \A t \in TableNames : e[t] = [i \in DOMAIN d[t] \ gone[t] |-> Released(d, gone, t, d[t][i])]
  BY DeleteEffect
<1>g. \A t \in TableNames :
        gone[t] = (IF t = wr.table THEN wr.ids \cap DOMAIN d[wr.table] ELSE {})
                  \cup { i \in DOMAIN d[t] : \E fk \in ForeignKeys :
                           /\ fk.from = t /\ fk.to = wr.table /\ fk.rule = "CASCADE"
                           /\ d[t][i][fk.col] \in wr.ids }
  BY DEF Gone
<1>h. gone["tenant"] = (IF "tenant" = wr.table THEN wr.ids \cap DOMAIN d[wr.table] ELSE {})
                  \cup { i \in DOMAIN d["tenant"] : \E fk \in ForeignKeys :
                           /\ fk.from = "tenant" /\ fk.to = wr.table /\ fk.rule = "CASCADE"
                           /\ d["tenant"][i][fk.col] \in wr.ids }
  BY DEF Gone, TableNames
<1> HIDE DEF gone
<1>n. {"agent", "group", "extension", "user", "tenant", "inbound"} \subseteq TableNames
  BY DEF TableNames
<1>t. ASSUME NEW t \in TableNames
      PROVE  DOMAIN e[t] = DOMAIN d[t] \ gone[t]
  BY <1>2
<1>d. /\ DOMAIN e.agent = DOMAIN d.agent \ gone.agent /\ DOMAIN e.group = DOMAIN d.group \ gone.group
      /\ DOMAIN e.extension = DOMAIN d.extension \ gone.extension
      /\ DOMAIN e.user = DOMAIN d.user \ gone.user /\ DOMAIN e.tenant = DOMAIN d.tenant \ gone.tenant
      /\ DOMAIN e.inbound = DOMAIN d.inbound \ gone.inbound
  BY <1>t, <1>n
<1>r. ASSUME NEW t \in TableNames, NEW i \in DOMAIN e[t]
      PROVE  /\ DOMAIN e[t][i] = DOMAIN d[t][i]
             /\ \A k \in DOMAIN d[t][i] :
                  /\ e[t][i][k] \in {d[t][i][k], Nil}
                  /\ (\A fk \in ForeignKeys : ~(fk.from = t /\ fk.col = k /\ fk.rule = "SET NULL"))
                     => e[t][i][k] = d[t][i][k]
                  /\ \A fk \in ForeignKeys : fk.from = t /\ fk.col = k /\ fk.rule = "SET NULL" /\ d[t][i][k] \in gone[fk.to]
                     => e[t][i][k] = Nil
  <2>1. e[t][i] = Released(d, gone, t, d[t][i])
    BY <1>2, <1>t
  <2>2. Loosened(gone, t, d[t][i], Released(d, gone, t, d[t][i]))
    BY ReleasedColumns
  <2> QED BY <2>1, <2>2 DEF Loosened
<1>k. /\ Ref("agent", "group", "group", "id", "SET NULL") \in ForeignKeys
      /\ Ref("agent", "parent", "agent", "id", "SET NULL") \in ForeignKeys
      /\ Ref("group", "owner", "agent", "id", "SET NULL") \in ForeignKeys
      /\ Ref("extension", "tenant", "tenant", "id", "CASCADE") \in ForeignKeys
      /\ Ref("agent", "extension", "extension", "ext", "RESTRICT") \in ForeignKeys
  BY DEF ForeignKeys, AgentRefs, GroupRefs, TenantRefs
<1>s. \A fk \in ForeignKeys :
        /\ fk.from # "tenant"
        /\ fk.rule = "SET NULL" => \/ fk.from = "agent" /\ fk.col \in {"group", "portalUser", "parent"}
                                   \/ fk.from = "group" /\ fk.col = "owner"
                                   \/ fk.from \in {"outbound", "callerid"}
  BY SchemaRules DEF SetsNull
<1>3. /\ \A a \in DOMAIN d.agent : DOMAIN d.agent[a] = AgentColumns
      /\ \A g \in DOMAIN d.group : DOMAIN d.group[g] = GroupColumns
      /\ \A x \in DOMAIN d.extension : Placed(x, d.extension[x])
  BY DEF Rowed, Homes, AgentAtHome, GroupAtHome
<1>4. ASSUME NEW a \in DOMAIN e.agent
      PROVE  /\ a \in DOMAIN d.agent /\ a \notin gone.agent
             /\ DOMAIN e.agent[a] = DOMAIN d.agent[a] /\ e.agent[a].tenant = d.agent[a].tenant
             /\ e.agent[a].extension = d.agent[a].extension
             /\ e.agent[a].portalUser \in {d.agent[a].portalUser, Nil}
             /\ (e.agent[a].group = d.agent[a].group /\ d.agent[a].group \notin gone.group) \/ e.agent[a].group = Nil
             /\ (e.agent[a].parent = d.agent[a].parent /\ d.agent[a].parent \notin gone.agent) \/ e.agent[a].parent = Nil
  <2>1. a \in DOMAIN d.agent /\ a \notin gone.agent /\ DOMAIN d.agent[a] = AgentColumns
    BY <1>d, <1>3
  <2>2. /\ DOMAIN e.agent[a] = AgentColumns
        /\ \A k \in AgentColumns :
              /\ e.agent[a][k] \in {d.agent[a][k], Nil}
              /\ (\A fk \in ForeignKeys : ~(fk.from = "agent" /\ fk.col = k /\ fk.rule = "SET NULL"))
                 => e.agent[a][k] = d.agent[a][k]
              /\ \A fk \in ForeignKeys : fk.from = "agent" /\ fk.col = k /\ fk.rule = "SET NULL" /\ d.agent[a][k] \in gone[fk.to]
                 => e.agent[a][k] = Nil
    BY <1>n, <1>r, <2>1
  <2>3. e.agent[a].tenant = d.agent[a].tenant /\ e.agent[a].extension = d.agent[a].extension
    BY <2>2, <1>s DEF AgentColumns
  <2>4. e.agent[a].portalUser \in {d.agent[a].portalUser, Nil}
    BY <2>2 DEF AgentColumns
  <2>5. (e.agent[a].group = d.agent[a].group /\ d.agent[a].group \notin gone.group) \/ e.agent[a].group = Nil
    BY <2>2, <1>k DEF AgentColumns, Ref
  <2>6. (e.agent[a].parent = d.agent[a].parent /\ d.agent[a].parent \notin gone.agent) \/ e.agent[a].parent = Nil
    BY <2>2, <1>k DEF AgentColumns, Ref
  <2> QED BY <2>1, <2>2, <2>3, <2>4, <2>5, <2>6
<1>5. ASSUME NEW g \in DOMAIN e.group
      PROVE  /\ g \in DOMAIN d.group
             /\ DOMAIN e.group[g] = DOMAIN d.group[g] /\ e.group[g].tenant = d.group[g].tenant
             /\ (e.group[g].owner = d.group[g].owner /\ d.group[g].owner \notin gone.agent) \/ e.group[g].owner = Nil
  <2>1. g \in DOMAIN d.group /\ DOMAIN d.group[g] = GroupColumns
    BY <1>d, <1>3
  <2>2. /\ DOMAIN e.group[g] = GroupColumns
        /\ \A k \in GroupColumns :
              /\ e.group[g][k] \in {d.group[g][k], Nil}
              /\ (\A fk \in ForeignKeys : ~(fk.from = "group" /\ fk.col = k /\ fk.rule = "SET NULL"))
                 => e.group[g][k] = d.group[g][k]
              /\ \A fk \in ForeignKeys : fk.from = "group" /\ fk.col = k /\ fk.rule = "SET NULL" /\ d.group[g][k] \in gone[fk.to]
                 => e.group[g][k] = Nil
    BY <1>n, <1>r, <2>1
  <2>3. e.group[g].tenant = d.group[g].tenant
    BY <2>2, <1>s DEF GroupColumns
  <2>4. (e.group[g].owner = d.group[g].owner /\ d.group[g].owner \notin gone.agent) \/ e.group[g].owner = Nil
    BY <2>2, <1>k DEF GroupColumns, Ref
  <2> QED BY <2>1, <2>2, <2>3, <2>4
<1>6. ASSUME NEW x \in DOMAIN e.extension
      PROVE  /\ x \in DOMAIN d.extension /\ x \notin gone.extension /\ DOMAIN e.extension[x] = DOMAIN d.extension[x]
             /\ e.extension[x].tenant = d.extension[x].tenant /\ e.extension[x].ext = d.extension[x].ext
  <2>1. x \in DOMAIN d.extension /\ x \notin gone.extension
    BY <1>d
  <2>2. /\ DOMAIN e.extension[x] = DOMAIN d.extension[x]
        /\ \A k \in DOMAIN d.extension[x] :
              (\A fk \in ForeignKeys : ~(fk.from = "extension" /\ fk.col = k /\ fk.rule = "SET NULL"))
                 => e.extension[x][k] = d.extension[x][k]
    BY <1>n, <1>r
  <2> QED BY <1>3, <1>s, <2>1, <2>2 DEF Placed
<1>7. ASSUME NEW x \in DOMAIN e.extension PROVE x[1] \in DOMAIN e.tenant
  <2>1. x[1] \in DOMAIN d.tenant /\ d.extension[x].tenant = x[1]
    BY <1>6 DEF Rowed, Placed
  <2>2. SUFFICES ASSUME x[1] \in gone.tenant PROVE FALSE
    BY <1>d, <2>1
  <2>3. wr.table = "tenant" /\ x[1] \in wr.ids
    BY <1>h, <1>s, <2>2
  <2> DEFINE fk == Ref("extension", "tenant", "tenant", "id", "CASCADE")
  <2>5. fk \in ForeignKeys /\ fk.from = "extension" /\ fk.to = "tenant" /\ fk.rule = "CASCADE" /\ fk.col = "tenant"
    BY <1>k DEF Ref
  <2> HIDE DEF fk
  <2>6. x \in DOMAIN d.extension /\ d.extension[x][fk.col] \in wr.ids
    BY <1>6, <2>1, <2>3, <2>5
  <2>4. x \in gone.extension
    BY <1>g, <1>n, <2>3, <2>5, <2>6
  <2> QED BY <1>6, <2>4
<1>8. ASSUME NEW t \in DOMAIN e.tenant
      PROVE  e.tenant[t].limit = d.tenant[t].limit /\ Bounded(e.tenant[t])
  <2>1. t \in DOMAIN d.tenant
    BY <1>d
  <2>2. Bounded(d.tenant[t])
    BY <2>1 DEF Rowed
  <2>3. /\ DOMAIN e.tenant[t] = DOMAIN d.tenant[t]
        /\ \A k \in DOMAIN d.tenant[t] :
              (\A fk \in ForeignKeys : ~(fk.from = "tenant" /\ fk.col = k /\ fk.rule = "SET NULL"))
                 => e.tenant[t][k] = d.tenant[t][k]
    BY <1>n, <1>r
  <2> QED BY <1>s, <2>2, <2>3 DEF Bounded
<1>14. ASSUME NEW i \in DOMAIN e.inbound
       PROVE  /\ i \in DOMAIN d.inbound /\ DOMAIN e.inbound[i] = DOMAIN d.inbound[i]
              /\ \A k \in InboundColumns : e.inbound[i][k] = d.inbound[i][k]
  <2>1. i \in DOMAIN d.inbound /\ InboundColumns \subseteq DOMAIN d.inbound[i]
    BY <1>d DEF Rowed
  <2>2. /\ DOMAIN e.inbound[i] = DOMAIN d.inbound[i]
        /\ \A k \in DOMAIN d.inbound[i] :
              (\A fk \in ForeignKeys : ~(fk.from = "inbound" /\ fk.col = k /\ fk.rule = "SET NULL"))
                 => e.inbound[i][k] = d.inbound[i][k]
    BY <1>n, <1>r
  <2> QED BY <1>s, <2>1, <2>2
<1>9. Linked(e)
  BY <1>d, <1>4, <1>5 DEF Linked, Rowed
<1>10. Fewer(d, e)
  BY <1>2, <1>4, <1>5, <1>6, <1>14, <1>n DEF Fewer, Less
<1>11. Nil \notin DOMAIN e.user \cup DOMAIN e.tenant
  BY <1>d DEF Rowed
<1>12. Rowed(s, U, e)
  BY <1>7, <1>8, <1>9, <1>10, <1>11, FewerKeeps
<1>13. ASSUME NEW a \in DOMAIN e.agent,
              <<d.agent[a].tenant, d.agent[a].extension>> \in DOMAIN d.extension
       PROVE  <<d.agent[a].tenant, d.agent[a].extension>> \in DOMAIN e.extension
  <2> DEFINE x == <<d.agent[a].tenant, d.agent[a].extension>>
  <2>1. d.extension[x].ext = d.agent[a].extension
    BY <1>3, <1>13 DEF Placed
  <2>2. SUFFICES ASSUME x \in gone.extension PROVE FALSE
    BY <1>d, <1>13
  <2>3. a \in DOMAIN d.agent \ gone.agent
    BY <1>4
  <2> HIDE DEF x
  <2> QED BY <1>1, <1>k, <2>1, <2>2, <2>3 DEF Restricted, Ref
<1> QED BY <1>4, <1>10, <1>12, <1>13

-----------------------------------------------------------------------------
(* A plain statement keeps what the checks are for.                         *)
LEMMA SoundFewer ==
  ASSUME NEW d, NEW e, Sound(d), Nil \notin DOMAIN d.agent, Fewer(d, e),
         \A a \in DOMAIN e.agent :
           /\ e.agent[a].portalUser \in {d.agent[a].portalUser, Nil}
           /\ <<d.agent[a].tenant, d.agent[a].extension>> \in DOMAIN d.extension
              => <<d.agent[a].tenant, d.agent[a].extension>> \in DOMAIN e.extension
  PROVE  Sound(e)
<1>1. ASSUME NEW a \in DOMAIN e.agent
      PROVE  /\ a \in DOMAIN d.agent /\ e.agent[a].tenant = d.agent[a].tenant
             /\ e.agent[a].parent \in {d.agent[a].parent, Nil}
             /\ e.agent[a].extension \in {d.agent[a].extension, Nil}
  <2>1. a \in DOMAIN d.agent /\ Less(e.agent[a], d.agent[a], {"group", "parent", "extension"})
    BY DEF Fewer
  <2> QED BY <2>1 DEF Less
<1>2. Rooted(e)
  BY <1>1, RootedFewer DEF Sound
<1>3. ASSUME NEW a \in DOMAIN e.agent, NEW b \in DOMAIN e.agent,
             e.agent[a].portalUser = e.agent[b].portalUser, e.agent[a].portalUser # Nil
      PROVE  a = b
  BY <1>1, <1>3 DEF Sound, Equipped
<1>4. ASSUME NEW a \in DOMAIN e.agent, e.agent[a].extension # Nil
      PROVE  <<e.agent[a].tenant, e.agent[a].extension>> \in DOMAIN e.extension
  <2>1. e.agent[a].extension = d.agent[a].extension /\ e.agent[a].tenant = d.agent[a].tenant /\ a \in DOMAIN d.agent
    BY <1>1, <1>4
  <2>2. <<d.agent[a].tenant, d.agent[a].extension>> \in DOMAIN d.extension
    BY <1>4, <2>1 DEF Sound, Equipped
  <2> QED BY <2>1, <2>2
<1> QED BY <1>2, <1>3, <1>4 DEF Sound, Equipped

LEMMA SoundAccount ==
  ASSUME NEW d, NEW e, NEW u, NEW linked, Sound(d), Nil \notin DOMAIN d.agent, Fewer(d, e),
         Relinked(d, e, u, linked),
         \A a, b \in linked : a = b
  PROVE  Sound(e)
<1>0. /\ DOMAIN e.agent = DOMAIN d.agent /\ e.extension = d.extension
      /\ \A a \in DOMAIN d.agent : /\ e.agent[a].extension = d.agent[a].extension
                                   /\ e.agent[a].parent = d.agent[a].parent
                                   /\ e.agent[a].portalUser = IF a \in linked THEN u
                                           ELSE IF d.agent[a].portalUser = u THEN Nil
                                           ELSE d.agent[a].portalUser
  BY DEF Relinked
<1>1. \A a \in DOMAIN e.agent : e.agent[a].tenant = d.agent[a].tenant
  BY DEF Fewer, Less
<1>2. Rooted(e)
  BY <1>0 DEF Sound, Rooted
<1>3. ASSUME NEW a \in DOMAIN e.agent, NEW b \in DOMAIN e.agent,
             e.agent[a].portalUser = e.agent[b].portalUser, e.agent[a].portalUser # Nil
      PROVE  a = b
  <2>1. CASE a \in linked
    BY <1>0, <1>3, <2>1
  <2>2. CASE b \in linked
    BY <1>0, <1>3, <2>2
  <2>3. CASE a \notin linked /\ b \notin linked
    BY <1>0, <1>3, <2>3 DEF Sound, Equipped
  <2> QED BY <2>1, <2>2, <2>3
<1>4. ASSUME NEW a \in DOMAIN e.agent, e.agent[a].extension # Nil
      PROVE  <<e.agent[a].tenant, e.agent[a].extension>> \in DOMAIN e.extension
  <2>1. e.agent[a].extension = d.agent[a].extension /\ e.agent[a].tenant = d.agent[a].tenant /\ a \in DOMAIN d.agent
    BY <1>0, <1>1, <1>4
  <2>2. <<d.agent[a].tenant, d.agent[a].extension>> \in DOMAIN d.extension
    BY <1>4, <2>1 DEF Sound, Equipped
  <2> QED BY <1>0, <2>1, <2>2
<1> QED BY <1>2, <1>3, <1>4 DEF Sound, Equipped

(* Neither an extension nor a route is made, nor another number or           *)
(* destination given to a route.                                             *)
Kept(d, e) ==
    /\ DOMAIN e.extension \subseteq DOMAIN d.extension /\ DOMAIN e.inbound \subseteq DOMAIN d.inbound
    /\ \A i \in DOMAIN e.inbound :
         /\ e.inbound[i].did = d.inbound[i].did /\ e.inbound[i].type = d.inbound[i].type
         /\ e.inbound[i].value = d.inbound[i].value

LEMMA KeptFewer ==
  ASSUME NEW d, NEW e, Fewer(d, e)
  PROVE  Kept(d, e)
  BY DEF Fewer, InboundColumns, Kept

LEMMA KeptOn ==
  ASSUME NEW d, NEW e, NEW f, Kept(d, e), Kept(e, f)
  PROVE  Kept(d, f)
  BY DEF Kept

LEMMA RulesKept ==
  ASSUME NEW d, NEW e, Kept(d, e)
  PROVE  QuotaOf(d, e) /\ RoutesOf(d, e)
<1>1. QuotaOf(d, e)
  BY DEF Kept, QuotaOf
<1>2. RoutesOf(d, e)
  BY DEF Kept, RoutesOf
<1> QED BY <1>1, <1>2

LEMMA SteadyKeeps ==
  ASSUME NEW s, NEW U, NEW c, NEW d, NEW wr, Rowed(s, U, d), Steady(s, c, wr), c => Sound(d),
         NEW e, e = Effect(d, wr), Admitted(d, wr)
  PROVE  Rowed(s, U, e) /\ (c => Sound(e)) /\ Kept(d, e)
<1>0. Fits(s, c, wr) /\ ~Checked(wr) /\ Nil \notin DOMAIN d.agent /\ TableNames \subseteq DOMAIN d
  BY DEF Steady, Rowed
<1>1. CASE wr.kind = "save"
  <2>1. wr.table \in TableNames \ {"agent", "extension", "inbound"}
    BY <1>0, <1>1 DEF Fits, Checked
  <2>2. Rowed(s, U, e)
    BY <1>0, <1>1, <2>1, SaveKeeps
  <2>3. DOMAIN e = DOMAIN d /\ \A t \in DOMAIN d \ {wr.table} : e[t] = d[t]
    BY <1>0, <1>1, <2>1, SaveEffect
  <2>4. e.agent = d.agent /\ e.extension = d.extension /\ e.inbound = d.inbound
    BY <1>0, <2>1, <2>3 DEF TableNames
  <2>5. Sound(d) => Sound(e)
    BY <2>4 DEF Sound, Equipped, Rooted
  <2>6. Kept(d, e)
    BY <2>4 DEF Kept
  <2> QED BY <2>2, <2>5, <2>6
<1>2. CASE wr.kind = "account"
  <2>1. Rowed(s, U, e) /\ Fewer(d, e) /\ Relinked(d, e, wr.id, wr.row.agents)
    BY <1>0, <1>2, AccountKeeps
  <2>2. c => \A a, b \in wr.row.agents : a = b
    BY <1>0, <1>2 DEF Fits
  <2>3. c => Sound(e)
    BY <1>0, <2>1, <2>2, SoundAccount
  <2> QED BY <2>1, <2>3, KeptFewer
<1>3. CASE wr.kind = "insert"
  <2>1. Rowed(s, U, e) /\ Fewer(d, e)
    BY <1>0, <1>3, InsertKeeps
  <2>2. wr.table = "member"
    BY <1>0, <1>3 DEF Fits
  <2>3. DOMAIN e = DOMAIN d /\ \A t \in DOMAIN d \ {wr.table} : e[t] = d[t]
    BY <1>3, InsertEffect
  <2>4. e.agent = d.agent /\ e.extension = d.extension
    BY <1>0, <2>2, <2>3 DEF TableNames
  <2>5. Sound(d) => Sound(e)
    BY <2>4 DEF Sound, Equipped, Rooted
  <2> QED BY <2>1, <2>5, KeptFewer
<1>4. CASE wr.kind = "update"
  <2>1. Rowed(s, U, e) /\ Fewer(d, e) /\ (\A a \in DOMAIN e.agent : e.agent[a].portalUser = d.agent[a].portalUser)
        /\ e.extension = d.extension /\ DOMAIN e.agent = DOMAIN d.agent
    BY <1>0, <1>4, UpdateKeeps
  <2>2. c => Sound(e)
    BY <1>0, <2>1, SoundFewer
  <2> QED BY <2>1, <2>2, KeptFewer
<1>5. CASE wr.kind = "delete"
  <2>1. Rowed(s, U, e) /\ Fewer(d, e)
        /\ \A a \in DOMAIN e.agent :
              /\ e.agent[a].portalUser \in {d.agent[a].portalUser, Nil}
              /\ <<d.agent[a].tenant, d.agent[a].extension>> \in DOMAIN d.extension
                 => <<d.agent[a].tenant, d.agent[a].extension>> \in DOMAIN e.extension
    BY <1>0, <1>5, DeleteKeeps
  <2>2. c => Sound(e)
    BY <1>0, <2>1, SoundFewer
  <2> QED BY <2>1, <2>2, KeptFewer
<1> QED BY <1>0, <1>1, <1>2, <1>3, <1>4, <1>5 DEF Fits

-----------------------------------------------------------------------------
(* A transaction, statement by statement.                                   *)
LEMMA Least == ASSUME NEW S, S \subseteq Nat, S # {} PROVE \E x \in S : \A y \in S : x <= y
<1> DEFINE R == {ss \in Nat \X Nat : ss[1] < ss[2]}
<1>1. IsWellFoundedOn(R, Nat)
  BY NatLessThanWellFounded DEF OpToRel
<1> HIDE DEF R
<1>2. PICK x \in S : \A y \in S : ~ (<<y, x>> \in R)
  BY <1>1, WFMin
<1>3. ASSUME NEW y \in S PROVE x <= y
  <2>1. ~ (y < x)
    BY <1>2 DEF R
  <2> QED BY <2>1
<1> QED BY <1>3

LEMMA ResultSteps ==
  ASSUME NEW d, NEW tx, Len(tx.writes) \in Nat
  PROVE  /\ Result(d, tx)[0] = d
         /\ \A n \in 1..Len(tx.writes) : Result(d, tx)[n] = Effect(Result(d, tx)[n-1], tx.writes[n])
<1> DEFINE N == Len(tx.writes)
           runs(f, m) == f = [n \in 0..m |-> IF n = 0 THEN d ELSE Effect(f[n-1], tx.writes[n])]
           K == { m \in 0..N : ~ \E f : runs(f, m) }
<1>1. Result(d, tx) = CHOOSE f : runs(f, N)
  BY DEF Result
<1>2. \E f : runs(f, 0)
  <2>1. runs([n \in 0..0 |-> d], 0)
    OBVIOUS
  <2> HIDE DEF runs
  <2> QED BY <2>1
<1>3. ASSUME NEW m \in 1..N, NEW f, runs(f, m-1)
      PROVE  \E g : runs(g, m)
  <2> DEFINE g == [n \in 0..m |-> IF n = m THEN Effect(f[m-1], tx.writes[m]) ELSE f[n]]
  <2>1. ASSUME NEW n \in 0..m
        PROVE  g[n] = IF n = 0 THEN d ELSE Effect(g[n-1], tx.writes[n])
    <3>1. CASE n = m
      BY <3>1
    <3>2. CASE n # m
      <4>1. n \in 0..m-1 /\ (n # 0 => n-1 \in 0..m /\ n-1 # m)
        BY <3>2
      <4>2. f[n] = IF n = 0 THEN d ELSE Effect(f[n-1], tx.writes[n])
        BY <1>3, <4>1
      <4>3. g[n] = f[n] /\ (n # 0 => g[n-1] = f[n-1])
        BY <3>2, <4>1
      <4> HIDE DEF g
      <4> QED BY <4>2, <4>3
    <3> QED BY <3>1, <3>2
  <2>2. runs(g, m)
    <3>1. DOMAIN g = 0..m /\ g = [n \in 0..m |-> g[n]]
      OBVIOUS
    <3> HIDE DEF g
    <3> QED BY <2>1, <3>1
  <2> HIDE DEF runs, g
  <2> QED BY <2>2
<1>4. \E f : runs(f, N)
  <2> HIDE DEF runs
  <2> SUFFICES ASSUME ~ \E f : runs(f, N) PROVE FALSE
    OBVIOUS
  <2>1. N \in K /\ K \subseteq Nat
    OBVIOUS
  <2>2. PICK m \in K : \A k \in K : m <= k
    <3> HIDE DEF K
    <3> QED BY <2>1, Least
  <2>3. m \in 1..N /\ m-1 \in 0..N /\ m-1 < m
    BY <1>2, <2>2
  <2>4. m-1 \notin K
    <3>1. ~ (m <= m-1)
      BY <2>3
    <3> HIDE DEF K
    <3> QED BY <2>2, <3>1
  <2>5. PICK f : runs(f, m-1)
    BY <2>3, <2>4
  <2> QED BY <1>3, <2>2, <2>3, <2>5
<1>5. runs(Result(d, tx), N)
  <2> HIDE DEF runs
  <2> QED BY <1>1, <1>4
<1> QED BY <1>5

(* A transaction of steady statements.                                      *)
LEMMA SteadyCommits ==
  ASSUME NEW s, NEW U, NEW c, NEW d, NEW tx, IsSeq(tx.writes),
         \A i \in DOMAIN tx.writes : Steady(s, c, tx.writes[i]),
         Commits(d, tx), Rowed(s, U, d), c => Sound(d), NEW e, e = Result(d, tx)[Len(tx.writes)]
  PROVE  Rowed(s, U, e) /\ (c => Sound(e)) /\ Kept(d, e)
<1> DEFINE N == Len(tx.writes)
           at(n) == Result(d, tx)[n]
           good(n) == Rowed(s, U, at(n)) /\ (c => Sound(at(n))) /\ Kept(d, at(n))
           K == { n \in 0..N : ~good(n) }
<1>1. N \in Nat /\ DOMAIN tx.writes = 1..N
  BY DEF IsSeq
<1>2. at(0) = d /\ \A n \in 1..N : at(n) = Effect(at(n-1), tx.writes[n])
  BY <1>1, ResultSteps
<1>3. good(0)
  BY <1>2 DEF Kept
<1>4. ASSUME NEW n \in 1..N, good(n-1)
      PROVE  good(n)
  <2>1. Steady(s, c, tx.writes[n]) /\ Admitted(at(n-1), tx.writes[n]) /\ at(n) = Effect(at(n-1), tx.writes[n])
    BY <1>1, <1>2 DEF Commits
  <2> DEFINE p == at(n-1)
             q == at(n)
             wr == tx.writes[n]
  <2>2. Rowed(s, U, p) /\ (c => Sound(p)) /\ Kept(d, p)
    BY <1>4
  <2>3. Steady(s, c, wr) /\ Admitted(p, wr) /\ q = Effect(p, wr)
    BY <2>1
  <2>h. Rowed(s, U, q) /\ (c => Sound(q)) /\ Kept(d, q) => good(n)
    OBVIOUS
  <2> HIDE DEF p, q, wr, good, at
  <2>4. Rowed(s, U, q) /\ (c => Sound(q)) /\ Kept(p, q)
    BY <2>2, <2>3, SteadyKeeps
  <2>5. Kept(d, q)
    BY <2>2, <2>4, KeptOn
  <2> QED BY <2>4, <2>5, <2>h
<1>5. good(N)
  <2> SUFFICES ASSUME ~good(N) PROVE FALSE
    OBVIOUS
  <2> HIDE DEF good, at, N
  <2>1. N \in K /\ K \subseteq Nat
    BY <1>1
  <2>2. PICK n \in K : \A m \in K : n <= m
    <3> HIDE DEF K
    <3> QED BY <2>1, Least
  <2>3. n \in 1..N
    BY <1>1, <1>3, <2>2
  <2>4. n-1 \notin K
    <3> HIDE DEF K
    <3> QED BY <1>1, <2>2, <2>3
  <2>5. good(n-1)
    BY <1>1, <2>3, <2>4
  <2> QED BY <1>4, <2>2, <2>3, <2>5
<1> QED BY <1>5

LEMMA OneCommits ==
  ASSUME NEW d, NEW wr, Commits(d, Tx(<<wr>>))
  PROVE  /\ Admitted(d, wr)
         /\ Result(d, Tx(<<wr>>))[Len(Tx(<<wr>>).writes)] = Effect(d, wr)
<1> DEFINE tx == Tx(<<wr>>)
<1>1. tx.writes = <<wr>> /\ Len(tx.writes) = 1 /\ tx.writes[1] = wr
  BY DEF Tx
<1>2. /\ Result(d, tx)[0] = d
      /\ \A n \in 1..Len(tx.writes) : Result(d, tx)[n] = Effect(Result(d, tx)[n-1], tx.writes[n])
  <2>1. Len(tx.writes) \in Nat
    BY <1>1
  <2> HIDE DEF tx
  <2> QED BY <2>1, ResultSteps
<1>3. \A n \in 1..Len(tx.writes) : Admitted(Result(d, tx)[n-1], tx.writes[n])
  BY DEF Commits
<1> HIDE DEF tx
<1> QED BY <1>1, <1>2, <1>3 DEF tx

-----------------------------------------------------------------------------
(* What is left to do, piece by piece.                                      *)
LEMMA SeqOf ==
  ASSUME NEW S, NEW t \in Seq(S)
  PROVE  /\ IsSeq(t) /\ Len(t) \in Nat /\ DOMAIN t = 1..Len(t)
         /\ \A i \in DOMAIN t : t[i] \in S
<1>1. Len(t) \in Nat /\ DOMAIN t = 1..Len(t) /\ \A i \in 1..Len(t) : t[i] \in S
  OBVIOUS
<1>2. t = [i \in 1..Len(t) |-> t[i]]
  OBVIOUS
<1>3. \A T : \A n \in Nat : \A f \in [1..n -> T] : f \in Seq(T)
  OBVIOUS
<1>4. t \in [1..Len(t) -> { t[i] : i \in DOMAIN t }]
  BY <1>1, <1>2
<1>5. IsSeq(t)
  BY <1>1, <1>3, <1>4 DEF IsSeq
<1> QED BY <1>1, <1>5

Parts(t, u, v) ==
    /\ IsSeq(v)
    /\ \A i \in DOMAIN v : (\E j \in DOMAIN t : v[i] = t[j]) \/ (\E j \in DOMAIN u : v[i] = u[j])

LEMMA JoinedSeq ==
  ASSUME NEW t, NEW u, IsSeq(t), IsSeq(u), NEW v, v = t \o u
  PROVE  Parts(t, u, v)
<1> DEFINE S == { t[i] : i \in DOMAIN t } \cup { u[i] : i \in DOMAIN u }
<1>1. t \in Seq(S) /\ u \in Seq(S)
  <2>1. t \in Seq({ t[i] : i \in DOMAIN t }) /\ u \in Seq({ u[i] : i \in DOMAIN u })
    BY DEF IsSeq
  <2>2. \A A, B : A \subseteq B => Seq(A) \subseteq Seq(B)
    OBVIOUS
  <2> QED BY <2>1, <2>2
<1>2. v \in Seq(S)
  <2> HIDE DEF S
  <2> QED BY <1>1
<1>3. \A i \in DOMAIN v : v[i] \in S
  <2> HIDE DEF S
  <2> QED BY <1>2, SeqOf
<1>4. IsSeq(v)
  <2> HIDE DEF S
  <2> QED BY <1>2, SeqOf
<1> QED BY <1>3, <1>4 DEF Parts

LEMMA JoinedOn ==
  ASSUME NEW x, NEW t, NEW u, IsSeq(t), IsSeq(u)
  PROVE  (<< x >> \o t) \o u = << x >> \o (t \o u)
<1> DEFINE S == { t[i] : i \in DOMAIN t } \cup { u[i] : i \in DOMAIN u } \cup {x}
<1>1. t \in Seq(S) /\ u \in Seq(S) /\ << x >> \in Seq(S)
  <2>1. \A A, B : A \subseteq B => Seq(A) \subseteq Seq(B)
    OBVIOUS
  <2>2. t \in Seq(S) /\ u \in Seq(S)
    BY <2>1 DEF IsSeq
  <2> QED BY <2>2
<1> HIDE DEF S
<1> DEFINE v == << x >>
<1>2. v \in Seq(S)
  BY <1>1
<1> HIDE DEF v
<1>3. (v \o t) \o u = v \o (t \o u)
  BY <1>1, <1>2
<1> QED BY <1>3 DEF v

LEMMA HeadTail ==
  ASSUME NEW x, NEW t, IsSeq(t)
  PROVE  /\ << x >> \o t # <<>> /\ Head(<< x >> \o t) = x /\ Tail(<< x >> \o t) = t
<1> DEFINE S == { t[i] : i \in DOMAIN t } \cup {x}
<1>1. t \in Seq(S) /\ x \in S
  <2>1. \A A, B : A \subseteq B => Seq(A) \subseteq Seq(B)
    OBVIOUS
  <2> QED BY <2>1 DEF IsSeq
<1> HIDE DEF S
<1> QED BY <1>1

LEMMA OneAnswer ==
  ASSUME NEW b
  PROVE  /\ << Reply(b) >> # <<>> /\ Head(<< Reply(b) >>) = Reply(b) /\ Tail(<< Reply(b) >>) = <<>>
         /\ Answers(<< Reply(b) >>)
<1> DEFINE x == Reply(b)
<1>1. << x >> # <<>> /\ Head(<< x >>) = x /\ Tail(<< x >>) = <<>>
  <2> HIDE DEF x
  <2> QED OBVIOUS
<1> HIDE DEF x
<1>2. x = Reply(b)
  BY DEF x
<1> QED BY <1>1, <1>2 DEF Answers

LEMMA PlainNone ==
  ASSUME NEW s, NEW c
  PROVE  PlainTodo(s, c, <<>>) /\ PlainWrites(s, c, <<>>)
<1>1. <<>> \in Seq({}) /\ DOMAIN <<>> = {}
  OBVIOUS
<1>2. IsSeq(<<>>)
  BY <1>1, SeqOf
<1> QED BY <1>1, <1>2 DEF PlainTodo, PlainWrites

LEMMA PlainOne ==
  ASSUME NEW s, NEW c, NEW x
  PROVE  /\ PlainItem(s, c, x) => PlainTodo(s, c, <<x>>)
         /\ Plain(s, c, x) => PlainWrites(s, c, <<x>>)
<1>1. <<x>> \in Seq({x}) /\ DOMAIN <<x>> = {1} /\ <<x>>[1] = x
  OBVIOUS
<1>2. IsSeq(<<x>>)
  BY <1>1, SeqOf
<1> QED BY <1>1, <1>2 DEF PlainTodo, PlainWrites

LEMMA PlainJoined ==
  ASSUME NEW s, NEW c, NEW t, NEW u
  PROVE  /\ PlainTodo(s, c, t) /\ PlainTodo(s, c, u) => PlainTodo(s, c, t \o u)
         /\ PlainWrites(s, c, t) /\ PlainWrites(s, c, u) => PlainWrites(s, c, t \o u)
<1>1. ASSUME PlainTodo(s, c, t), PlainTodo(s, c, u) PROVE PlainTodo(s, c, t \o u)
  <2>1. /\ IsSeq(t) /\ IsSeq(u)
        /\ \A i \in DOMAIN t : PlainItem(s, c, t[i])
        /\ \A i \in DOMAIN u : PlainItem(s, c, u[i])
    BY <1>1 DEF PlainTodo
  <2> DEFINE v == t \o u
  <2>v. v = t \o u
    OBVIOUS
  <2> HIDE DEF v
  <2>2. Parts(t, u, v)
    BY <2>1, <2>v, JoinedSeq
  <2>3. ASSUME NEW i \in DOMAIN v PROVE PlainItem(s, c, v[i])
    BY <2>1, <2>2 DEF Parts
  <2> QED BY <2>2, <2>3 DEF PlainTodo, Parts, v
<1>2. ASSUME PlainWrites(s, c, t), PlainWrites(s, c, u) PROVE PlainWrites(s, c, t \o u)
  <2>1. /\ IsSeq(t) /\ IsSeq(u)
        /\ \A i \in DOMAIN t : Plain(s, c, t[i])
        /\ \A i \in DOMAIN u : Plain(s, c, u[i])
    BY <1>2 DEF PlainWrites
  <2> DEFINE v == t \o u
  <2>v. v = t \o u
    OBVIOUS
  <2> HIDE DEF v
  <2>2. Parts(t, u, v)
    BY <2>1, <2>v, JoinedSeq
  <2>3. ASSUME NEW i \in DOMAIN v PROVE Plain(s, c, v[i])
    BY <2>1, <2>2 DEF Parts
  <2> QED BY <2>2, <2>3 DEF PlainWrites, Parts, v
<1> QED BY <1>1, <1>2

LEMMA PlainTwo ==
  ASSUME NEW s, NEW c, NEW x, NEW y
  PROVE  /\ PlainItem(s, c, x) /\ PlainItem(s, c, y) => PlainTodo(s, c, <<x, y>>)
         /\ Plain(s, c, x) /\ Plain(s, c, y) => PlainWrites(s, c, <<x, y>>)
<1>1. <<x, y>> \in Seq({x, y}) /\ DOMAIN <<x, y>> = 1..2 /\ <<x, y>>[1] = x /\ <<x, y>>[2] = y
  OBVIOUS
<1>2. IsSeq(<<x, y>>)
  BY <1>1, SeqOf
<1>3. \A i \in DOMAIN <<x, y>> : <<x, y>>[i] \in {x, y}
  BY <1>1
<1> QED BY <1>2, <1>3 DEF PlainTodo, PlainWrites

LEMMA PlainTx ==
  ASSUME NEW s, NEW c, NEW ws, PlainWrites(s, c, ws)
  PROVE  PlainItem(s, c, Tx(ws))
  BY DEF PlainItem, Tx

LEMMA PlainSole ==
  ASSUME NEW s, NEW c, NEW wr, Plain(s, c, wr)
  PROVE  PlainItem(s, c, Tx(<<wr>>)) /\ PlainTodo(s, c, <<Tx(<<wr>>)>>)
<1>1. PlainItem(s, c, Tx(<<wr>>))
  BY PlainOne, PlainTx
<1> QED BY <1>1, PlainOne

LEMMA PlainOther ==
  ASSUME NEW s, NEW c, NEW x, x.kind \notin {"tx", "reply"}
  PROVE  PlainItem(s, c, x)
  BY DEF PlainItem

LEMMA PlainTail ==
  ASSUME NEW s, NEW c, NEW t, PlainTodo(s, c, t), t # <<>>
  PROVE  PlainItem(s, c, Head(t)) /\ PlainTodo(s, c, Tail(t))
<1> DEFINE S == { t[i] : i \in DOMAIN t }
<1>1. t \in Seq(S) /\ t # <<>> /\ \A x \in S : PlainItem(s, c, x)
  BY DEF PlainTodo, IsSeq
<1> HIDE DEF S
<1>2. Head(t) \in S /\ Tail(t) \in Seq(S)
  BY <1>1
<1>3. IsSeq(Tail(t)) /\ \A i \in DOMAIN Tail(t) : Tail(t)[i] \in S
  BY <1>2, SeqOf
<1> QED BY <1>1, <1>2, <1>3 DEF PlainTodo

LEMMA PlainLater ==
  ASSUME NEW s, NEW c, NEW c2, c2 => c, NEW wr
  PROVE  /\ Fits(s, c, wr) => Fits(s, c2, wr)
         /\ Steady(s, c, wr) => Steady(s, c2, wr)
         /\ Plain(s, c, wr) => Plain(s, c2, wr)
<1>1. Fits(s, c, wr) => Fits(s, c2, wr)
  BY DEF Fits
<1> QED BY <1>1 DEF Plain, Steady

LEMMA PlainTodoLater ==
  ASSUME NEW s, NEW c, NEW c2, c2 => c, NEW t, PlainTodo(s, c, t)
  PROVE  PlainTodo(s, c2, t)
<1>1. ASSUME NEW i \in DOMAIN t PROVE PlainItem(s, c2, t[i])
  <2>1. PlainItem(s, c, t[i])
    BY DEF PlainTodo
  <2> QED BY <2>1, PlainLater DEF PlainItem, PlainWrites
<1> QED BY <1>1 DEF PlainTodo

LEMMA AwaitsLater ==
  ASSUME NEW s, NEW U, NEW U2, U \subseteq U2, NEW c, NEW c2, c2 => c, NEW d, NEW e,
         NEW fresh, NEW fresh2, NEW op, NEW t, Awaits(s, U, c, d, fresh, op, t),
         fresh2 => (fresh /\ e = d) \/ t = <<>>
  PROVE  Awaits(s, U2, c2, e, fresh2, op, t)
<1>1. CASE Going(s, c, op, t)
  BY <1>1, PlainTodoLater DEF Awaits, Going
<1>3. CASE op \in AccountOps /\ Personal(s, c, op, t)
  <2>1. SteadyItem(s, c2, Head(t))
    BY <1>3, PlainLater DEF Personal, SteadyItem
  <2>2. PlainTodo(s, c2, Tail(t))
    BY <1>3, PlainTodoLater DEF Personal
  <2> QED BY <1>3, <2>1, <2>2 DEF Awaits, Personal
<1>2. CASE Decided(s, U, c, d, fresh, t)
  <2>1. PICK wr \in { Head(t).writes[1] } :
          /\ t = <<Tx(<<wr>>)>>
          /\ Checked(wr) /\ Fits(s, c, wr) /\ (wr.table = "agent" => wr.id \in U)
          /\ fresh => Right(d, Effect(d, wr))
    BY <1>2 DEF Decided
  <2>2. t # <<>>
    BY <2>1
  <2>3. Fits(s, c2, wr)
    BY <2>1, PlainLater
  <2>4. fresh2 => Right(e, Effect(e, wr))
    BY <2>1, <2>2
  <2>5. Decided(s, U2, c2, e, fresh2, t)
    BY <2>1, <2>3, <2>4 DEF Decided
  <2> QED BY <2>5 DEF Awaits
<1> QED BY <1>1, <1>2, <1>3 DEF Awaits

LEMMA SteadySole ==
  ASSUME NEW s, NEW c, NEW wr, Steady(s, c, wr)
  PROVE  SteadyItem(s, c, Tx(<<wr>>))
<1>1. <<wr>> \in Seq({wr}) /\ DOMAIN <<wr>> = {1} /\ <<wr>>[1] = wr
  OBVIOUS
<1>2. IsSeq(<<wr>>)
  BY <1>1, SeqOf
<1> QED BY <1>1, <1>2 DEF SteadyItem, Tx

(* What is the first thing to do, and what comes after.                     *)
LEMMA FirstSteady ==
  ASSUME NEW s, NEW U, NEW c, NEW d, NEW fresh, NEW op, NEW t, t # <<>>, Head(t).kind = "tx",
         Going(s, c, op, t) \/ (op \in AccountOps /\ Personal(s, c, op, t))
  PROVE  SteadyItem(s, c, Head(t)) /\ Going(s, c, op, Tail(t))
<1>1. CASE PlainTodo(s, c, t)
  <2>1. PlainItem(s, c, Head(t)) /\ PlainTodo(s, c, Tail(t))
    BY <1>1, PlainTail
  <2> QED BY <2>1 DEF PlainItem, PlainWrites, Plain, SteadyItem, Going
<1>2. CASE op \in AccountOps /\ Personal(s, c, op, t)
  BY <1>2 DEF Personal, Going
<1>3. CASE op \in BrowserOps /\ Answers(t)
  <2>a. \A b : Head(t) # Reply(b)
    BY DEF Reply
  <2>1. PICK b, n : Head(t) = Remember(b) /\ Tail(t) = <<Reply(n)>>
    BY <1>3, <2>a DEF Answers
  <2>2. Answers(Tail(t))
    BY <2>1, OneAnswer
  <2> DEFINE wr == Update("user", [id |-> Visitor], [hash |-> b])
  <2>3. Steady(s, c, wr)
    BY DEF Steady, Fits, Checked, Update
  <2>4. Remember(b) = Tx(<<wr>>)
    BY DEF Remember
  <2> HIDE DEF wr
  <2>5. SteadyItem(s, c, Head(t))
    BY <2>1, <2>3, <2>4, SteadySole
  <2> QED BY <1>3, <2>2, <2>5 DEF Going
<1> QED BY <1>1, <1>2, <1>3 DEF Going

(* What a transaction that commits makes of the tables.                     *)
LEMMA CommitKeeps ==
  ASSUME NEW s, NEW U, NEW c, NEW d, NEW fresh, NEW op, NEW t, t # <<>>, Awaits(s, U, c, d, fresh, op, t),
         Head(t).kind = "tx", Commits(d, Head(t)), Rowed(s, U, d), c => Sound(d),
         NEW e, e = Result(d, Head(t))[Len(Head(t).writes)], NEW c2, c2 => c /\ (fresh \/ e = d)
  PROVE  /\ Rowed(s, U, e) /\ (c2 => Sound(e)) /\ Going(s, c2, op, Tail(t))
         /\ c2 /\ e # d => QuotaOf(d, e) /\ RoutesOf(d, e)
<1>1. CASE Going(s, c, op, t) \/ (op \in AccountOps /\ Personal(s, c, op, t))
  <2>1. SteadyItem(s, c, Head(t)) /\ Going(s, c, op, Tail(t))
    BY <1>1, FirstSteady
  <2>2. IsSeq(Head(t).writes) /\ \A i \in DOMAIN Head(t).writes : Steady(s, c, Head(t).writes[i])
    BY <2>1 DEF SteadyItem
  <2>3. Rowed(s, U, e) /\ (c => Sound(e)) /\ Kept(d, e)
    BY <2>2, SteadyCommits
  <2>4. QuotaOf(d, e) /\ RoutesOf(d, e)
    BY <2>3, RulesKept
  <2>5. Going(s, c2, op, Tail(t))
    BY <2>1, PlainTodoLater DEF Going
  <2> QED BY <2>3, <2>4, <2>5
<1>2. CASE Decided(s, U, c, d, fresh, t)
  <2>1. PICK wr \in { Head(t).writes[1] } :
          /\ t = <<Tx(<<wr>>)>>
          /\ Checked(wr) /\ Fits(s, c, wr) /\ (wr.table = "agent" => wr.id \in U)
          /\ fresh => Right(d, Effect(d, wr))
    BY <1>2 DEF Decided
  <2>2. Head(t) = Tx(<<wr>>) /\ Tail(t) = <<>>
    BY <2>1
  <2>3. Admitted(d, wr) /\ e = Effect(d, wr)
    BY <2>2, OneCommits
  <2>4. Rowed(s, U, e)
    BY <2>1, <2>3, SaveKeeps DEF Checked
  <2>5. fresh => Right(d, e)
    BY <2>1, <2>3
  <2>6. Going(s, c2, op, Tail(t))
    BY <2>2, PlainNone DEF Going
  <2> QED BY <2>4, <2>5, <2>6 DEF Right
<1> QED BY <1>1, <1>2 DEF Awaits

-----------------------------------------------------------------------------
(* The steps of the requests in progress.                                   *)
LEMMA RowedMore ==
  ASSUME NEW s, NEW U, NEW U2, U \subseteq U2, NEW d, Rowed(s, U, d)
  PROVE  Rowed(s, U2, d)
  BY DEF Rowed

LEMMA UsedMore ==
  ASSUME NEW s, \A r \in requests' : r \in requests \/ r.op \in BrowserOps
  PROVE  Used(s) \subseteq Used(s)'
  BY DEF Used, BrowserOps

LEMMA MoveKeeps ==
  ASSUME NEW s \in Scenarios, Consistent(s), Typed,
         \A r \in requests' : r \in requests \/ r.op \in BrowserOps,
         clean' => clean, Rowed(s, Used(s), db'), clean' => Sound(db'),
         \A v \in Workers :
           \/ Awaits(s, Used(s)', clean', db', clean' /\ ~work'[v].stale, work'[v].req.op, work'[v].todo)
           \/ /\ work'[v].todo = work[v].todo /\ work'[v].req = work[v].req
              /\ clean' /\ ~work'[v].stale => (~work[v].stale /\ db' = db) \/ work[v].todo = <<>>
  PROVE  Consistent(s)'
<1>1. Used(s) \subseteq Used(s)'
  BY UsedMore
<1>2. \A r \in requests' : r.op \notin BrowserOps => r \in s.requests
  BY DEF Consistent
<1>3. Rowed(s, Used(s)', db')
  BY <1>1, RowedMore
<1>4. ASSUME NEW v \in Workers
      PROVE  Awaits(s, Used(s)', clean', db', clean' /\ ~work'[v].stale, work'[v].req.op, work'[v].todo)
  <2>1. CASE /\ work'[v].todo = work[v].todo /\ work'[v].req = work[v].req
             /\ clean' /\ ~work'[v].stale => (~work[v].stale /\ db' = db) \/ work[v].todo = <<>>
    <3> DEFINE t == work[v].todo
               op == work[v].req.op
               U == Used(s)
               U2 == Used(s)'
               fresh == clean /\ ~work[v].stale
               fresh2 == clean' /\ ~work'[v].stale
    <3>1. Awaits(s, U, clean, db, fresh, op, t)
      BY DEF Consistent
    <3>2. fresh2 => (fresh /\ db' = db) \/ t = <<>>
      BY <2>1
    <3>3. U \subseteq U2 /\ work'[v].todo = t /\ work'[v].req.op = op
      BY <1>1, <2>1
    <3> HIDE DEF t, op, U, U2, fresh, fresh2
    <3>4. Awaits(s, U2, clean', db', fresh2, op, t)
      BY <3>1, <3>2, <3>3, AwaitsLater
    <3> QED BY <3>3, <3>4 DEF U2, fresh2
  <2> QED BY <2>1
<1> QED BY <1>2, <1>3, <1>4 DEF Consistent

LEMMA AdvanceKeeps ==
  ASSUME NEW s \in Scenarios, Consistent(s), Typed, NEW w \in Workers, NEW rest, NEW changed \in BOOLEAN,
         Advance(w, rest, changed), db' # db => changed, requests' = requests,
         Rowed(s, Used(s), db'), clean' => Sound(db'), Going(s, clean', work[w].req.op, rest)
  PROVE  Typed' /\ Consistent(s)'
<1>1. /\ work' = [v \in Workers |->
                  IF v = w THEN IF rest = <<>> THEN Idle ELSE [work[w] EXCEPT !.todo = rest]
                  ELSE [work[v] EXCEPT !.stale = Busy(v) /\ (@ \/ changed)]]
      /\ clean' = (clean /\ ~(work[w].stale /\ changed))
  BY DEF Advance
<1>2. clean' \in BOOLEAN /\ (clean' => clean)
  BY <1>1 DEF Typed
<1>3. /\ {"req", "scope", "todo", "stale"} \subseteq DOMAIN work'[w] /\ work'[w].stale \in BOOLEAN
      /\ work'[w].todo = rest /\ (rest = <<>> \/ work'[w].req = work[w].req)
  <2>1. CASE rest = <<>>
    <3>1. work'[w] = Idle
      BY <1>1, <2>1
    <3> QED BY <2>1, <3>1 DEF Idle
  <2>2. CASE rest # <<>>
    <3>1. work'[w] = [work[w] EXCEPT !.todo = rest]
      BY <1>1, <2>2
    <3> QED BY <3>1 DEF Typed
  <2> QED BY <2>1, <2>2
<1>4. ASSUME NEW v \in Workers, v # w
      PROVE  /\ {"req", "scope", "todo", "stale"} \subseteq DOMAIN work'[v] /\ work'[v].stale \in BOOLEAN
             /\ work'[v].todo = work[v].todo /\ work'[v].req = work[v].req
             /\ ~work'[v].stale => (~work[v].stale /\ ~changed) \/ work[v].todo = <<>>
  <2>1. work'[v] = [work[v] EXCEPT !.stale = Busy(v) /\ (@ \/ changed)]
    BY <1>1, <1>4
  <2>2. /\ work'[v].stale = (Busy(v) /\ (work[v].stale \/ changed)) /\ work'[v].todo = work[v].todo
        /\ work'[v].req = work[v].req
    BY <2>1 DEF Typed
  <2>3. DOMAIN work'[v] = DOMAIN work[v]
    BY <2>1
  <2> QED BY <2>2, <2>3 DEF Typed, Busy
<1>5. Typed'
  BY <1>1, <1>2, <1>3, <1>4 DEF Typed
<1>6. Awaits(s, Used(s)', clean', db', clean' /\ ~work'[w].stale, work'[w].req.op, work'[w].todo)
  BY <1>3, PlainNone DEF Awaits, Going
<1>7. Consistent(s)'
  BY <1>2, <1>4, <1>6, MoveKeeps
<1> QED BY <1>5, <1>7

LEMMA AbandonKeeps ==
  ASSUME NEW s \in Scenarios, Consistent(s), Typed, NEW w \in Workers, Abandon(w)
  PROVE  Typed' /\ Consistent(s)'
<1>1. /\ work' = [work EXCEPT ![w] = Idle] /\ db' = db /\ requests' = requests /\ clean' = clean
  BY DEF Abandon
<1>2. /\ work'[w] = Idle /\ \A v \in Workers \ {w} : work'[v] = work[v]
      /\ DOMAIN work' = Workers
  BY <1>1 DEF Typed
<1>3. Typed'
  BY <1>1, <1>2 DEF Typed, Idle
<1>4. Awaits(s, Used(s)', clean', db', clean' /\ ~work'[w].stale, work'[w].req.op, work'[w].todo)
  BY <1>2, PlainNone DEF Idle, Awaits, Going
<1>5. Rowed(s, Used(s), db') /\ (clean' => Sound(db'))
  BY <1>1 DEF Consistent
<1>6. \A v \in Workers \ {w} :
        work'[v].todo = work[v].todo /\ work'[v].stale = work[v].stale /\ work'[v].req = work[v].req
  BY <1>2
<1>7. Consistent(s)'
  BY <1>1, <1>4, <1>5, <1>6, MoveKeeps
<1> QED BY <1>3, <1>7

LEMMA CrashKeeps ==
  ASSUME NEW s \in Scenarios, Consistent(s), Typed, Crash
  PROVE  Typed' /\ Consistent(s)'
<1>1. /\ work' = [w \in Workers |-> Idle] /\ db' = db /\ requests' = requests /\ clean' = clean
  BY DEF Crash
<1>2. Typed'
  BY <1>1 DEF Typed, Idle
<1>3. \A v \in Workers :
        Awaits(s, Used(s)', clean', db', clean' /\ ~work'[v].stale, work'[v].req.op, work'[v].todo)
  BY <1>1, PlainNone DEF Idle, Awaits, Going
<1>4. Rowed(s, Used(s), db') /\ (clean' => Sound(db'))
  BY <1>1 DEF Consistent
<1>5. Consistent(s)'
  BY <1>1, <1>3, <1>4, MoveKeeps
<1> QED BY <1>2, <1>5

LEMMA StatementKeeps ==
  ASSUME NEW s \in Scenarios, Consistent(s), Typed, NEW w \in Workers, Statement(w)
  PROVE  /\ Typed' /\ Consistent(s)'
         /\ clean' /\ db' # db => QuotaOf(db, db') /\ RoutesOf(db, db')
<1> DEFINE t == work[w].todo
           op == work[w].req.op
<1>1. CASE Abandon(w)
  <2>1. db' = db
    BY <1>1 DEF Abandon
  <2> QED BY <1>1, <2>1, AbandonKeeps
<1>2. CASE /\ Commits(db, Head(t)) /\ db' = Result(db, Head(t))[Len(Head(t).writes)]
           /\ Advance(w, Tail(t), db' # db) /\ requests' = requests
  <2> DEFINE changed == db' # db
             fresh == clean /\ ~work[w].stale
  <2>1. t # <<>> /\ Head(t).kind = "tx"
    BY DEF Statement, Busy
  <2>2. Awaits(s, Used(s), clean, db, fresh, op, t)
    BY DEF Consistent
  <2>3. Rowed(s, Used(s), db) /\ (clean => Sound(db))
    BY DEF Consistent
  <2>4. clean' = (clean /\ ~(work[w].stale /\ db' # db))
    BY <1>2 DEF Advance
  <2>5. clean' => clean /\ (fresh \/ db' = db)
    BY <2>4
  <2> HIDE DEF t, op, fresh
  <2>6. /\ Rowed(s, Used(s), db') /\ (clean' => Sound(db')) /\ Going(s, clean', op, Tail(t))
        /\ clean' /\ db' # db => QuotaOf(db, db') /\ RoutesOf(db, db')
    BY <1>2, <2>1, <2>2, <2>3, <2>5, CommitKeeps
  <2>7. changed \in BOOLEAN /\ (db' # db => changed) /\ Advance(w, Tail(t), changed)
    BY <1>2
  <2> HIDE DEF changed
  <2>8. Typed' /\ Consistent(s)'
    BY <1>2, <2>6, <2>7, AdvanceKeeps DEF op
  <2> QED BY <2>6, <2>8
<1> QED BY <1>1, <1>2 DEF Statement

(* What comes after a piece that is no transaction.                         *)
LEMMA OtherRest ==
  ASSUME NEW s, Consistent(s), NEW w \in Workers, Busy(w), Head(work[w].todo).kind # "tx"
  PROVE  PlainTodo(s, clean, Tail(work[w].todo))
<1> DEFINE t == work[w].todo
<1> DEFINE op == work[w].req.op
<1>1. /\ Awaits(s, Used(s), clean, db, clean /\ ~work[w].stale, op, t)
      /\ t # <<>> /\ Head(t).kind # "tx"
  BY DEF Consistent, Busy
<1> HIDE DEF t, op
<1>2. ~Decided(s, Used(s), clean, db, clean /\ ~work[w].stale, t)
  <2> SUFFICES ASSUME NEW wr, t = <<Tx(<<wr>>)>> PROVE FALSE
    BY DEF Decided
  <2> QED BY <1>1 DEF Tx
<1>4. CASE op \in BrowserOps /\ Answers(t)
  <2>1. \A b : Head(t) # Remember(b)
    BY <1>1 DEF Remember, Tx
  <2>2. Tail(t) = <<>>
    BY <1>4, <2>1 DEF Answers
  <2> QED BY <2>2, PlainNone DEF t
<1>5. CASE PlainTodo(s, clean, t)
  BY <1>1, <1>5, PlainTail DEF t
<1>3. PlainTodo(s, clean, t) \/ (op \in BrowserOps /\ Answers(t))
  BY <1>1, <1>2 DEF Awaits, Going, Personal, SteadyItem
<1> QED BY <1>3, <1>4, <1>5

LEMMA OtherKeeps ==
  ASSUME NEW s \in Scenarios, Consistent(s), Typed, NEW w \in Workers, Busy(w), Head(work[w].todo).kind # "tx",
         NEW changed \in BOOLEAN, Advance(w, Tail(work[w].todo), changed), UNCHANGED <<db, requests>>
  PROVE  Typed' /\ Consistent(s)'
<1>1. PlainTodo(s, clean, Tail(work[w].todo))
  BY OtherRest
<1>2. clean' => clean
  BY DEF Advance
<1>3. PlainTodo(s, clean', Tail(work[w].todo))
  BY <1>1, <1>2, PlainTodoLater
<1>4. Rowed(s, Used(s), db') /\ (clean' => Sound(db'))
  BY <1>2 DEF Consistent
<1>5. Going(s, clean', work[w].req.op, Tail(work[w].todo))
  BY <1>3 DEF Going
<1> QED BY <1>4, <1>5, AdvanceKeeps

LEMMA NetworkKeeps ==
  ASSUME NEW s \in Scenarios, Consistent(s), Typed, NEW w \in Workers, NetworkStep(w)
  PROVE  Typed' /\ Consistent(s)' /\ db' = db
<1> DEFINE kind == Head(work[w].todo).kind
<1>1. CASE Abandon(w)
  BY <1>1, AbandonKeeps DEF Abandon
<1>2. ASSUME NEW changed \in BOOLEAN, Advance(w, Rest(w), changed), UNCHANGED <<db, requests>>,
             Busy(w), kind # "tx"
      PROVE  Typed' /\ Consistent(s)' /\ db' = db
  <2>1. Advance(w, Tail(work[w].todo), changed)
    BY <1>2 DEF Rest
  <2> QED BY <1>2, <2>1, OtherKeeps
<1>3. CASE WriteGatewayConfig(w)
  <2>1. Busy(w) /\ kind # "tx"
    BY <1>3 DEF WriteGatewayConfig, Step
  <2>2. CASE Advance(w, Rest(w), disk' # disk) /\ UNCHANGED <<db, requests>>
    <3> DEFINE changed == disk' # disk
    <3>1. changed \in BOOLEAN /\ Advance(w, Rest(w), changed)
      BY <2>2
    <3> HIDE DEF changed
    <3> QED BY <1>2, <2>1, <2>2, <3>1
  <2> QED BY <1>1, <1>3, <2>2 DEF WriteGatewayConfig
<1>4. CASE DeleteConfigFile(w)
  <2> DEFINE changed == disk' # disk
  <2>1. /\ Busy(w) /\ kind # "tx" /\ UNCHANGED <<db, requests>>
        /\ changed \in BOOLEAN /\ Advance(w, Rest(w), changed)
    BY <1>4 DEF DeleteConfigFile, Step
  <2> HIDE DEF changed
  <2> QED BY <1>2, <2>1
<1>5. CASE WritePortOverrideFile(w)
  <2> DEFINE changed == disk' # disk
  <2>1. /\ Busy(w) /\ kind # "tx" /\ UNCHANGED <<db, requests>>
        /\ changed \in BOOLEAN /\ Advance(w, Rest(w), changed)
    BY <1>5 DEF WritePortOverrideFile, Step
  <2> HIDE DEF changed
  <2> QED BY <1>2, <2>1
<1>6. CASE RunCommand(w)
  <2> DEFINE changed == [pbx' EXCEPT !.failed = FALSE, !.late = {}] # [pbx EXCEPT !.failed = FALSE, !.late = {}]
  <2>1. /\ Busy(w) /\ kind # "tx" /\ UNCHANGED <<db, requests>>
        /\ changed \in BOOLEAN /\ Advance(w, Rest(w), changed)
    BY <1>6 DEF RunCommand, Step
  <2> HIDE DEF changed
  <2> QED BY <1>2, <2>1
<1> QED BY <1>3, <1>4, <1>5, <1>6 DEF NetworkStep

-----------------------------------------------------------------------------
(* Statements that are right at any time.                                   *)
LEMMA PlainDelete ==
  ASSUME NEW s, NEW c, NEW t \in TableNames, NEW ids
  PROVE  Plain(s, c, Delete(t, ids))
  BY DEF Plain, Steady, OfAccount, Fits, Checked, Delete

LEMMA PlainInsert ==
  ASSUME NEW s, NEW c, NEW rows, Keyed(rows)
  PROVE  Plain(s, c, Insert("member", rows))
  BY DEF Plain, Steady, OfAccount, Fits, Checked, Insert

LEMMA PlainUpdate ==
  ASSUME NEW s, NEW c, NEW t \in {"role", "menu", "rule"}, NEW where, NEW set
  PROVE  Plain(s, c, Update(t, where, set))
  BY DEF Plain, Steady, OfAccount, Fits, Checked, Update

LEMMA PlainSave ==
  ASSUME NEW s, NEW c, NEW t \in TableNames \ {"user", "agent", "extension", "inbound", "group", "member"},
         NEW id, NEW row, t = "tenant" => id # Nil, t = "tenant" => Bounded(row)
  PROVE  Plain(s, c, Save(t, id, row))
  BY DEF Plain, Steady, OfAccount, Fits, Checked, Save

LEMMA KeyedRows ==
  ASSUME NEW u, NEW tenants
  PROVE  /\ Keyed(MemberRows(u, tenants))
         /\ DOMAIN MemberRows(u, tenants) = { <<u, t>> : t \in tenants }
         /\ \A t \in tenants : MemberRows(u, tenants)[<<u, t>>].user = u
  BY DEF Keyed, MemberRows

LEMMA SyncTodo ==
  ASSUME NEW s, NEW c, NEW w, SyncTenantMemberships(w), ~Abandon(w)
  PROVE  \E todo : /\ PlainTodo(s, c, todo)
                   /\ work' = [work EXCEPT ![w].stale = FALSE, ![w].todo = todo]
                   /\ UNCHANGED <<db, requests, clean>>
<1> DEFINE r == work[w].req
           asked == AskedTenants(r, work[w].scope)
           now == MembersOf(r.id)
           less == IF now \subseteq asked THEN <<>>
                   ELSE << Tx(<< Delete("member", { <<r.id, t>> : t \in now \ asked }) >>) >>
           more == << Tx(IF asked \subseteq now THEN <<>>
                         ELSE << Insert("member", MemberRows(r.id, asked \ now)) >>) >>
           todo == IF ~Asks(r, work[w].scope) THEN << Tx(<<>>) >> ELSE less \o more
<1>1. work' = [work EXCEPT ![w].stale = FALSE, ![w].todo = todo] /\ UNCHANGED <<db, requests, clean>>
  BY DEF SyncTenantMemberships
<1>2. PlainTodo(s, c, << Tx(<<>>) >>)
  BY PlainNone, PlainTx, PlainOne
<1>3. PlainTodo(s, c, less)
  <2> DEFINE ids == { <<r.id, t>> : t \in now \ asked }
  <2>1. Plain(s, c, Delete("member", ids))
    <3> HIDE DEF ids
    <3> QED BY PlainDelete DEF TableNames
  <2>2. PlainTodo(s, c, << Tx(<< Delete("member", ids) >>) >>)
    <3> HIDE DEF ids
    <3> QED BY <2>1, PlainSole
  <2> QED BY <2>2, PlainNone
<1>4. PlainTodo(s, c, more)
  <2> DEFINE rows == MemberRows(r.id, asked \ now)
             ws == IF asked \subseteq now THEN <<>> ELSE << Insert("member", rows) >>
  <2>1. PlainWrites(s, c, << Insert("member", rows) >>)
    <3>1. Keyed(rows)
      BY KeyedRows
    <3> HIDE DEF rows
    <3> QED BY <3>1, PlainInsert, PlainOne
  <2>2. PlainWrites(s, c, ws)
    BY <2>1, PlainNone
  <2> HIDE DEF ws
  <2>3. PlainTodo(s, c, << Tx(ws) >>)
    BY <2>2, PlainTx, PlainOne
  <2> QED BY <2>3 DEF ws
<1> HIDE DEF less, more
<1>5. PlainTodo(s, c, todo)
  BY <1>2, <1>3, <1>4, PlainJoined
<1> HIDE DEF todo
<1> QED BY <1>1, <1>5

LEMMA SyncKeeps ==
  ASSUME NEW s \in Scenarios, Consistent(s), Typed, NEW w \in Workers, SyncTenantMemberships(w)
  PROVE  Typed' /\ Consistent(s)' /\ db' = db
<1>1. CASE Abandon(w)
  BY <1>1, AbandonKeeps DEF Abandon
<1>2. ASSUME NEW todo, PlainTodo(s, clean, todo),
             work' = [work EXCEPT ![w].stale = FALSE, ![w].todo = todo], UNCHANGED <<db, requests, clean>>
      PROVE  Typed' /\ Consistent(s)' /\ db' = db
  <2>1. /\ DOMAIN work' = Workers /\ \A v \in Workers \ {w} : work'[v] = work[v]
        /\ DOMAIN work'[w] = DOMAIN work[w] /\ work'[w].stale = FALSE /\ work'[w].todo = todo
    BY <1>2 DEF Typed
  <2>2. Typed'
    BY <1>2, <2>1 DEF Typed
  <2>3. Awaits(s, Used(s)', clean', db', clean' /\ ~work'[w].stale, work'[w].req.op, work'[w].todo)
    BY <1>2, <2>1 DEF Awaits, Going
  <2>4. Rowed(s, Used(s), db') /\ (clean' => Sound(db'))
    BY <1>2 DEF Consistent
  <2>5. \A v \in Workers \ {w} :
          work'[v].todo = work[v].todo /\ work'[v].stale = work[v].stale /\ work'[v].req = work[v].req
    BY <2>1
  <2>6. Consistent(s)'
    BY <1>2, <2>3, <2>4, <2>5, MoveKeeps
  <2> QED BY <1>2, <2>2, <2>6
<1> QED BY <1>1, <1>2, SyncTodo

-----------------------------------------------------------------------------
(* The browser.                                                             *)
LEMMA AsideKeeps ==
  ASSUME NEW s \in Scenarios, Consistent(s), Typed, UNCHANGED <<db, work, clean>>,
         \A r \in requests' : r \in requests \/ r.op \in BrowserOps
  PROVE  Typed' /\ Consistent(s)'
<1>1. Typed'
  BY DEF Typed
<1>2. Rowed(s, Used(s), db') /\ (clean' => Sound(db'))
  BY DEF Consistent
<1>3. Consistent(s)'
  BY <1>2, MoveKeeps
<1> QED BY <1>1, <1>3

LEMMA AskKeeps ==
  ASSUME NEW s \in Scenarios, Consistent(s), Typed, NEW t, NEW op \in BrowserOps, NEW from, NEW dto,
         Ask(t, op, from, dto)
  PROVE  Typed' /\ Consistent(s)' /\ db' = db
<1> DEFINE q == [op |-> op, by |-> Visitor, id |-> calls + 1, dto |-> dto]
<1>1. requests' = requests \cup {q} /\ UNCHANGED <<db, work, clean>>
  BY DEF Ask
<1>2. q.op = op
  OBVIOUS
<1> HIDE DEF q
<1> QED BY <1>1, <1>2, AsideKeeps

LEMMA SessionKeeps ==
  ASSUME NEW s \in Scenarios, Consistent(s), Typed, SessionStep
  PROVE  Typed' /\ Consistent(s)' /\ db' = db
<1>0. {"login", "refresh", "logout"} \subseteq BrowserOps
  BY DEF BrowserOps
<1>a. ASSUME NEW t, NEW op, op \in BrowserOps, NEW from, NEW dto, Ask(t, op, from, dto)
      PROVE  Typed' /\ Consistent(s)' /\ db' = db
  BY <1>a, AskKeeps
<1>1. ASSUME NEW t, SignIn(t) PROVE Typed' /\ Consistent(s)' /\ db' = db
  BY <1>0, <1>a, <1>1 DEF SignIn
<1>2. ASSUME NEW t, OpenPage(t) PROVE Typed' /\ Consistent(s)' /\ db' = db
  BY <1>0, <1>a, <1>2 DEF OpenPage, AskRefresh
<1>3. ASSUME NEW t, CallApi(t) PROVE Typed' /\ Consistent(s)' /\ db' = db
  <2>1. CASE AskRefresh(t, "api")
    BY <1>0, <1>a, <2>1 DEF AskRefresh
  <2>2. CASE UNCHANGED <<db, requests, work, clean>>
    BY <2>2, AsideKeeps
  <2> QED BY <1>3, <2>1, <2>2 DEF CallApi
<1>4. ASSUME NEW t, SignOut(t) PROVE Typed' /\ Consistent(s)' /\ db' = db
  BY <1>0, <1>a, <1>4 DEF SignOut
<1>5. ASSUME NEW t, NoAnswer(t) PROVE Typed' /\ Consistent(s)' /\ db' = db
  BY <1>5, AsideKeeps DEF NoAnswer
<1>6. ASSUME NEW r, Deny(r) PROVE Typed' /\ Consistent(s)' /\ db' = db
  <2>1. requests' = requests \ {r} /\ UNCHANGED <<db, work, clean>>
    BY <1>6 DEF Deny
  <2> QED BY <2>1, AsideKeeps
<1>7. ASSUME NEW w \in Workers, Answer(w) PROVE Typed' /\ Consistent(s)' /\ db' = db
  <2>1. /\ Busy(w) /\ Head(work[w].todo).kind # "tx" /\ UNCHANGED <<db, requests>>
        /\ Advance(w, Tail(work[w].todo), FALSE)
    BY <1>7 DEF Answer, Step, Rest
  <2> QED BY <2>1, OtherKeeps
<1>8. CASE Expire
  BY <1>8, AsideKeeps DEF Expire
<1> QED BY <1>1, <1>2, <1>3, <1>4, <1>5, <1>6, <1>7, <1>8 DEF SessionStep

-----------------------------------------------------------------------------
(* A request that comes in, with what its handler is going to write.        *)
LEMMA BeginKeeps ==
  ASSUME NEW s \in Scenarios, Consistent(s), Typed, NEW w \in Workers, NEW r, NEW todo, Begin(w, r, todo),
         Awaits(s, Used(s)', clean, db, clean, r.op, todo)
  PROVE  Typed' /\ Consistent(s)' /\ db' = db
<1> DEFINE one == [req |-> r, todo |-> todo, stale |-> FALSE,
                   scope |-> IF r.by \in DOMAIN db.user THEN Scope(r.by) ELSE NoScope]
<1>1. /\ work' = [work EXCEPT ![w] = one] /\ requests' = requests \ {r} /\ UNCHANGED <<db, clean>>
  BY DEF Begin
<1>2. {"req", "scope", "todo", "stale"} \subseteq DOMAIN one /\ one.todo = todo /\ one.stale = FALSE /\ one.req = r
  OBVIOUS
<1> HIDE DEF one
<1>3. work'[w] = one /\ DOMAIN work' = Workers /\ \A v \in Workers \ {w} : work'[v] = work[v]
  BY <1>1 DEF Typed
<1>4. Typed'
  BY <1>1, <1>2, <1>3 DEF Typed
<1>5. Awaits(s, Used(s)', clean', db', clean' /\ ~work'[w].stale, work'[w].req.op, work'[w].todo)
  <2>1. (clean' /\ ~work'[w].stale) = clean
    BY <1>1, <1>2, <1>3 DEF Typed
  <2>2. work'[w].todo = todo /\ work'[w].req = r
    BY <1>2, <1>3
  <2> QED BY <1>1, <2>1, <2>2
<1>6. Rowed(s, Used(s), db') /\ (clean' => Sound(db'))
  BY <1>1 DEF Consistent
<1>7. Consistent(s)'
  BY <1>1, <1>3, <1>5, <1>6, MoveKeeps
<1> QED BY <1>1, <1>4, <1>7

LEMMA PlainBegin ==
  ASSUME NEW s \in Scenarios, Consistent(s), Typed, NEW w \in Workers, NEW r, NEW todo, Begin(w, r, todo),
         PlainTodo(s, clean, todo)
  PROVE  Typed' /\ Consistent(s)' /\ db' = db
<1>1. Awaits(s, Used(s)', clean, db, clean, r.op, todo)
  BY DEF Awaits, Going
<1> QED BY <1>1, BeginKeeps

LEMMA SoleBegin ==
  ASSUME NEW s \in Scenarios, Consistent(s), Typed, NEW w \in Workers, NEW r, NEW wr,
         Begin(w, r, << Tx(<< wr >>) >>), Plain(s, clean, wr)
  PROVE  Typed' /\ Consistent(s)' /\ db' = db
  BY PlainSole, PlainBegin

LEMMA PersonalBegin ==
  ASSUME NEW s \in Scenarios, Consistent(s), Typed, NEW w \in Workers, NEW r, NEW todo, Begin(w, r, todo),
         r.op \in AccountOps, Personal(s, clean, r.op, todo)
  PROVE  Typed' /\ Consistent(s)' /\ db' = db
<1>1. Awaits(s, Used(s)', clean, db, clean, r.op, todo)
  BY DEF Awaits
<1> QED BY <1>1, BeginKeeps

LEMMA CheckedBegin ==
  ASSUME NEW s \in Scenarios, Consistent(s), Typed, NEW w \in Workers, NEW r, NEW wr,
         Begin(w, r, << Tx(<< wr >>) >>), Checked(wr), Fits(s, clean, wr),
         wr.table = "agent" => wr.id \in Used(s)', clean => Right(db, Effect(db, wr))
  PROVE  Typed' /\ Consistent(s)' /\ db' = db
<1> DEFINE todo == << Tx(<< wr >>) >>
<1>1. Head(todo).writes[1] = wr
  BY DEF Tx
<1>2. Decided(s, Used(s)', clean, db, clean, todo)
  <2> HIDE DEF todo
  <2>1. todo = << Tx(<< wr >>) >>
    BY DEF todo
  <2> QED BY <1>1, <2>1 DEF Decided
<1>3. Awaits(s, Used(s)', clean, db, clean, r.op, todo)
  BY <1>2 DEF Awaits
<1> HIDE DEF todo
<1>4. Begin(w, r, todo)
  BY DEF todo
<1> QED BY <1>3, <1>4, BeginKeeps

-----------------------------------------------------------------------------
(* The handlers whose statements are right at any time.                     *)
LEMMA Sent ==
  ASSUME NEW s \in Scenarios, Consistent(s), NEW w, NEW r, NEW todo, Begin(w, r, todo), r.op \notin BrowserOps
  PROVE  /\ r \in s.requests
         /\ r.op = "createAgent" => r.id \in Used(s)'
<1>1. r \in requests /\ requests' = requests \ {r}
  BY DEF Begin
<1>2. r \in s.requests
  BY <1>1 DEF Consistent
<1> QED BY <1>1, <1>2 DEF Used

LEMMA OwnerAtHome ==
  ASSUME NEW s, Consistent(s), NEW a \in DOMAIN db.agent
  PROVE  <<a, db.agent[a].tenant>> \in AgentHomes(s)
  BY DEF Consistent, Rowed, Homes, AgentAtHome

LEMMA GroupKeeps ==
  ASSUME NEW s \in Scenarios, Consistent(s), Typed, NEW w \in Workers, NEW r,
         CreateGroup(w, r) \/ UpdateGroup(w, r) \/ DeleteGroup(w, r) \/ DeleteAgent(w, r)
  PROVE  Typed' /\ Consistent(s)' /\ db' = db
<1>1. ASSUME NEW row, GroupAtHome(s, r.id, row), Begin(w, r, << Tx(<< Save("group", r.id, row) >>) >>)
      PROVE  Typed' /\ Consistent(s)' /\ db' = db
  <2>1. Plain(s, clean, Save("group", r.id, row))
    BY <1>1 DEF Plain, Steady, OfAccount, Fits, Checked, Save, TableNames
  <2> QED BY <1>1, <2>1, SoleBegin
<1>2. ASSUME NEW t \in TableNames, Begin(w, r, << Tx(<< Delete(t, {r.id}) >>) >>)
      PROVE  Typed' /\ Consistent(s)' /\ db' = db
  <2>1. Plain(s, clean, Delete(t, {r.id}))
    BY PlainDelete
  <2> QED BY <1>2, <2>1, SoleBegin
<1>3. CASE CreateGroup(w, r)
  <2> DEFINE owner == IF Scope(r.by).lead THEN Scope(r.by).agent ELSE r.dto.owner
             row == [r.dto EXCEPT !.owner = owner]
  <2>1. /\ r.op = "createGroup" /\ OwnerFits(r, r.dto.tenant, owner)
        /\ Begin(w, r, << Tx(<< Save("group", r.id, row) >>) >>)
    BY <1>3 DEF CreateGroup
  <2>2. r \in s.requests
    BY <2>1, Sent DEF BrowserOps
  <2>3. DOMAIN r.dto = GroupColumns
    BY <2>1, <2>2, ScenariosAssumption
  <2>4. owner # Nil => <<owner, r.dto.tenant>> \in AgentHomes(s)
    <3>1. owner # Nil => owner \in DOMAIN db.agent /\ db.agent[owner].tenant = r.dto.tenant
      BY <2>1 DEF OwnerFits
    <3> HIDE DEF owner
    <3> QED BY <3>1, OwnerAtHome
  <2>5. <<r.id, r.dto.tenant>> \in GroupHomes(s)
    BY <2>1, <2>2 DEF GroupHomes
  <2>6. DOMAIN row = GroupColumns /\ row.tenant = r.dto.tenant /\ row.owner = owner
    <3> HIDE DEF owner
    <3> QED BY <2>3 DEF GroupColumns
  <2> HIDE DEF row, owner
  <2>7. GroupAtHome(s, r.id, row)
    BY <2>4, <2>5, <2>6 DEF GroupAtHome
  <2> QED BY <1>1, <2>1, <2>7
<1>4. CASE UpdateGroup(w, r)
  <2> DEFINE g == db.group[r.id]
             me == Scope(r.by).agent
             owner == IF ~Given(r, "owner") THEN g.owner
                      ELSE IF Scope(r.by).lead /\ r.dto.owner = Nil THEN me ELSE r.dto.owner
             row == [g EXCEPT !.name = New(r, "name", @), !.owner = owner]
  <2>1. /\ r.id \in DOMAIN db.group
        /\ Given(r, "owner") => OwnerFits(r, g.tenant, owner)
        /\ Begin(w, r, << Tx(<< Save("group", r.id, row) >>) >>)
    BY <1>4 DEF UpdateGroup
  <2>2. GroupAtHome(s, r.id, g)
    BY <2>1 DEF Consistent, Rowed, Homes
  <2>3. owner # Nil => <<owner, g.tenant>> \in AgentHomes(s)
    <3>1. CASE Given(r, "owner")
      <4>1. owner # Nil => owner \in DOMAIN db.agent /\ db.agent[owner].tenant = g.tenant
        BY <2>1, <3>1 DEF OwnerFits
      <4> HIDE DEF owner, g
      <4> QED BY <4>1, OwnerAtHome
    <3>2. CASE ~Given(r, "owner")
      BY <2>2, <3>2 DEF GroupAtHome
    <3> QED BY <3>1, <3>2
  <2>4. DOMAIN row = GroupColumns /\ row.tenant = g.tenant /\ row.owner = owner
    <3>1. DOMAIN g = GroupColumns
      BY <2>2 DEF GroupAtHome
    <3> HIDE DEF g, owner
    <3> QED BY <3>1 DEF GroupColumns
  <2> HIDE DEF row, owner, g
  <2>5. GroupAtHome(s, r.id, row)
    BY <2>2, <2>3, <2>4 DEF GroupAtHome
  <2> QED BY <1>1, <2>1, <2>5
<1>5. CASE DeleteGroup(w, r)
  BY <1>2, <1>5 DEF DeleteGroup, TableNames
<1>6. CASE DeleteAgent(w, r)
  BY <1>2, <1>6 DEF DeleteAgent, TableNames
<1> QED BY <1>3, <1>4, <1>5, <1>6

(* An account that is saved with its agents has one at most.                *)
LEMMA SteadyAccount ==
  ASSUME NEW s, Consistent(s), NEW u \in DOMAIN db.user, NEW row, row.agents = AgentsOf(db, u)
  PROVE  Steady(s, clean, SaveAccount(u, row))
<1>1. u # Nil
  BY DEF Consistent, Rowed
<1>2. ASSUME clean, NEW a \in row.agents, NEW b \in row.agents PROVE a = b
  <2>1. Equipped(db)
    BY <1>2 DEF Consistent, Sound
  <2>2. a \in DOMAIN db.agent /\ b \in DOMAIN db.agent /\ db.agent[a].portalUser = u /\ db.agent[b].portalUser = u
    BY <1>2 DEF AgentsOf
  <2> QED BY <1>1, <2>1, <2>2 DEF Equipped
<1> QED BY <1>1, <1>2 DEF Steady, Fits, Checked, SaveAccount

LEMMA SyncPlain ==
  ASSUME NEW s, NEW c
  PROVE  PlainItem(s, c, Sync)
  BY DEF PlainItem, Sync

LEMMA UserKeeps ==
  ASSUME NEW s \in Scenarios, Consistent(s), Typed, NEW w \in Workers, NEW r,
         CreateUser(w, r) \/ UpdateUser(w, r) \/ ResetPassword(w, r) \/ DeleteUser(w, r)
  PROVE  Typed' /\ Consistent(s)' /\ db' = db
<1>1. ASSUME NEW wr, Steady(s, clean, wr), r.op \in AccountOps \ {"boot"}, NEW rest, PlainTodo(s, clean, rest),
             Begin(w, r, << Tx(<< wr >>) >> \o rest)
      PROVE  Typed' /\ Consistent(s)' /\ db' = db
  <2> DEFINE x == Tx(<< wr >>)
             todo == << x >> \o rest
  <2>1. SteadyItem(s, clean, x)
    BY <1>1, SteadySole
  <2>2. Begin(w, r, todo)
    BY <1>1
  <2> HIDE DEF x
  <2>3. todo # <<>> /\ Head(todo) = x /\ Tail(todo) = rest
    BY <1>1, HeadTail DEF PlainTodo
  <2> HIDE DEF todo
  <2>4. Personal(s, clean, r.op, todo)
    BY <1>1, <2>1, <2>3 DEF Personal
  <2> QED BY <1>1, <2>2, <2>4, PersonalBegin
<1>7. /\ PlainTodo(s, clean, << Sync >>) /\ PlainTodo(s, clean, <<>>)
      /\ \A x : << x, Sync >> = << x >> \o << Sync >> /\ << x >> = << x >> \o <<>>
  BY SyncPlain, PlainOne, PlainNone
<1>2. Account(r.id).agents = AgentsOf(db, r.id) /\ "agents" \in DOMAIN Account(r.id)
  BY DEF Account, Over
<1>3. CASE CreateUser(w, r)
  <2> DEFINE row == [email |-> r.dto.email, role |-> r.dto.role, active |-> r.dto.active,
                     password |-> "new", hash |-> Nil]
             wr == Save("user", r.id, row)
  <2>1. r.op = "createUser" /\ Begin(w, r, << Tx(<< wr >>), Sync >>)
    BY <1>3 DEF CreateUser
  <2>2. r \in s.requests
    BY <2>1, Sent DEF BrowserOps
  <2>3. r.id # Nil
    BY <2>1, <2>2, ScenariosAssumption DEF OwnKeys
  <2> HIDE DEF row
  <2>4. Steady(s, clean, wr)
    BY <2>3 DEF Steady, Fits, Checked, Save, TableNames
  <2> HIDE DEF wr
  <2> QED BY <1>1, <1>7, <2>1, <2>4 DEF AccountOps
<1>4. CASE UpdateUser(w, r)
  <2> DEFINE row == [Account(r.id) EXCEPT !.email = New(r, "email", @), !.role = New(r, "role", @),
                                          !.active = New(r, "active", @)]
             wr == SaveAccount(r.id, row)
  <2>1. r.op = "updateUser" /\ r.id \in DOMAIN db.user /\ Begin(w, r, << Tx(<< wr >>), Sync >>)
    BY <1>4 DEF UpdateUser
  <2>2. row.agents = AgentsOf(db, r.id)
    BY <1>2
  <2> HIDE DEF row
  <2>3. Steady(s, clean, wr)
    BY <2>1, <2>2, SteadyAccount
  <2> HIDE DEF wr
  <2> QED BY <1>1, <1>7, <2>1, <2>3 DEF AccountOps
<1>5. CASE ResetPassword(w, r)
  <2> DEFINE row == [Account(r.id) EXCEPT !.password = "new"]
             wr == SaveAccount(r.id, row)
  <2>1. r.op = "resetPassword" /\ r.id \in DOMAIN db.user /\ Begin(w, r, << Tx(<< wr >>) >>)
    BY <1>5 DEF ResetPassword
  <2>2. row.agents = AgentsOf(db, r.id)
    BY <1>2
  <2> HIDE DEF row
  <2>3. Steady(s, clean, wr)
    BY <2>1, <2>2, SteadyAccount
  <2> HIDE DEF wr
  <2> QED BY <1>1, <1>7, <2>1, <2>3 DEF AccountOps
<1>6. CASE DeleteUser(w, r)
  <2> DEFINE wr == Delete("user", {r.id})
  <2>1. Begin(w, r, << Tx(<< wr >>) >>)
    BY <1>6 DEF DeleteUser
  <2>2. Plain(s, clean, wr)
    BY DEF Plain, Steady, OfAccount, Fits, Checked, Delete, TableNames
  <2> HIDE DEF wr
  <2> QED BY <2>1, <2>2, SoleBegin
<1> QED BY <1>3, <1>4, <1>5, <1>6


-----------------------------------------------------------------------------
LEMMA Listing ==
  ASSUME NEW S, IsFiniteSet(S)
  PROVE  Sequence!SetToSeq(S) \in Seq(S)
<1>1. Cardinality(S) \in Nat /\ ExistsBijection(1..Cardinality(S), S)
  BY FS_CardinalityType
<1>2. \E f \in [1..Cardinality(S) -> S] : \A i, j \in DOMAIN f : f[i] = f[j] => i = j
  BY <1>1 DEF ExistsBijection, Bijection, Injection, IsInjective
<1>3. Sequence!Cardinality(S) = Cardinality(S)
  BY DEF Sequence!Cardinality, Cardinality
<1>4. Sequence!SetToSeq(S) \in [1..Cardinality(S) -> S]
  BY <1>2, <1>3 DEF Sequence!SetToSeq, Sequence!IsInjective
<1> QED BY <1>1, <1>4

LEMMA BootKeeps ==
  ASSUME NEW s \in Scenarios, Consistent(s), Typed, NEW w \in Workers, NEW r,
         EnsureDefaultRoles(w, r)
  PROVE  Typed' /\ Consistent(s)' /\ db' = db
<1>1. PICK move : /\ SteadyItem(s, clean, move)
                  /\ \A i \in DOMAIN move.writes : Lasting(move.writes[i])
                  /\ MigrateLegacyAdminRole \in { <<>>, << move >> }
  <2>1. ASSUME NEW k PROVE Steady(s, clean, Delete("role", {k})) /\ Lasting(Delete("role", {k}))
    BY DEF Lasting, Steady, Fits, Checked, Delete, TableNames
  <2>2. ASSUME NEW k, NEW row PROVE Steady(s, clean, Save("role", k, row)) /\ Lasting(Save("role", k, row))
    BY DEF Lasting, Steady, Fits, Checked, Save, TableNames
  <2>3. ASSUME NEW where, NEW k
        PROVE  /\ Steady(s, clean, Update("user", where, [role |-> k]))
               /\ Lasting(Update("user", where, [role |-> k]))
    BY DEF Lasting, Steady, Fits, Checked, Update, TableNames
  <2> DEFINE x == Delete("role", {"admin"})
             y == Save("role", "super_admin", [system |-> TRUE, perms |-> "default"])
             z == Update("user", [role |-> "admin"], [role |-> "super_admin"])
             ws == RenameAdmin \o << z >>
  <2>4. /\ Steady(s, clean, x) /\ Steady(s, clean, y) /\ Steady(s, clean, z)
        /\ Lasting(x) /\ Lasting(y) /\ Lasting(z)
    BY <2>1, <2>2, <2>3
  <2>5. RenameAdmin \in { << x, y >>, << x >> }
    BY DEF RenameAdmin
  <2> HIDE DEF x, y, z
  <2> DEFINE T == {x, y, z}
  <2>6. ws \in Seq(T)
    <3>1. x \in T /\ y \in T /\ z \in T
      OBVIOUS
    <3> HIDE DEF T
    <3>2. << x, y >> \in Seq(T) /\ << x >> \in Seq(T) /\ << z >> \in Seq(T)
      BY <3>1
    <3>3. \A u, v \in Seq(T) : u \o v \in Seq(T)
      OBVIOUS
    <3> QED BY <2>5, <3>2, <3>3
  <2>7. IsSeq(ws) /\ \A i \in DOMAIN ws : Steady(s, clean, ws[i]) /\ Lasting(ws[i])
    <3>1. \A v \in T : Steady(s, clean, v) /\ Lasting(v)
      BY <2>4
    <3> HIDE DEF T, ws
    <3>2. IsSeq(ws) /\ \A i \in DOMAIN ws : ws[i] \in T
      BY <2>6, SeqOf
    <3> QED BY <3>1, <3>2
  <2>8. MigrateLegacyAdminRole \in { <<>>, << Tx(ws) >> }
    BY DEF MigrateLegacyAdminRole, z
  <2> HIDE DEF ws
  <2>9. SteadyItem(s, clean, Tx(ws)) /\ \A i \in DOMAIN Tx(ws).writes : Lasting(Tx(ws).writes[i])
    BY <2>7 DEF SteadyItem, Tx
  <2> QED BY <2>8, <2>9
<1>2. ASSUME NEW S, IsFiniteSet(S)
      PROVE  PlainTodo(s, clean, Each(S, DefaultRole)) /\ PlainTodo(s, clean, Each(S, SyncRole))
  <2> DEFINE q == Sequence!SetToSeq(S)
             t == [i \in DOMAIN q |-> DefaultRole(q[i])]
             u == [i \in DOMAIN q |-> SyncRole(q[i])]
  <2>1. q \in Seq(S)
    BY <1>2, Listing
  <2> HIDE DEF q
  <2>2. DOMAIN q = 1..Len(q) /\ Len(q) \in Nat
    BY <2>1
  <2>3. IsSeq(t) /\ IsSeq(u) /\ DOMAIN t = DOMAIN q /\ DOMAIN u = DOMAIN q
    <3>1. t \in Seq({ t[i] : i \in DOMAIN t }) /\ u \in Seq({ u[i] : i \in DOMAIN u })
      BY <2>2
    <3> QED BY <3>1 DEF IsSeq
  <2>4. ASSUME NEW k PROVE PlainItem(s, clean, DefaultRole(k)) /\ PlainItem(s, clean, SyncRole(k))
    <3> DEFINE x == Save("role", k, [system |-> TRUE, perms |-> "default"])
               y == Update("role", [id |-> k], [perms |-> "default"])
    <3>1. Plain(s, clean, x) /\ Plain(s, clean, y)
      BY DEF Plain, Steady, OfAccount, Fits, Checked, Save, Update, TableNames
    <3>2. DefaultRole(k) = Tx(<< x >>) /\ SyncRole(k) = Tx(<< y >>)
      BY DEF DefaultRole, SyncRole
    <3> HIDE DEF x, y
    <3> QED BY <3>1, <3>2, PlainSole
  <2>5. PlainTodo(s, clean, t) /\ PlainTodo(s, clean, u)
    BY <2>3, <2>4 DEF PlainTodo
  <2> QED BY <2>5 DEF Each, q
<1>3. IsFiniteSet(SystemRoles) /\ IsFiniteSet(MissingRoles)
  <2> DEFINE S1 == {} \cup {"super_admin"}
             S2 == S1 \cup {"tenant_admin"}
             S3 == S2 \cup {"viewer"}
             S4 == S3 \cup {"operator"}
             S5 == S4 \cup {"agent_lead"}
             S6 == S5 \cup {"agent"}
  <2>0. ASSUME NEW S, IsFiniteSet(S), NEW x PROVE IsFiniteSet(S \cup {x})
    BY <2>0, FS_AddElement
  <2>3. IsFiniteSet(S1)
    BY <2>0, FS_EmptySet
  <2>4. IsFiniteSet(S2)
    BY <2>0, <2>3
  <2>5. IsFiniteSet(S3)
    BY <2>0, <2>4
  <2>6. IsFiniteSet(S4)
    BY <2>0, <2>5
  <2>7. IsFiniteSet(S5)
    BY <2>0, <2>6
  <2>8. IsFiniteSet(S6)
    BY <2>0, <2>7
  <2>9. S6 = SystemRoles
    BY DEF SystemRoles
  <2>1. IsFiniteSet(SystemRoles)
    <3> HIDE DEF S6
    <3> QED BY <2>8, <2>9
  <2>2. MissingRoles \subseteq SystemRoles
    BY DEF MissingRoles
  <2> QED BY <2>1, <2>2, FS_Subset
<1> DEFINE a == MigrateLegacyAdminRole
           b == Each(MissingRoles, DefaultRole)
           c == Each(SystemRoles, SyncRole)
<1>4. PlainTodo(s, clean, b) /\ PlainTodo(s, clean, c)
  BY <1>2, <1>3
<1>5. Begin(w, r, a \o b \o c) /\ r.op \in AccountOps /\ a \in { <<>>, << move >> }
  BY <1>1 DEF EnsureDefaultRoles, AccountOps
<1> HIDE DEF a, b, c
<1> DEFINE bc == b \o c
<1>6. PlainTodo(s, clean, bc)
  BY <1>4, PlainJoined
<1>7. CASE a = <<>>
  <2>1. a \o b \o c = bc
    BY <1>4, <1>7 DEF PlainTodo, IsSeq
  <2> QED BY <1>5, <1>6, <2>1, PlainBegin
<1>8. CASE a = << move >>
  <2>1. a \o b \o c = << move >> \o bc
    BY <1>4, <1>8, JoinedOn DEF PlainTodo
  <2> HIDE DEF bc
  <2> DEFINE todo == << move >> \o bc
  <2>2. todo # <<>> /\ Head(todo) = move /\ Tail(todo) = bc
    BY <1>6, HeadTail DEF PlainTodo
  <2>3. Begin(w, r, todo)
    BY <1>5, <2>1
  <2> HIDE DEF todo
  <2>4. Personal(s, clean, r.op, todo)
    BY <1>1, <1>6, <2>2 DEF Personal
  <2> QED BY <1>5, <2>3, <2>4, PersonalBegin
<1> QED BY <1>5, <1>7, <1>8

LEMMA RoleKeeps ==
  ASSUME NEW s \in Scenarios, Consistent(s), Typed, NEW w \in Workers, NEW r,
         CreateRole(w, r) \/ UpdateRole(w, r) \/ DeleteRole(w, r)
  PROVE  Typed' /\ Consistent(s)' /\ db' = db
<1>1. ASSUME NEW row PROVE Plain(s, clean, Save("role", r.id, row))
  BY DEF Plain, Steady, OfAccount, Fits, Checked, Save, TableNames
<1>2. Plain(s, clean, Delete("role", {r.id}))
  BY DEF Plain, Steady, OfAccount, Fits, Checked, Delete, TableNames
<1>3. PICK wr : Plain(s, clean, wr) /\ Begin(w, r, << Tx(<< wr >>) >>)
  BY <1>1, <1>2 DEF CreateRole, UpdateRole, DeleteRole
<1> QED BY <1>3, SoleBegin

-----------------------------------------------------------------------------
LEMMA Known ==
  ASSUME NEW s, Consistent(s)
  PROVE  /\ TableNames \subseteq DOMAIN db /\ (clean => Sound(db))
         /\ {"agent", "extension", "inbound", "tenant", "menu", "group"} \subseteq DOMAIN db
         /\ Nil \notin DOMAIN db.tenant \cup DOMAIN db.inbound \cup DOMAIN db.agent
         /\ \A t \in DOMAIN db.tenant : Bounded(db.tenant[t])
         /\ \A x \in DOMAIN db.extension : Placed(x, db.extension[x])
         /\ IsFiniteSet(DOMAIN db.extension)
  BY DEF Consistent, Rowed, TableNames

LEMMA TenantKeeps ==
  ASSUME NEW s \in Scenarios, Consistent(s), Typed, NEW w \in Workers, NEW r,
         CreateTenant(w, r) \/ UpdateTenant(w, r) \/ DeleteTenant(w, r)
  PROVE  Typed' /\ Consistent(s)' /\ db' = db
<1>1. PlainTodo(s, clean, UpsertRouting(r))
  <2> DEFINE wr == Save("routing", r.id, [tenant |-> r.id, value |-> r.dto.routing])
  <2>1. Plain(s, clean, wr)
    BY DEF Plain, Steady, OfAccount, Fits, Checked, Save, TableNames
  <2>2. UpsertRouting(r) \in { << Tx(<< wr >>) >>, <<>> }
    BY DEF UpsertRouting
  <2> HIDE DEF wr
  <2>3. PlainTodo(s, clean, << Tx(<< wr >>) >>)
    BY <2>1, PlainSole
  <2> QED BY <2>2, <2>3, PlainNone
<1>2. ASSUME NEW row, Bounded(row), r.id # Nil,
             Begin(w, r, << Tx(<< Save("tenant", r.id, row) >>) >> \o UpsertRouting(r))
      PROVE  Typed' /\ Consistent(s)' /\ db' = db
  <2> DEFINE wr == Save("tenant", r.id, row)
             one == << Tx(<< wr >>) >>
             two == UpsertRouting(r)
             todo == one \o two
  <2>1. Plain(s, clean, wr)
    BY <1>2 DEF Plain, Steady, OfAccount, Fits, Checked, Save, TableNames
  <2>2. PlainTodo(s, clean, one)
    <3> HIDE DEF wr
    <3> QED BY <2>1, PlainSole
  <2>3. Begin(w, r, todo)
    BY <1>2
  <2> HIDE DEF one, two
  <2>4. PlainTodo(s, clean, todo)
    BY <1>1, <2>2, PlainJoined DEF two
  <2> HIDE DEF todo
  <2> QED BY <2>3, <2>4, PlainBegin
<1>3. CASE CreateTenant(w, r)
  <2> DEFINE row == [domain |-> r.dto.domain, limit |-> New(r, "limit", Nil)]
  <2>1. r.op = "createTenant" /\ Begin(w, r, << Tx(<< Save("tenant", r.id, row) >>) >> \o UpsertRouting(r))
    BY <1>3 DEF CreateTenant
  <2>2. r \in s.requests
    BY <2>1, Sent DEF BrowserOps
  <2>3. r.id # Nil /\ ("limit" \in DOMAIN r.dto => r.dto.limit \in Nat \cup {Nil})
    BY <2>1, <2>2, ScenariosAssumption
  <2>4. Bounded(row)
    BY <2>3 DEF Bounded, New, Given
  <2> HIDE DEF row
  <2> QED BY <1>2, <2>1, <2>3, <2>4
<1>4. CASE UpdateTenant(w, r)
  <2> DEFINE row == [db.tenant[r.id] EXCEPT !.domain = New(r, "domain", @), !.limit = New(r, "limit", @)]
  <2>1. /\ r.op = "updateTenant" /\ r.id \in DOMAIN db.tenant
        /\ Begin(w, r, << Tx(<< Save("tenant", r.id, row) >>) >> \o UpsertRouting(r))
    BY <1>4 DEF UpdateTenant
  <2>2. r \in s.requests
    BY <2>1, Sent DEF BrowserOps
  <2>3. r.id # Nil /\ ("limit" \in DOMAIN r.dto => r.dto.limit \in Nat \cup {Nil})
    BY <2>1, <2>2, ScenariosAssumption
  <2>4. Bounded(db.tenant[r.id])
    BY <2>1, Known
  <2>5. Bounded(row)
    BY <2>3, <2>4 DEF Bounded, New, Given
  <2> HIDE DEF row
  <2> QED BY <1>2, <2>1, <2>3, <2>5
<1>5. CASE DeleteTenant(w, r)
  <2> DEFINE wr == Delete("tenant", {r.id})
  <2>1. Begin(w, r, << Tx(<< wr >>) >>)
    BY <1>5 DEF DeleteTenant
  <2>2. Plain(s, clean, wr)
    BY DEF Plain, Steady, OfAccount, Fits, Checked, Delete, TableNames
  <2> HIDE DEF wr
  <2> QED BY <2>1, <2>2, SoleBegin
<1> QED BY <1>3, <1>4, <1>5

(* A new extension is made below the limit of its tenant.                   *)
LEMMA ExtensionRight ==
  ASSUME NEW d, {"agent", "extension", "inbound", "tenant"} \subseteq DOMAIN d, Sound(d), NEW x, NEW row, NEW e,
         e = Effect(d, Save("extension", x, row)), IsFiniteSet(DOMAIN d.extension),
         \/ x \in DOMAIN d.extension
         \/ /\ Bounded(d.tenant[x[1]])
            /\ d.tenant[x[1]].limit # Nil
               => Cardinality({ y \in DOMAIN d.extension : y[1] = x[1] }) < d.tenant[x[1]].limit
  PROVE  Right(d, e)
<1> DEFINE wr == Save("extension", x, row)
<1>1. wr.kind = "save" /\ wr.table = "extension" /\ wr.id = x
  BY DEF Save
<1>2. /\ DOMAIN e = DOMAIN d
      /\ \A t \in DOMAIN d \ {wr.table} : e[t] = d[t]
      /\ DOMAIN e[wr.table] = DOMAIN d[wr.table] \cup {wr.id}
  <2>1. wr.table \in DOMAIN d
    BY <1>1
  <2> HIDE DEF wr
  <2>2. e = Effect(d, wr)
    BY DEF wr
  <2> QED BY <1>1, <2>1, <2>2, SaveEffect
<1>3. /\ e.agent = d.agent /\ e.inbound = d.inbound /\ e.tenant = d.tenant
      /\ DOMAIN e.extension = DOMAIN d.extension \cup {x}
  BY <1>1, <1>2
<1>4. Sound(e)
  BY <1>3 DEF Sound, Equipped, Rooted
<1>5. QuotaOf(d, e)
  <2> SUFFICES ASSUME NEW y \in DOMAIN e.extension \ DOMAIN d.extension, e.tenant[y[1]].limit # Nil
               PROVE  Cardinality({ z \in DOMAIN e.extension : z[1] = y[1] }) <= e.tenant[y[1]].limit
    BY DEF QuotaOf, Within
  <2> DEFINE A == { z \in DOMAIN d.extension : z[1] = x[1] }
             B == { z \in DOMAIN e.extension : z[1] = x[1] }
  <2>1. y = x /\ x \notin DOMAIN d.extension
    BY <1>3
  <2>2. B = A \cup {x} /\ IsFiniteSet(A) /\ x \notin A
    BY <1>3, <2>1, FS_Subset
  <2>3. d.tenant[x[1]].limit \in Nat /\ Cardinality(A) < d.tenant[x[1]].limit
    BY <1>3, <2>1 DEF Bounded
  <2> HIDE DEF A, B
  <2>4. Cardinality(A) \in Nat /\ Cardinality(B) = Cardinality(A) + 1
    BY <2>2, FS_AddElement, FS_CardinalityType
  <2>5. Cardinality(B) <= d.tenant[x[1]].limit
    BY <2>3, <2>4
  <2> QED BY <1>3, <2>1, <2>5 DEF B
<1>6. RoutesOf(d, e)
  BY <1>3 DEF RoutesOf
<1> QED BY <1>4, <1>5, <1>6 DEF Right

LEMMA ExtensionKeeps ==
  ASSUME NEW s \in Scenarios, Consistent(s), Typed, NEW w \in Workers, NEW r,
         \/ CreateExtension(w, r) \/ UpdateExtension(w, r) \/ DeleteExtension(w, r)
         \/ ExternalCreateExtension(w, r) \/ ExternalUpdateExtension(w, r) \/ ExternalDeleteExtension(w, r)
  PROVE  Typed' /\ Consistent(s)' /\ db' = db
<1>0. /\ {"agent", "extension", "inbound", "tenant"} \subseteq DOMAIN db /\ (clean => Sound(db))
      /\ IsFiniteSet(DOMAIN db.extension)
  BY Known
<1>1. ASSUME NEW row, Placed(r.id, row), Begin(w, r, << Tx(<< Save("extension", r.id, row) >>) >>),
             clean => Right(db, Effect(db, Save("extension", r.id, row)))
      PROVE  Typed' /\ Consistent(s)' /\ db' = db
  <2> DEFINE wr == Save("extension", r.id, row)
  <2>1. Checked(wr) /\ Fits(s, clean, wr) /\ wr.table # "agent"
    BY <1>1 DEF Fits, Checked, Save, TableNames
  <2>2. Begin(w, r, << Tx(<< wr >>) >>) /\ (clean => Right(db, Effect(db, wr)))
    BY <1>1
  <2> HIDE DEF wr
  <2> QED BY <2>1, <2>2, CheckedBegin
<1>2. CASE NewExtension(w, r)
  <2> DEFINE row == ExtensionRow(r.id, r.dto.password)
             e == Effect(db, Save("extension", r.id, row))
  <2>1. r.id[1] \in DOMAIN db.tenant /\ BelowLimit(r.id[1]) /\ Begin(w, r, << Tx(<< Save("extension", r.id, row) >>) >>)
    BY <1>2 DEF NewExtension
  <2>2. Bounded(db.tenant[r.id[1]]) /\ r.id[1] # Nil
    BY <2>1, Known
  <2>3. Placed(r.id, row)
    BY <2>2 DEF Placed, ExtensionRow
  <2>4. db.tenant[r.id[1]].limit # Nil
        => Cardinality({ y \in DOMAIN db.extension : y[1] = r.id[1] }) < db.tenant[r.id[1]].limit
    BY <2>1 DEF BelowLimit, ExtensionsOf
  <2> HIDE DEF row
  <2>5. clean => Right(db, e)
    <3> HIDE DEF e
    <3>1. e = Effect(db, Save("extension", r.id, row))
      BY DEF e
    <3> QED BY <1>0, <2>2, <2>4, <3>1, ExtensionRight
  <2> QED BY <1>1, <2>1, <2>3, <2>5
<1>3. CASE r.id \in DOMAIN db.extension /\ ChangeExtension(w, r)
  <2> DEFINE row == [db.extension[r.id] EXCEPT !.password = New(r, "password", @)]
             e == Effect(db, Save("extension", r.id, row))
  <2>1. Begin(w, r, << Tx(<< Save("extension", r.id, row) >>) >>)
    BY <1>3 DEF ChangeExtension
  <2>2. Placed(r.id, db.extension[r.id])
    BY <1>3, Known
  <2>3. Placed(r.id, row)
    BY <2>2 DEF Placed
  <2> HIDE DEF row
  <2>4. clean => Right(db, e)
    <3> HIDE DEF e
    <3>1. e = Effect(db, Save("extension", r.id, row))
      BY DEF e
    <3> QED BY <1>0, <1>3, <3>1, ExtensionRight
  <2> QED BY <1>1, <2>1, <2>3, <2>4
<1>4. CASE RemoveExtension(w, r)
  <2> DEFINE x == Update("agent", [tenant |-> r.id[1], extension |-> r.id[2]], [extension |-> Nil])
             y == Delete("extension", {r.id})
             todo == << Tx(<< x >>), Tx(<< y >>) >>
  <2>1. Plain(s, clean, x) /\ Plain(s, clean, y)
    BY DEF Plain, Steady, OfAccount, Fits, Checked, Update, Delete, TableNames
  <2>2. Begin(w, r, todo)
    BY <1>4 DEF RemoveExtension
  <2> HIDE DEF x, y
  <2>3. PlainTodo(s, clean, todo)
    BY <2>1, PlainSole, PlainTwo
  <2> HIDE DEF todo
  <2> QED BY <2>2, <2>3, PlainBegin
<1> QED BY <1>2, <1>3, <1>4 DEF CreateExtension, UpdateExtension, DeleteExtension, ExternalCreateExtension,
                               ExternalUpdateExtension, ExternalDeleteExtension, ExtensionAccess

-----------------------------------------------------------------------------
LEMMA PlainRoutingKeeps ==
  ASSUME NEW s \in Scenarios, Consistent(s), Typed, NEW w \in Workers, NEW r,
         \/ CreateRoute(w, r) \/ UpdateRoute(w, r) \/ DeleteRoute(w, r)
         \/ CreateCallerId(w, r) \/ UpdateCallerId(w, r) \/ DeleteCallerId(w, r)
         \/ DeleteInbound(w, r) \/ CreateMenu(w, r) \/ UpdateMenu(w, r) \/ DeleteMenu(w, r)
         \/ CreateRule(w, r) \/ UpdateRule(w, r) \/ DeleteRule(w, r)
  PROVE  Typed' /\ Consistent(s)' /\ db' = db
<1>1. ASSUME NEW row
      PROVE  /\ Plain(s, clean, Save("outbound", r.id, row)) /\ Plain(s, clean, Save("callerid", r.id, row))
             /\ Plain(s, clean, Save("menu", r.id, row)) /\ Plain(s, clean, Save("rule", r.id, row))
  BY DEF Plain, Steady, OfAccount, Fits, Checked, Save, TableNames
<1>2. /\ Plain(s, clean, Delete("outbound", {r.id})) /\ Plain(s, clean, Delete("callerid", {r.id}))
      /\ Plain(s, clean, Delete("inbound", {r.id})) /\ Plain(s, clean, Delete("menu", {r.id}))
      /\ Plain(s, clean, Delete("rule", {r.id}))
  BY DEF Plain, Steady, OfAccount, Fits, Checked, Delete, TableNames
<1>3. ASSUME NEW where, NEW set
      PROVE  Plain(s, clean, Update("menu", where, set)) /\ Plain(s, clean, Update("rule", where, set))
  BY DEF Plain, Steady, OfAccount, Fits, Checked, Update
<1>4. ASSUME \E wr : Plain(s, clean, wr) /\ Begin(w, r, << Tx(<< wr >>) >>)
      PROVE  Typed' /\ Consistent(s)' /\ db' = db
  BY <1>4, SoleBegin
<1>5. CASE CreateRoute(w, r)
  <2>1. Begin(w, r, << Tx(<< Save("outbound", r.id, r.dto) >>) >>)
    BY <1>5 DEF CreateRoute, CreateOutbound
  <2> QED BY <1>1, <1>4, <2>1
<1>6. CASE CreateCallerId(w, r)
  <2>1. Begin(w, r, << Tx(<< Save("callerid", r.id, r.dto) >>) >>)
    BY <1>6 DEF CreateCallerId, CreateOutbound
  <2> QED BY <1>1, <1>4, <2>1
<1>7. CASE UpdateRoute(w, r)
  <2>1. \E row : Begin(w, r, << Tx(<< Save("outbound", r.id, row) >>) >>)
    BY <1>7 DEF UpdateRoute, UpdateOutbound
  <2> QED BY <1>1, <1>4, <2>1
<1>8. CASE UpdateCallerId(w, r)
  <2>1. \E row : Begin(w, r, << Tx(<< Save("callerid", r.id, row) >>) >>)
    BY <1>8 DEF UpdateCallerId, UpdateOutbound
  <2> QED BY <1>1, <1>4, <2>1
<1>9. CASE DeleteRoute(w, r)
  BY <1>2, <1>4, <1>9 DEF DeleteRoute, DeleteOutbound
<1>10. CASE DeleteCallerId(w, r)
  BY <1>2, <1>4, <1>10 DEF DeleteCallerId, DeleteOutbound
<1>11. CASE DeleteInbound(w, r)
  BY <1>2, <1>4, <1>11 DEF DeleteInbound
<1>12. CASE CreateMenu(w, r)
  BY <1>1, <1>4, <1>12 DEF CreateMenu
<1>13. CASE UpdateMenu(w, r)
  <2> DEFINE now == [tenant |-> New(r, "tenant", db.menu[r.id].tenant), name |-> New(r, "name", db.menu[r.id].name)]
             x == Update("menu", [id |-> r.id], [options |-> {}])
             y == Save("menu", r.id, Over([options |-> r.dto.options], now))
             todo == << Tx(<< x >>), Tx(<< y >>) >>
  <2>1. Begin(w, r, todo) \/ Begin(w, r, << Tx(<< Save("menu", r.id, now) >>) >>)
    BY <1>13 DEF UpdateMenu
  <2>2. Plain(s, clean, x) /\ Plain(s, clean, y)
    BY <1>1, <1>3
  <2>3. PlainTodo(s, clean, todo)
    <3> HIDE DEF x, y
    <3> QED BY <2>2, PlainSole, PlainTwo
  <2>4. CASE Begin(w, r, todo)
    <3> HIDE DEF todo
    <3> QED BY <2>3, <2>4, PlainBegin
  <2> HIDE DEF now
  <2>5. CASE Begin(w, r, << Tx(<< Save("menu", r.id, now) >>) >>)
    BY <1>1, <1>4, <2>5
  <2> QED BY <2>1, <2>4, <2>5
<1>14. CASE DeleteMenu(w, r)
  BY <1>2, <1>4, <1>14 DEF DeleteMenu
<1>15. CASE CreateRule(w, r)
  BY <1>1, <1>4, <1>15 DEF CreateRule
<1>16. CASE UpdateRule(w, r)
  <2> DEFINE x == Save("rule", r.id, [db.rule[r.id] EXCEPT !.tenant = New(r, "tenant", @)])
             y == Update("rule", [id |-> r.id], [actions |-> r.dto.actions])
             more == IF Given(r, "actions") THEN << y >> ELSE <<>>
             ws == << x >> \o more
  <2>1. Begin(w, r, << Tx(ws) >>)
    BY <1>16 DEF UpdateRule
  <2>2. Plain(s, clean, x) /\ Plain(s, clean, y)
    BY <1>1, <1>3
  <2> HIDE DEF x, y
  <2>3. PlainWrites(s, clean, << x >>) /\ PlainWrites(s, clean, more)
    BY <2>2, PlainOne, PlainNone
  <2> HIDE DEF more
  <2>4. PlainWrites(s, clean, ws)
    BY <2>3, PlainJoined
  <2> HIDE DEF ws
  <2> DEFINE todo == << Tx(ws) >>
  <2>5. PlainTodo(s, clean, todo)
    BY <2>4, PlainTx, PlainOne
  <2>6. Begin(w, r, todo)
    BY <2>1
  <2> HIDE DEF todo
  <2> QED BY <2>5, <2>6, PlainBegin
<1>17. CASE DeleteRule(w, r)
  BY <1>2, <1>4, <1>17 DEF DeleteRule
<1> QED BY <1>5, <1>6, <1>7, <1>8, <1>9, <1>10, <1>11, <1>12, <1>13, <1>14, <1>15, <1>16, <1>17

LEMMA NetworkRequestKeeps ==
  ASSUME NEW s \in Scenarios, Consistent(s), Typed, NEW w \in Workers, NEW r, NetworkRequest(w, r)
  PROVE  Typed' /\ Consistent(s)' /\ db' = db
<1>1. ASSUME NEW id, NEW row
      PROVE  /\ PlainItem(s, clean, Tx(<< Save("gateway", id, row) >>))
             /\ PlainItem(s, clean, Tx(<< Save("setting", id, row) >>))
  <2> DEFINE x == Save("gateway", id, row)
             y == Save("setting", id, row)
  <2>1. Plain(s, clean, x) /\ Plain(s, clean, y)
    BY DEF Plain, Steady, OfAccount, Fits, Checked, Save, TableNames
  <2> HIDE DEF x, y
  <2>2. PlainItem(s, clean, Tx(<< x >>)) /\ PlainItem(s, clean, Tx(<< y >>))
    BY <2>1, PlainSole
  <2> QED BY <2>2 DEF x, y
<1>2. PlainItem(s, clean, Tx(<< Delete("gateway", {r.id}) >>))
  <2> DEFINE x == Delete("gateway", {r.id})
  <2>1. Plain(s, clean, x)
    BY DEF Plain, Steady, OfAccount, Fits, Checked, Delete, TableNames
  <2> HIDE DEF x
  <2>2. PlainItem(s, clean, Tx(<< x >>))
    BY <2>1, PlainSole
  <2> QED BY <2>2 DEF x
<1>3. /\ \A file, row : PlainItem(s, clean, WriteGateway(file, row))
      /\ \A file : PlainItem(s, clean, Unlink(file))
      /\ \A ports : PlainItem(s, clean, WritePorts(ports))
      /\ \A name, arg, value : PlainItem(s, clean, Command(name, arg, value))
  BY DEF PlainItem, WriteGateway, Unlink, WritePorts, Command
<1>4. (\A profile : PlainItem(s, clean, RescanProfile(profile))) /\ PlainItem(s, clean, RestartProfile)
  BY <1>3 DEF RescanProfile, RestartProfile
<1>t. ASSUME NEW a, NEW b, NEW c, PlainItem(s, clean, a), PlainItem(s, clean, b), PlainItem(s, clean, c)
      PROVE  PlainTodo(s, clean, << a, b, c >>)
  <2>1. << a, b, c >> = << a >> \o << b, c >>
    OBVIOUS
  <2>2. PlainTodo(s, clean, << a >>) /\ PlainTodo(s, clean, << b, c >>)
    BY <1>t, PlainOne, PlainTwo
  <2> DEFINE t == << a >>
             u == << b, c >>
  <2>3. PlainTodo(s, clean, t) /\ PlainTodo(s, clean, u)
    BY <2>2
  <2> HIDE DEF t, u
  <2>4. PlainTodo(s, clean, t \o u)
    BY <2>3, PlainJoined
  <2> QED BY <2>1, <2>4 DEF t, u
<1>f. ASSUME NEW a, NEW b, NEW c, NEW d, PlainItem(s, clean, a), PlainItem(s, clean, b), PlainItem(s, clean, c),
             PlainItem(s, clean, d)
      PROVE  PlainTodo(s, clean, << a, b, c, d >>)
  <2>1. << a, b, c, d >> = << a >> \o << b, c, d >>
    OBVIOUS
  <2> DEFINE t == << a >>
             u == << b, c, d >>
  <2>2. PlainTodo(s, clean, t) /\ PlainTodo(s, clean, u)
    BY <1>t, <1>f, PlainOne
  <2> HIDE DEF t, u
  <2>3. PlainTodo(s, clean, t \o u)
    BY <2>2, PlainJoined
  <2> QED BY <2>1, <2>3 DEF t, u
<1>5. CASE CreateGateway(w, r)
  <2> DEFINE file == BuildConfigFilename(r.dto.name, r.id)
             row == [name |-> r.dto.name, file |-> file, profile |-> New(r, "profile", "external")]
             a == Tx(<< Save("gateway", r.id, [row EXCEPT !.file = Nil]) >>)
             b == Tx(<< Save("gateway", r.id, row) >>)
             c == WriteGateway(file, row)
             d == RescanProfile(row.profile)
             todo == << a, b, c, d >>
  <2>1. Begin(w, r, todo)
    BY <1>5 DEF CreateGateway
  <2>2. PlainItem(s, clean, a) /\ PlainItem(s, clean, b) /\ PlainItem(s, clean, c) /\ PlainItem(s, clean, d)
    BY <1>1, <1>3, <1>4
  <2> HIDE DEF a, b, c, d
  <2>3. PlainTodo(s, clean, todo)
    BY <1>f, <2>2
  <2> HIDE DEF todo
  <2> QED BY <2>1, <2>3, PlainBegin
<1>6. CASE UpdateGateway(w, r)
  <2> DEFINE now == db.gateway[r.id]
             next == Updated(r, now)
             first == RemoveOld(now, next)
             a == Tx(<< Save("gateway", r.id, next) >>)
             then == WriteNew(r.id, now, next)
             some == first \o << a >>
             todo == some \o then
  <2>1. Begin(w, r, todo)
    BY <1>6 DEF UpdateGateway
  <2>2. PlainTodo(s, clean, << a >>)
    <3>1. PlainItem(s, clean, a)
      BY <1>1
    <3> HIDE DEF a
    <3> QED BY <3>1, PlainOne
  <2>3. PlainTodo(s, clean, then)
    <3> DEFINE b == WriteGateway(FileOf(r.id, next), next)
               c == RescanProfile(next.profile)
    <3>1. PlainItem(s, clean, b) /\ PlainItem(s, clean, c)
      BY <1>3, <1>4
    <3>2. then = << b, c >>
      BY DEF WriteNew
    <3> HIDE DEF b, c, then
    <3> QED BY <3>1, <3>2, PlainTwo
  <2>4. PlainTodo(s, clean, first)
    <3>1. PlainTodo(s, clean, << Unlink(now.file) >>)
      BY <1>3, PlainOne
    <3> QED BY <3>1, PlainNone DEF RemoveOld
  <2> HIDE DEF first, then, a
  <2>5. PlainTodo(s, clean, some)
    BY <2>2, <2>4, PlainJoined
  <2> HIDE DEF some
  <2>6. PlainTodo(s, clean, todo)
    BY <2>3, <2>5, PlainJoined
  <2> HIDE DEF todo
  <2> QED BY <2>1, <2>6, PlainBegin
<1>7. CASE DeleteGateway(w, r)
  <2> DEFINE now == db.gateway[r.id]
             a == Tx(<< Delete("gateway", {r.id}) >>)
             b == KillGateway(now.profile, now.name)
             c == Unlink(now.file)
             d == RescanProfile(now.profile)
             todo == << a, b, c, d >>
  <2>1. Begin(w, r, todo)
    BY <1>7 DEF DeleteGateway
  <2>2. PlainItem(s, clean, a) /\ PlainItem(s, clean, b) /\ PlainItem(s, clean, c) /\ PlainItem(s, clean, d)
    BY <1>2, <1>3, <1>4 DEF KillGateway
  <2> HIDE DEF a, b, c, d
  <2>3. PlainTodo(s, clean, todo)
    BY <1>f, <2>2
  <2> HIDE DEF todo
  <2> QED BY <2>1, <2>3, PlainBegin
<1>8. CASE UpdateFsPortConfig(w, r)
  <2> DEFINE ports == NormalizePortConfig(r)
             a == Tx(<< Save("setting", "ports", ports) >>)
             first == << a, WritePorts(ports) >>
             vs == [i \in 1..3 |-> LET v == <<"internal", "rtpStart", "rtpEnd">>[i] IN SetVar(v, ports[v])]
             last == << RestartProfile >>
             some == first \o vs
             todo == some \o last
  <2>1. Begin(w, r, todo)
    BY <1>8 DEF UpdateFsPortConfig
  <2>2. PlainItem(s, clean, a) /\ PlainItem(s, clean, WritePorts(ports))
    BY <1>1, <1>3
  <2>3. PlainTodo(s, clean, first)
    <3> HIDE DEF a, ports
    <3> QED BY <2>2, PlainTwo
  <2>4. PlainTodo(s, clean, last)
    BY <1>4, PlainOne
  <2>5. PlainTodo(s, clean, vs)
    <3>1. \A v, x : PlainItem(s, clean, SetVar(v, x))
      BY <1>3 DEF SetVar
    <3>2. DOMAIN vs = 1..3 /\ \A i \in 1..3 : PlainItem(s, clean, vs[i])
      BY <3>1
    <3>3. vs \in Seq({ vs[i] : i \in DOMAIN vs })
      <4>1. vs \in [1..3 -> { vs[i] : i \in DOMAIN vs }]
        OBVIOUS
      <4>2. \A T : \A n \in Nat : \A f \in [1..n -> T] : f \in Seq(T)
        OBVIOUS
      <4> HIDE DEF vs
      <4> QED BY <4>1, <4>2
    <3> HIDE DEF vs
    <3> QED BY <3>2, <3>3 DEF PlainTodo, IsSeq
  <2> HIDE DEF first, vs, last
  <2>6. PlainTodo(s, clean, some)
    BY <2>3, <2>5, PlainJoined
  <2> HIDE DEF some
  <2>7. PlainTodo(s, clean, todo)
    BY <2>4, <2>6, PlainJoined
  <2> HIDE DEF todo
  <2> QED BY <2>1, <2>7, PlainBegin
<1>9. CASE UpdateRecordingStorageConfig(w, r)
  <2> DEFINE a == Tx(<< Save("setting", "storage", r.dto) >>)
             todo == << a >>
  <2>1. Begin(w, r, todo)
    BY <1>9 DEF UpdateRecordingStorageConfig
  <2>2. PlainItem(s, clean, a)
    BY <1>1
  <2> HIDE DEF a
  <2>3. PlainTodo(s, clean, todo)
    BY <2>2, PlainOne
  <2> HIDE DEF todo
  <2> QED BY <2>1, <2>3, PlainBegin
<1> QED BY <1>5, <1>6, <1>7, <1>8, <1>9 DEF NetworkRequest

LEMMA SessionRequestKeeps ==
  ASSUME NEW s \in Scenarios, Consistent(s), Typed, NEW w \in Workers, NEW r, SessionRequest(w, r)
  PROVE  Typed' /\ Consistent(s)' /\ db' = db
<1>1. ASSUME NEW todo, Begin(w, r, todo), Answers(todo), r.op \in BrowserOps
      PROVE  Typed' /\ Consistent(s)' /\ db' = db
  <2>1. Awaits(s, Used(s)', clean, db, clean, r.op, todo)
    BY <1>1 DEF Awaits, Going
  <2> QED BY <1>1, <2>1, BeginKeeps
<1>3. CASE (Login(w, r) \/ Refresh(w, r)) /\ IssueTokenBundle(w, r)
  <2> DEFINE b == bundles + 1
             todo == << Remember(b), Reply(b) >>
  <2>1. Answers(todo)
    <3> DEFINE x == Remember(b)
               y == Reply(b)
    <3>1. << x, y >> # <<>> /\ Head(<< x, y >>) = x /\ Tail(<< x, y >>) = << y >>
      <4> HIDE DEF x, y
      <4> QED OBVIOUS
    <3> QED BY <3>1 DEF Answers
  <2>2. Begin(w, r, todo) /\ r.op \in BrowserOps
    BY <1>3 DEF IssueTokenBundle, Login, Refresh, BrowserOps
  <2> HIDE DEF todo
  <2> QED BY <1>1, <2>1, <2>2
<1>4. CASE Logout(w, r)
  <2> DEFINE first == IF r.by \in DOMAIN db.user /\ db.user[r.by].hash = r.dto.token THEN << Remember(Nil) >> ELSE <<>>
             todo == first \o << Reply(0) >>
  <2>1. Begin(w, r, todo) /\ r.op \in BrowserOps
    BY <1>4 DEF Logout, BrowserOps
  <2>2. Answers(<< Remember(Nil) >> \o << Reply(0) >>)
    <3>1. IsSeq(<< Reply(0) >>)
      <4> DEFINE y == Reply(0)
      <4>1. << y >> \in Seq({y})
        <5> HIDE DEF y
        <5> QED OBVIOUS
      <4> QED BY <4>1, SeqOf
    <3> DEFINE x == Remember(Nil)
               u == << Reply(0) >>
    <3>2. << x >> \o u # <<>> /\ Head(<< x >> \o u) = x /\ Tail(<< x >> \o u) = u
      <4> HIDE DEF x, u
      <4>1. IsSeq(u)
        BY <3>1 DEF u
      <4> QED BY <4>1, HeadTail
    <3> QED BY <3>2 DEF Answers
  <2>3. <<>> \o << Reply(0) >> = << Reply(0) >>
    <3> DEFINE y == Reply(0)
    <3>1. << y >> \in Seq({y})
      <4> HIDE DEF y
      <4> QED OBVIOUS
    <3>2. \A t \in Seq({y}) : <<>> \o t = t
      <4> HIDE DEF y
      <4> QED OBVIOUS
    <3> QED BY <3>1, <3>2
  <2>4. first \in { << Remember(Nil) >>, <<>> }
    OBVIOUS
  <2>5. Answers(todo)
    <3>1. todo = first \o << Reply(0) >>
      OBVIOUS
    <3> HIDE DEF first, todo
    <3>2. todo \in { << Remember(Nil) >> \o << Reply(0) >>, << Reply(0) >> }
      BY <2>3, <2>4, <3>1
    <3> QED BY <2>2, <3>2, OneAnswer
  <2> HIDE DEF todo
  <2> QED BY <1>1, <2>1, <2>5
<1> QED BY <1>3, <1>4 DEF SessionRequest, Login, Refresh

-----------------------------------------------------------------------------
(* A route is given the number and the destination that were checked.       *)
Leads(d, row) ==
    CASE row.type = "extension" -> <<row.tenant, row.value>> \in DOMAIN d.extension
      [] row.type = "ivr"       -> row.value \in DOMAIN d.menu /\ d.menu[row.value].tenant = row.tenant
      [] OTHER                  -> TRUE

Alone(d, row, i) ==
    \A j \in DOMAIN d.inbound : d.inbound[j].tenant = row.tenant /\ d.inbound[j].did = row.did => j = i

LEMMA InboundRight ==
  ASSUME NEW d, {"agent", "extension", "inbound", "menu"} \subseteq DOMAIN d, Sound(d), NEW i, NEW row, NEW e,
         e = Effect(d, Save("inbound", i, row)), InboundColumns \subseteq DOMAIN row,
         i \notin DOMAIN d.inbound \/ d.inbound[i].did # row.did => Alone(d, row, i),
         \/ i \in DOMAIN d.inbound /\ d.inbound[i].type = row.type /\ d.inbound[i].value = row.value
         \/ Leads(d, row)
  PROVE  Right(d, e)
<1> DEFINE wr == Save("inbound", i, row)
<1>1. wr.kind = "save" /\ wr.table = "inbound" /\ wr.id = i /\ wr.row = row
  BY DEF Save
<1>2. /\ DOMAIN e = DOMAIN d
      /\ \A t \in DOMAIN d \ {wr.table} : e[t] = d[t]
      /\ DOMAIN e[wr.table] = DOMAIN d[wr.table] \cup {wr.id}
      /\ \A j \in DOMAIN d[wr.table] \ {wr.id} : e[wr.table][j] = d[wr.table][j]
      /\ e[wr.table][wr.id] =
           Over(wr.row, IF wr.id \in DOMAIN d[wr.table] THEN d[wr.table][wr.id] ELSE Absent(wr.table))
  <2>1. wr.table \in DOMAIN d
    BY <1>1
  <2> HIDE DEF wr
  <2>2. e = Effect(d, wr)
    BY DEF wr
  <2> QED BY <1>1, <2>1, <2>2, SaveEffect
<1>3. /\ e.agent = d.agent /\ e.extension = d.extension /\ e.menu = d.menu
      /\ DOMAIN e.inbound = DOMAIN d.inbound \cup {i}
      /\ \A j \in DOMAIN d.inbound \ {i} : e.inbound[j] = d.inbound[j]
  BY <1>1, <1>2
<1>4. /\ e.inbound[i].tenant = row.tenant /\ e.inbound[i].did = row.did
      /\ e.inbound[i].type = row.type /\ e.inbound[i].value = row.value
  <2> DEFINE old == IF wr.id \in DOMAIN d[wr.table] THEN d[wr.table][wr.id] ELSE Absent(wr.table)
  <2>1. e.inbound[i] = Over(row, old)
    BY <1>1, <1>2
  <2> HIDE DEF old
  <2>2. \A c \in DOMAIN row : Over(row, old)[c] = row[c]
    BY DEF Over
  <2> QED BY <2>1, <2>2 DEF InboundColumns
<1> HIDE DEF wr
<1>5. Sound(e)
  BY <1>3 DEF Sound, Equipped, Rooted
<1>6. QuotaOf(d, e)
  BY <1>3 DEF QuotaOf
<1>7. ASSUME NEW j \in DOMAIN e.inbound, j \notin DOMAIN d.inbound \/ d.inbound[j].did # e.inbound[j].did
      PROVE  NumberedIn(e, j)
  <2>1. j = i
    BY <1>3, <1>7
  <2>2. Alone(d, row, i)
    BY <1>4, <1>7, <2>1
  <2> QED BY <1>3, <1>4, <2>1, <2>2 DEF Alone, NumberedIn
<1>8. ASSUME NEW j \in DOMAIN e.inbound,
             j \notin DOMAIN d.inbound
             \/ <<d.inbound[j].type, d.inbound[j].value>> # <<e.inbound[j].type, e.inbound[j].value>>
      PROVE  DestinedIn(e, j)
  <2>1. j = i
    BY <1>3, <1>8
  <2>2. Leads(d, row)
    BY <1>4, <1>8, <2>1
  <2> QED BY <1>3, <1>4, <2>1, <2>2 DEF Leads, DestinedIn
<1>9. RoutesOf(d, e)
  BY <1>7, <1>8 DEF RoutesOf
<1> QED BY <1>5, <1>6, <1>9 DEF Right

LEMMA InboundKeeps ==
  ASSUME NEW s \in Scenarios, Consistent(s), Typed, NEW w \in Workers, NEW r,
         CreateInbound(w, r) \/ UpdateInbound(w, r)
  PROVE  Typed' /\ Consistent(s)' /\ db' = db
<1>0. /\ {"agent", "extension", "inbound", "menu"} \subseteq DOMAIN db /\ (clean => Sound(db))
      /\ Nil \notin DOMAIN db.inbound
  BY Known
<1>1. ASSUME NEW row, InboundColumns \subseteq DOMAIN row, r.id # Nil,
             Begin(w, r, << Tx(<< Save("inbound", r.id, row) >>) >>),
             r.id \notin DOMAIN db.inbound \/ db.inbound[r.id].did # row.did => Alone(db, row, r.id),
             \/ r.id \in DOMAIN db.inbound /\ db.inbound[r.id].type = row.type /\ db.inbound[r.id].value = row.value
             \/ Leads(db, row)
      PROVE  Typed' /\ Consistent(s)' /\ db' = db
  <2> DEFINE wr == Save("inbound", r.id, row)
             e == Effect(db, wr)
  <2>1. Checked(wr) /\ Fits(s, clean, wr) /\ wr.table # "agent"
    BY <1>1 DEF Fits, Checked, Save, TableNames
  <2>2. Begin(w, r, << Tx(<< wr >>) >>)
    BY <1>1
  <2>3. e = Effect(db, Save("inbound", r.id, row))
    OBVIOUS
  <2> HIDE DEF e
  <2>4. clean => Right(db, e)
    BY <1>0, <1>1, <2>3, InboundRight
  <2> HIDE DEF wr
  <2> QED BY <2>1, <2>2, <2>4, CheckedBegin DEF e
<1>2. CASE CreateInbound(w, r)
  <2>1. /\ r.op = "createInbound" /\ EnsureDidUnique(r.dto.tenant, r.dto.did, Nil)
        /\ ValidateDestination(r.dto.tenant, r.dto.type, r.dto.value)
        /\ Begin(w, r, << Tx(<< Save("inbound", r.id, r.dto) >>) >>)
    BY <1>2 DEF CreateInbound
  <2>2. r \in s.requests
    BY <2>1, Sent DEF BrowserOps
  <2>3. InboundColumns \subseteq DOMAIN r.dto /\ r.id # Nil
    BY <2>1, <2>2, ScenariosAssumption
  <2>4. Alone(db, r.dto, r.id)
    BY <1>0, <2>1 DEF EnsureDidUnique, Alone
  <2>5. Leads(db, r.dto)
    BY <2>1 DEF ValidateDestination, Leads
  <2> QED BY <1>1, <2>1, <2>3, <2>4, <2>5
<1>3. CASE UpdateInbound(w, r)
  <2> DEFINE now == db.inbound[r.id]
             next == [now EXCEPT !.tenant = New(r, "tenant", @), !.did = New(r, "did", @),
                                 !.type = New(r, "type", @), !.value = New(r, "value", @)]
  <2>1. /\ r.id \in DOMAIN db.inbound
        /\ next.did # now.did => EnsureDidUnique(next.tenant, next.did, r.id)
        /\ Given(r, "type") \/ Given(r, "value") => ValidateDestination(next.tenant, next.type, next.value)
        /\ Begin(w, r, << Tx(<< Save("inbound", r.id, next) >>) >>)
    BY <1>3 DEF UpdateInbound
  <2>2. InboundColumns \subseteq DOMAIN now /\ r.id # Nil
    BY <1>0, <2>1 DEF Consistent, Rowed
  <2>3. InboundColumns \subseteq DOMAIN next
    BY <2>2
  <2>4. next.type = New(r, "type", now.type) /\ next.value = New(r, "value", now.value)
    BY <2>2 DEF InboundColumns
  <2> HIDE DEF next
  <2>5. now.did # next.did => Alone(db, next, r.id)
    BY <2>1 DEF EnsureDidUnique, Alone
  <2>6. (now.type = next.type /\ now.value = next.value) \/ Leads(db, next)
    <3>1. CASE Given(r, "type") \/ Given(r, "value")
      <4>1. ValidateDestination(next.tenant, next.type, next.value)
        BY <2>1, <3>1
      <4> QED BY <4>1 DEF ValidateDestination, Leads
    <3>2. CASE ~Given(r, "type") /\ ~Given(r, "value")
      BY <2>4, <3>2 DEF New
    <3> QED BY <3>1, <3>2
  <2> QED BY <1>1, <2>1, <2>2, <2>3, <2>5, <2>6
<1> QED BY <1>2, <1>3

-----------------------------------------------------------------------------
(* The agents above an agent.                                               *)
LEMMA Upwards ==
  ASSUME NEW N \in Nat, NEW K, 0 \in K, \A n \in 1..N : n-1 \in K => n \in K
  PROVE  0..N \subseteq K
<1> DEFINE S == (0..N) \ K
<1> SUFFICES ASSUME S # {} PROVE FALSE
  OBVIOUS
<1>1. PICK n \in S : \A k \in S : n <= k
  <2>1. S \subseteq Nat
    OBVIOUS
  <2> HIDE DEF S
  <2> QED BY <2>1, Least
<1>2. n \in 1..N
  OBVIOUS
<1>3. n-1 \in K
  <2>1. n-1 \in 0..N /\ ~(n <= n-1)
    BY <1>2
  <2> QED BY <1>1, <2>1
<1> QED BY <1>2, <1>3

Climbs(up, b, T, N) ==
    /\ up[0] = b
    /\ \A n \in 1..N : up[n] =
         IF up[n-1] = Nil \/ db.agent[up[n-1]].tenant \notin T THEN Nil ELSE db.agent[up[n-1]].parent
    /\ Chain(b, T) = { up[n] : n \in 0..N } \ {Nil}

LEMMA ChainSteps ==
  ASSUME NEW b, NEW T, NEW N \in Nat, N = Cardinality(DOMAIN db.agent)
  PROVE  \E up : Climbs(up, b, T, N)
<1> DEFINE above(c) == IF c = Nil \/ db.agent[c].tenant \notin T THEN Nil ELSE db.agent[c].parent
           runs(f, m) == f = [n \in 0..m |-> IF n = 0 THEN b ELSE above(f[n-1])]
           K == { m \in 0..N : ~ \E f : runs(f, m) }
           up == CHOOSE f : runs(f, N)
<1>1. Chain(b, T) = { up[n] : n \in DOMAIN up } \ {Nil}
  BY DEF Chain
<1>2. \E f : runs(f, 0)
  <2>1. runs([n \in 0..0 |-> b], 0)
    OBVIOUS
  <2> HIDE DEF runs
  <2> QED BY <2>1
<1>3. ASSUME NEW m \in 1..N, NEW f, runs(f, m-1)
      PROVE  \E g : runs(g, m)
  <2> DEFINE g == [n \in 0..m |-> IF n = m THEN above(f[m-1]) ELSE f[n]]
  <2> HIDE DEF above
  <2>1. ASSUME NEW n \in 0..m
        PROVE  g[n] = IF n = 0 THEN b ELSE above(g[n-1])
    <3>1. CASE n = m
      BY <3>1
    <3>2. CASE n # m
      <4>1. n \in 0..m-1 /\ (n # 0 => n-1 \in 0..m /\ n-1 # m)
        BY <3>2
      <4>2. f[n] = IF n = 0 THEN b ELSE above(f[n-1])
        BY <1>3, <4>1
      <4>3. g[n] = f[n] /\ (n # 0 => g[n-1] = f[n-1])
        BY <3>2, <4>1
      <4> HIDE DEF g
      <4> QED BY <4>2, <4>3
    <3> QED BY <3>1, <3>2
  <2>2. runs(g, m)
    <3>1. DOMAIN g = 0..m /\ g = [n \in 0..m |-> g[n]]
      OBVIOUS
    <3> HIDE DEF g
    <3> QED BY <2>1, <3>1
  <2> HIDE DEF runs, g
  <2> QED BY <2>2
<1>4. \E f : runs(f, N)
  <2> HIDE DEF runs
  <2> SUFFICES ASSUME ~ \E f : runs(f, N) PROVE FALSE
    OBVIOUS
  <2>1. N \in K /\ K \subseteq Nat
    OBVIOUS
  <2>2. PICK m \in K : \A k \in K : m <= k
    <3> HIDE DEF K
    <3> QED BY <2>1, Least
  <2>3. m \in 1..N /\ m-1 \in 0..N /\ m-1 < m
    BY <1>2, <2>2
  <2>4. m-1 \notin K
    <3>1. ~ (m <= m-1)
      BY <2>3
    <3> HIDE DEF K
    <3> QED BY <2>2, <3>1
  <2>5. PICK f : runs(f, m-1)
    BY <2>3, <2>4
  <2> QED BY <1>3, <2>2, <2>3, <2>5
<1>5. runs(up, N)
  <2> HIDE DEF runs
  <2> QED BY <1>4
<1> HIDE DEF up
<1>6. DOMAIN up = 0..N /\ up[0] = b /\ \A n \in 1..N : up[n] = above(up[n-1])
  <2> HIDE DEF above
  <2> QED BY <1>5
<1>7. Climbs(up, b, T, N)
  BY <1>1, <1>6 DEF Climbs
<1> QED BY <1>7

(* Who is above itself goes round a circle.                                 *)
LEMMA RootedHierarchy ==
  ASSUME TableNames \subseteq DOMAIN db, IsFiniteSet(DOMAIN db.agent), Nil \notin DOMAIN db.agent,
         Linked(db), Rooted(db), NEW T, NEW a \in DOMAIN db.agent, db.agent[a].parent # Nil
  PROVE  db.agent[a].parent \notin Below(a, T)
<1> DEFINE p == db.agent[a].parent
           N == Cardinality(DOMAIN db.agent)
<1> SUFFICES ASSUME a \in Chain(p, T) PROVE FALSE
  BY DEF Below
<1>1. N \in Nat
  BY FS_CardinalityType
<1> HIDE DEF N
<1>2. PICK up : Climbs(up, p, T, N)
  BY <1>1, ChainSteps DEF N
<1>3. PICK m \in 0..N : up[m] = a
  BY <1>2 DEF Climbs
<1>4. \A k \in 0..m : up[k] # Nil
  <2> DEFINE K == { k \in 0..m : up[m - k] # Nil }
  <2>1. 0 \in K
    BY <1>3
  <2>2. ASSUME NEW n \in 1..m, n-1 \in K PROVE n \in K
    <3>1. m - (n-1) \in 1..N /\ m - n = (m - (n-1)) - 1
      BY <1>1
    <3>2. up[m - (n-1)] # Nil
      BY <2>2
    <3>3. up[m - n] # Nil
      BY <1>2, <3>1, <3>2 DEF Climbs
    <3> QED BY <3>3
  <2>3. 0..m \subseteq K
    <3> HIDE DEF K
    <3> QED BY <2>1, <2>2, Upwards
  <2>4. ASSUME NEW k \in 0..m PROVE up[k] # Nil
    <3>1. m - k \in 0..m /\ m - (m - k) = k
      OBVIOUS
    <3>2. up[m - (m - k)] # Nil
      BY <2>3, <3>1
    <3> QED BY <3>1, <3>2
  <2> QED BY <2>4
<1>5. ASSUME NEW k \in 1..m PROVE up[k] = db.agent[up[k-1]].parent
  <2>1. k \in 1..N /\ k \in 0..m
    BY <1>1
  <2> QED BY <1>2, <1>4, <2>1 DEF Climbs
<1>6. \A k \in 0..m : up[k] \in DOMAIN db.agent
  <2> DEFINE K == { k \in 0..m : up[k] \in DOMAIN db.agent }
  <2>1. 0 \in K
    BY <1>2 DEF Climbs, Linked
  <2>2. ASSUME NEW n \in 1..m, n-1 \in K PROVE n \in K
    <3>1. up[n-1] \in DOMAIN db.agent /\ up[n] # Nil /\ n \in 0..m
      BY <1>4, <2>2
    <3> QED BY <1>5, <3>1 DEF Linked
  <2>3. 0..m \subseteq K
    <3> HIDE DEF K
    <3> QED BY <2>1, <2>2, Upwards
  <2> QED BY <2>3
<1> DEFINE S == { up[k] : k \in 0..m }
<1>7. S \in SUBSET DOMAIN db.agent /\ S # {}
  BY <1>6
<1>8. ASSUME NEW x \in S PROVE db.agent[x].parent \in S
  <2>1. PICK k \in 0..m : x = up[k]
    OBVIOUS
  <2>2. CASE k = m
    BY <1>2, <1>3, <2>1, <2>2 DEF Climbs
  <2>3. CASE k # m
    <3>1. k + 1 \in 1..m /\ (k + 1) - 1 = k
      BY <2>3
    <3>2. up[k+1] = db.agent[x].parent
      BY <1>5, <2>1, <3>1
    <3> QED BY <3>1, <3>2
  <2> QED BY <2>2, <2>3
<1> QED BY <1>7, <1>8 DEF Rooted

(* A parent that is not below the agent leaves the agents in a tree.        *)
LEMMA RootedUnder ==
  ASSUME IsFiniteSet(DOMAIN db.agent), Nil \notin DOMAIN db.agent, Rooted(db), OneTenant(db),
         NEW t \in DOMAIN db.agent, NEW p \in DOMAIN db.agent, p # t,
         db.agent[p].tenant = db.agent[t].tenant, t \notin Chain(p, {db.agent[t].tenant}),
         NEW e, DOMAIN e.agent = DOMAIN db.agent,
         \A a \in DOMAIN db.agent \ {t} : e.agent[a].parent = db.agent[a].parent, e.agent[t].parent = p
  PROVE  Rooted(e)
<1> DEFINE N == Cardinality(DOMAIN db.agent)
           home == db.agent[t].tenant
<1>1. N \in Nat
  BY FS_CardinalityType
<1> SUFFICES ASSUME NEW S \in SUBSET DOMAIN e.agent, S # {}, \A a \in S : e.agent[a].parent \in S
             PROVE  FALSE
  BY DEF Rooted
<1>2. t \in S
  BY DEF Rooted
<1>3. p \in S
  BY <1>2
<1> HIDE DEF N
<1>4. PICK up : Climbs(up, p, {home}, N)
  BY <1>1, ChainSteps DEF N
<1> DEFINE X == { a \in S \ {t} : db.agent[a].tenant = home }
<1>5. ASSUME NEW n \in 1..N, up[n-1] \in X
      PROVE  up[n] \in X /\ up[n] = db.agent[up[n-1]].parent
  <2> DEFINE c == up[n-1]
             q == db.agent[c].parent
  <2>1. c \in DOMAIN db.agent /\ c # t /\ c # Nil /\ db.agent[c].tenant = home /\ c \in S
    BY <1>5
  <2>2. up[n] = q
    BY <1>4, <2>1 DEF Climbs
  <2>3. q \in S /\ q # Nil
    BY <2>1
  <2>4. q # t
    <3>1. n \in 0..N
      OBVIOUS
    <3>2. up[n] \in Chain(p, {home})
      BY <1>4, <2>2, <2>3, <3>1 DEF Climbs
    <3> QED BY <2>2, <3>2
  <2>5. db.agent[q].tenant = home
    BY <2>1, <2>3 DEF OneTenant
  <2> QED BY <2>2, <2>3, <2>4, <2>5
<1>6. \A n \in 0..N : up[n] \in X
  <2> DEFINE K == { n \in 0..N : up[n] \in X }
  <2>1. 0 \in K
    BY <1>1, <1>3, <1>4 DEF Climbs
  <2>2. ASSUME NEW n \in 1..N, n-1 \in K PROVE n \in K
    <3>1. up[n-1] \in X /\ n \in 0..N
      BY <2>2
    <3> HIDE DEF X
    <3> QED BY <1>5, <3>1
  <2>3. 0..N \subseteq K
    <3> HIDE DEF K
    <3> QED BY <1>1, <2>1, <2>2, Upwards
  <2> QED BY <2>3
<1>7. PICK i \in 0..N, j \in 0..N : i # j /\ up[i] = up[j]
  <2> DEFINE f == [n \in 0..N |-> up[n]]
  <2>1. IsFiniteSet(0..N) /\ Cardinality(0..N) = N + 1
    BY <1>1, FS_Interval
  <2>2. f \in [0..N -> DOMAIN db.agent]
    BY <1>6
  <2>3. Cardinality(DOMAIN db.agent) < Cardinality(0..N)
    BY <1>1, <2>1 DEF N
  <2> HIDE DEF f
  <2>4. \E x, y \in 0..N : x # y /\ f[x] = f[y]
    <3> DEFINE A == 0..N
               B == DOMAIN db.agent
    <3>1. IsFiniteSet(A) /\ IsFiniteSet(B) /\ Cardinality(B) < Cardinality(A) /\ f \in [A -> B]
      BY <2>1, <2>2, <2>3
    <3> HIDE DEF A, B
    <3>2. \E x, y \in A : x # y /\ f[x] = f[y]
      BY <3>1, FS_PigeonHole
    <3> QED BY <3>2 DEF A
  <2> QED BY <2>4 DEF f
<1>8. ASSUME NEW x \in 0..N, NEW y \in 0..N, x < y, up[x] = up[y]
      PROVE  FALSE
  <2> DEFINE C == { up[k] : k \in x..y-1 }
  <2>1. C # {} /\ C \in SUBSET DOMAIN db.agent
    <3>1. x \in x..y-1
      BY <1>8
    <3>2. \A k \in x..y-1 : k \in 0..N
      BY <1>1
    <3> QED BY <1>6, <3>1, <3>2
  <2>2. ASSUME NEW c \in C PROVE db.agent[c].parent \in C
    <3>1. PICK k \in x..y-1 : c = up[k]
      OBVIOUS
    <3>2. k + 1 \in 1..N /\ (k + 1) - 1 = k /\ k \in 0..N
      BY <1>1
    <3>3. up[k+1] = db.agent[c].parent
      <4> HIDE DEF X
      <4> QED BY <1>5, <1>6, <3>1, <3>2
    <3>4. CASE k = y-1
      <4>1. x \in x..y-1 /\ k + 1 = y
        BY <1>8, <3>4
      <4> QED BY <1>8, <3>3, <4>1
    <3>5. CASE k # y-1
      <4>1. k + 1 \in x..y-1
        BY <3>5
      <4> QED BY <3>3, <4>1
    <3> QED BY <3>4, <3>5
  <2> HIDE DEF C
  <2> QED BY <2>1, <2>2 DEF Rooted
<1>9. i < j \/ j < i
  BY <1>7
<1> QED BY <1>7, <1>8, <1>9

-----------------------------------------------------------------------------
(* An agent is saved with what was checked.                                 *)
LEMMA AgentEffect ==
  ASSUME NEW d, {"agent", "extension", "inbound"} \subseteq DOMAIN d, NEW a, NEW row, NEW e,
         e = Effect(d, Save("agent", a, row)), DOMAIN row = AgentColumns
  PROVE  /\ e.extension = d.extension /\ e.inbound = d.inbound
         /\ DOMAIN e.agent = DOMAIN d.agent \cup {a}
         /\ \A b \in DOMAIN d.agent \ {a} : e.agent[b] = d.agent[b]
         /\ \A c \in AgentColumns : e.agent[a][c] = row[c]
<1> DEFINE wr == Save("agent", a, row)
<1>1. wr.kind = "save" /\ wr.table = "agent" /\ wr.id = a /\ wr.row = row
  BY DEF Save
<1>2. wr.table \in DOMAIN d /\ e = Effect(d, wr)
  BY <1>1
<1> HIDE DEF wr
<1>3. /\ DOMAIN e = DOMAIN d
      /\ \A t \in DOMAIN d \ {wr.table} : e[t] = d[t]
      /\ DOMAIN e[wr.table] = DOMAIN d[wr.table] \cup {wr.id}
      /\ \A j \in DOMAIN d[wr.table] \ {wr.id} : e[wr.table][j] = d[wr.table][j]
      /\ e[wr.table][wr.id] =
           Over(wr.row, IF wr.id \in DOMAIN d[wr.table] THEN d[wr.table][wr.id] ELSE Absent(wr.table))
  BY <1>1, <1>2, SaveEffect
<1>4. \A c \in AgentColumns : e.agent[a][c] = row[c]
  <2> DEFINE old == IF wr.id \in DOMAIN d[wr.table] THEN d[wr.table][wr.id] ELSE Absent(wr.table)
  <2>1. e.agent[a] = Over(row, old)
    BY <1>1, <1>3
  <2> HIDE DEF old
  <2>2. \A c \in DOMAIN row : Over(row, old)[c] = row[c]
    BY DEF Over
  <2> QED BY <2>1, <2>2
<1> QED BY <1>1, <1>3, <1>4

LEMMA AgentRight ==
  ASSUME NEW d, {"agent", "extension", "inbound"} \subseteq DOMAIN d, NEW a, NEW row, NEW e,
         e = Effect(d, Save("agent", a, row)), DOMAIN row = AgentColumns, Equipped(d), Rooted(e),
         row.extension # Nil => <<row.tenant, row.extension>> \in DOMAIN d.extension,
         \A b \in DOMAIN d.agent : row.portalUser # Nil /\ d.agent[b].portalUser = row.portalUser => b = a
  PROVE  Right(d, e)
<1>1. /\ e.extension = d.extension /\ e.inbound = d.inbound
      /\ DOMAIN e.agent = DOMAIN d.agent \cup {a}
      /\ \A b \in DOMAIN d.agent \ {a} : e.agent[b] = d.agent[b]
      /\ \A c \in AgentColumns : e.agent[a][c] = row[c]
  BY AgentEffect
<1>2. /\ e.agent[a].extension = row.extension /\ e.agent[a].tenant = row.tenant
      /\ e.agent[a].portalUser = row.portalUser
  BY <1>1 DEF AgentColumns
<1>3. ASSUME NEW b \in DOMAIN e.agent, e.agent[b].extension # Nil
      PROVE  <<e.agent[b].tenant, e.agent[b].extension>> \in DOMAIN e.extension
  <2>1. CASE b = a
    BY <1>1, <1>2, <1>3, <2>1
  <2>2. CASE b # a
    BY <1>1, <1>3, <2>2 DEF Equipped
  <2> QED BY <2>1, <2>2
<1>4. ASSUME NEW b \in DOMAIN e.agent, NEW c \in DOMAIN e.agent,
             e.agent[b].portalUser = e.agent[c].portalUser, e.agent[b].portalUser # Nil
      PROVE  b = c
  <2>1. CASE b = a
    BY <1>1, <1>2, <1>4, <2>1
  <2>2. CASE c = a
    BY <1>1, <1>2, <1>4, <2>2
  <2>3. CASE b # a /\ c # a
    BY <1>1, <1>4, <2>3 DEF Equipped
  <2> QED BY <2>1, <2>2, <2>3
<1>5. Sound(e)
  BY <1>3, <1>4 DEF Sound, Equipped
<1>6. QuotaOf(d, e) /\ RoutesOf(d, e)
  BY <1>1 DEF QuotaOf, RoutesOf
<1> QED BY <1>5, <1>6 DEF Right

(* A new agent is nobody's parent yet.                                      *)
LEMMA RootedNew ==
  ASSUME NEW d, Nil \notin DOMAIN d.agent, Linked(d), Rooted(d), NEW a, a \notin DOMAIN d.agent,
         NEW e, DOMAIN e.agent = DOMAIN d.agent \cup {a},
         \A b \in DOMAIN d.agent : e.agent[b] = d.agent[b],
         a # Nil, e.agent[a].parent # a
  PROVE  Rooted(e)
<1> SUFFICES ASSUME NEW S \in SUBSET DOMAIN e.agent, S # {}, \A b \in S : e.agent[b].parent \in S
             PROVE  FALSE
  BY DEF Rooted
<1> DEFINE R == S \ {a}
<1>1. R \in SUBSET DOMAIN d.agent /\ R # {}
  OBVIOUS
<1>2. ASSUME NEW b \in R PROVE d.agent[b].parent \in R
  <2>1. b \in DOMAIN d.agent /\ d.agent[b].parent \in S
    BY <1>1
  <2>2. d.agent[b].parent # a
    BY <2>1 DEF Linked
  <2> QED BY <2>1, <2>2
<1> HIDE DEF R
<1> QED BY <1>1, <1>2 DEF Rooted

LEMMA AccountAlone ==
  ASSUME Nil \notin DOMAIN db.agent, Equipped(db), NEW r, NEW t, NEW u, NEW self, AccountFits(r, t, u, self),
         NEW b \in DOMAIN db.agent, u # Nil, db.agent[b].portalUser = u
  PROVE  b = self
<1>1. b \in AgentsOf(db, u) /\ self \in AgentsOf(db, u)
  BY DEF AccountFits, AgentsOf
<1> QED BY <1>1 DEF AgentsOf, Equipped

LEMMA GroupAtHome2 ==
  ASSUME NEW s, Consistent(s), NEW t, NEW g, GroupOfTenant(t, g), g # Nil
  PROVE  <<g, t>> \in GroupHomes(s)
BY DEF GroupOfTenant, Consistent, Rowed, Homes, GroupAtHome

LEMMA AgentSave ==
  ASSUME NEW s \in Scenarios, Consistent(s), Typed, NEW w \in Workers, NEW r, NEW row,
         Begin(w, r, << Tx(<< Save("agent", r.id, row) >>) >>),
         r.id # Nil, r.id \in Used(s)', AgentAtHome(s, r.id, row),
         clean => Right(db, Effect(db, Save("agent", r.id, row)))
  PROVE  Typed' /\ Consistent(s)' /\ db' = db
<1> DEFINE wr == Save("agent", r.id, row)
<1>1. Checked(wr) /\ Fits(s, clean, wr) /\ wr.table = "agent" /\ wr.id = r.id
  BY DEF Fits, Checked, Save, TableNames
<1>2. Begin(w, r, << Tx(<< wr >>) >>) /\ (clean => Right(db, Effect(db, wr)))
  OBVIOUS
<1> HIDE DEF wr
<1> QED BY <1>1, <1>2, CheckedBegin

LEMMA CreateAgentKeeps ==
  ASSUME NEW s \in Scenarios, Consistent(s), Typed, NEW w \in Workers, NEW r, CreateAgent(w, r)
  PROVE  Typed' /\ Consistent(s)' /\ db' = db
<1> DEFINE parent == IF Scope(r.by).lead THEN Scope(r.by).agent ELSE r.dto.parent
           row == [r.dto EXCEPT !.parent = parent]
           home == r.dto.tenant
<1>0. /\ {"agent", "extension", "inbound"} \subseteq DOMAIN db /\ (clean => Sound(db))
      /\ Rowed(s, Used(s), db) /\ Nil \notin DOMAIN db.agent /\ Linked(db)
  BY Known DEF Consistent, Rowed
<1>1. /\ r.op = "createAgent" /\ ExtensionFree(home, r.dto.extension, Nil)
      /\ GroupOfTenant(home, r.dto.group) /\ AccountFits(r, home, r.dto.portalUser, Nil)
      /\ ParentFits(r, home, parent) /\ Begin(w, r, << Tx(<< Save("agent", r.id, row) >>) >>)
  BY DEF CreateAgent
<1>2. r \in s.requests /\ r.id \in Used(s)' /\ r \in requests
  BY <1>1, Sent DEF BrowserOps, Begin
<1>3. DOMAIN r.dto = AgentColumns /\ r.id # Nil /\ OwnKeys(s, "createAgent", "agent")
  BY <1>1, <1>2, ScenariosAssumption DEF OwnKeys
<1>4. r.id \notin DOMAIN db.agent
  <2>1. r.id \notin DOMAIN s.db.agent
    BY <1>1, <1>2, <1>3 DEF OwnKeys
  <2>2. ASSUME NEW q \in s.requests \ requests, q.op = "createAgent" PROVE q.id # r.id
    BY <1>1, <1>2, <1>3, <2>2 DEF OwnKeys
  <2>3. r.id \notin Used(s)
    BY <2>1, <2>2 DEF Used
  <2> QED BY <1>0, <2>3 DEF Rowed
<1> HIDE DEF parent
<1>5. /\ DOMAIN row = AgentColumns /\ row.parent = parent /\ row.tenant = home
      /\ row.extension = r.dto.extension /\ row.group = r.dto.group /\ row.portalUser = r.dto.portalUser
  BY <1>3 DEF AgentColumns
<1>6. parent # Nil => parent \in DOMAIN db.agent /\ db.agent[parent].tenant = home
  BY <1>1 DEF ParentFits
<1> HIDE DEF row
<1>7. AgentAtHome(s, r.id, row)
  <2>1. <<r.id, home>> \in AgentHomes(s)
    BY <1>1, <1>2 DEF AgentHomes
  <2>2. parent # Nil => <<parent, home>> \in AgentHomes(s)
    BY <1>6, OwnerAtHome
  <2>3. r.dto.group # Nil => <<r.dto.group, home>> \in GroupHomes(s)
    BY <1>1, GroupAtHome2
  <2> QED BY <1>5, <2>1, <2>2, <2>3 DEF AgentAtHome
<1>8. ASSUME clean PROVE Right(db, Effect(db, Save("agent", r.id, row)))
  <2> DEFINE e == Effect(db, Save("agent", r.id, row))
             a == r.id
  <2>x. e = Effect(db, Save("agent", a, row))
    OBVIOUS
  <2> HIDE DEF e
  <2>1. /\ DOMAIN e.agent = DOMAIN db.agent \cup {a}
        /\ \A b \in DOMAIN db.agent \ {a} : e.agent[b] = db.agent[b]
        /\ \A c \in AgentColumns : e.agent[a][c] = row[c]
    BY <1>0, <1>5, <2>x, AgentEffect
  <2>2. e.agent[a].parent = parent /\ parent # a
    BY <1>3, <1>4, <1>5, <1>6, <2>1 DEF AgentColumns
  <2>3. Rooted(e)
    <3> HIDE DEF a
    <3>1. a # Nil /\ a \notin DOMAIN db.agent
      BY <1>3, <1>4 DEF a
    <3>2. \A b \in DOMAIN db.agent : e.agent[b] = db.agent[b]
      BY <2>1, <3>1
    <3> QED BY <1>0, <1>8, <2>1, <2>2, <3>1, <3>2, RootedNew DEF Sound
  <2>4. row.extension # Nil => <<row.tenant, row.extension>> \in DOMAIN db.extension
    BY <1>1, <1>5 DEF ExtensionFree
  <2>5. ASSUME NEW b \in DOMAIN db.agent, row.portalUser # Nil, db.agent[b].portalUser = row.portalUser
        PROVE  b = a
    <3>1. b = Nil
      BY <1>0, <1>1, <1>5, <1>8, <2>5, AccountAlone DEF Sound
    <3> QED BY <1>0, <3>1
  <2> HIDE DEF a
  <2>6. Right(db, e)
    BY <1>0, <1>5, <1>8, <2>x, <2>3, <2>4, <2>5, AgentRight DEF Sound
  <2> QED BY <2>6 DEF e
<1> QED BY <1>1, <1>2, <1>3, <1>7, <1>8, AgentSave

LEMMA UpdateAgentKeeps ==
  ASSUME NEW s \in Scenarios, Consistent(s), Typed, NEW w \in Workers, NEW r, UpdateAgent(w, r)
  PROVE  Typed' /\ Consistent(s)' /\ db' = db
<1> DEFINE a == db.agent[r.id]
           x == New(r, "extension", a.extension)
           g == New(r, "group", a.group)
           u == New(r, "portalUser", a.portalUser)
           p == RelationWins(a.parent, AskedParent(r))
           row == [a EXCEPT !.extension = New(r, "extension", @), !.group = New(r, "group", @),
                        !.portalUser = New(r, "portalUser", @),
                        !.parent = RelationWins(@, AskedParent(r))]
<1>0. /\ {"agent", "extension", "inbound"} \subseteq DOMAIN db /\ (clean => Sound(db))
      /\ Rowed(s, Used(s), db) /\ Nil \notin DOMAIN db.agent /\ Linked(db) /\ Homes(s, db)
      /\ IsFiniteSet(DOMAIN db.agent)
  BY Known DEF Consistent, Rowed
<1>1. /\ r.op = "updateAgent" /\ r.id \in DOMAIN db.agent
      /\ Given(r, "extension") => ExtensionFree(a.tenant, r.dto.extension, r.id)
      /\ Given(r, "group") => GroupOfTenant(a.tenant, r.dto.group)
      /\ Given(r, "portalUser") => AccountFits(r, a.tenant, r.dto.portalUser, r.id)
      /\ ParentAllowed(r)
      /\ Begin(w, r, << Tx(<< Save("agent", r.id, row) >>) >>)
  BY DEF UpdateAgent
<1>2. AgentAtHome(s, r.id, a) /\ DOMAIN a = AgentColumns
  BY <1>0, <1>1 DEF Homes, AgentAtHome
<1>3. r.id # Nil /\ r.id \in Used(s)'
  <2>1. requests' = requests \ {r}
    BY <1>1 DEF Begin
  <2>2. Used(s) \subseteq Used(s)'
    BY <2>1 DEF Used
  <2> QED BY <1>0, <1>1, <2>2 DEF Rowed
<1>4. /\ DOMAIN row = AgentColumns /\ row.tenant = a.tenant /\ row.extension = x /\ row.group = g
      /\ row.portalUser = u /\ row.parent = p
  BY <1>2 DEF AgentColumns
<1> HIDE DEF row
<1>5. a.parent = Nil /\ p # Nil =>
         /\ p # r.id /\ p \in DOMAIN db.agent /\ db.agent[p].tenant = a.tenant
         /\ r.id \notin Chain(p, {a.tenant})
  <2> SUFFICES ASSUME a.parent = Nil, p # Nil
               PROVE  /\ p # r.id /\ p \in DOMAIN db.agent /\ db.agent[p].tenant = a.tenant
                      /\ r.id \notin Chain(p, {a.tenant})
    OBVIOUS
  <2>1. p = AskedParent(r)
    BY DEF RelationWins
  <2>2. Given(r, "parent") \/ (Scope(r.by).lead /\ r.id # Scope(r.by).agent)
    BY <2>1 DEF AskedParent, New
  <2>3. /\ p # r.id /\ ParentFits(r, a.tenant, p)
        /\ p \notin Below(r.id, {a.tenant}) \ {r.id}
    BY <1>1, <2>1, <2>2 DEF ParentAllowed
  <2> HIDE DEF p
  <2>4. p \in DOMAIN db.agent /\ db.agent[p].tenant = a.tenant
    BY <2>3 DEF ParentFits
  <2> QED BY <2>3, <2>4 DEF Below
<1>6. a.parent # Nil => p = a.parent
  BY DEF RelationWins
<1> HIDE DEF p
<1>7. AgentAtHome(s, r.id, row)
  <2>1. <<r.id, a.tenant>> \in AgentHomes(s)
    BY <1>2 DEF AgentAtHome
  <2>2. p # Nil => <<p, a.tenant>> \in AgentHomes(s)
    <3>1. CASE a.parent = Nil
      BY <1>5, <3>1, OwnerAtHome
    <3>2. CASE a.parent # Nil
      BY <1>2, <1>6, <3>2 DEF AgentAtHome
    <3> QED BY <3>1, <3>2
  <2>3. g # Nil => <<g, a.tenant>> \in GroupHomes(s)
    <3>1. CASE Given(r, "group")
      <4>1. g = r.dto.group
        BY <3>1 DEF New
      <4> HIDE DEF g
      <4> QED BY <1>1, <3>1, <4>1, GroupAtHome2
    <3>2. CASE ~Given(r, "group")
      BY <1>2, <3>2 DEF New, AgentAtHome
    <3> QED BY <3>1, <3>2
  <2> HIDE DEF g
  <2> QED BY <1>4, <2>1, <2>2, <2>3 DEF AgentAtHome
<1>8. ASSUME clean PROVE Right(db, Effect(db, Save("agent", r.id, row)))
  <2> DEFINE e == Effect(db, Save("agent", r.id, row))
             t == r.id
  <2>x. e = Effect(db, Save("agent", t, row))
    OBVIOUS
  <2>y. Equipped(db) /\ Rooted(db) /\ OneTenant(db)
    BY <1>0, <1>8, HomesKept DEF Sound
  <2> HIDE DEF e
  <2>1. /\ DOMAIN e.agent = DOMAIN db.agent
        /\ \A b \in DOMAIN db.agent \ {t} : e.agent[b] = db.agent[b]
        /\ \A c \in AgentColumns : e.agent[t][c] = row[c]
    <3>1. t \in DOMAIN db.agent
      BY <1>1
    <3> HIDE DEF t, a
    <3>2. /\ DOMAIN e.agent = DOMAIN db.agent \cup {t}
          /\ \A b \in DOMAIN db.agent \ {t} : e.agent[b] = db.agent[b]
          /\ \A c \in AgentColumns : e.agent[t][c] = row[c]
      BY <1>0, <1>4, <2>x, AgentEffect
    <3> QED BY <3>1, <3>2
  <2>2. e.agent[t].parent = p
    BY <1>4, <2>1 DEF AgentColumns
  <2>3. Rooted(e)
    <3>1. CASE p = a.parent
      BY <2>y, <2>1, <2>2, <3>1 DEF Rooted
    <3>2. CASE p # a.parent /\ p = Nil
      BY <1>6, <3>2
    <3>3. CASE p # a.parent /\ p # Nil
      <4>1. a.parent = Nil
        BY <1>6, <3>3
      <4>2. /\ p # t /\ p \in DOMAIN db.agent /\ db.agent[p].tenant = db.agent[t].tenant
            /\ t \notin Chain(p, {db.agent[t].tenant})
        BY <1>5, <3>3, <4>1
      <4>3. t \in DOMAIN db.agent
        BY <1>1
      <4> HIDE DEF t
      <4> QED BY <1>0, <2>y, <2>1, <2>2, <4>2, <4>3, RootedUnder
    <3> QED BY <3>1, <3>2, <3>3
  <2>4. row.extension # Nil => <<row.tenant, row.extension>> \in DOMAIN db.extension
    <3>1. CASE Given(r, "extension")
      BY <1>1, <1>4, <3>1 DEF ExtensionFree, New
    <3>2. CASE ~Given(r, "extension")
      BY <1>1, <1>4, <2>y, <3>2 DEF Equipped, New
    <3> QED BY <3>1, <3>2
  <2>5. ASSUME NEW b \in DOMAIN db.agent, row.portalUser # Nil, db.agent[b].portalUser = row.portalUser
        PROVE  b = t
    <3>1. CASE Given(r, "portalUser")
      <4>1. u = r.dto.portalUser /\ row.portalUser = u /\ AccountFits(r, a.tenant, u, t)
        BY <1>1, <1>4, <3>1 DEF New
      <4> HIDE DEF u, t, a
      <4> QED BY <1>0, <2>y, <2>5, <4>1, AccountAlone
    <3>2. CASE ~Given(r, "portalUser")
      BY <1>1, <1>4, <2>y, <2>5, <3>2 DEF Equipped, New
    <3> QED BY <3>1, <3>2
  <2> HIDE DEF t
  <2>6. Right(db, e)
    BY <1>0, <1>4, <2>x, <2>y, <2>3, <2>4, <2>5, AgentRight
  <2> QED BY <2>6 DEF e
<1> QED BY <1>1, <1>3, <1>7, <1>8, AgentSave

LEMMA AgentKeeps ==
  ASSUME NEW s \in Scenarios, Consistent(s), Typed, NEW w \in Workers, NEW r, AgentRequest(w, r)
  PROVE  Typed' /\ Consistent(s)' /\ db' = db
  BY CreateAgentKeeps, UpdateAgentKeeps, GroupKeeps DEF AgentRequest

-----------------------------------------------------------------------------
(* The scenarios are consistent, and every step keeps them so.              *)
LEMMA InitKeeps ==
  ASSUME Init
  PROVE  ConsoleInv
<1>1. PICK s \in Scenarios : db = s.db /\ requests = s.requests
  BY DEF Init
<1>2. work = [w \in Workers |-> Idle] /\ clean = TRUE
  BY DEF Init
<1>3. Found(db)
  BY <1>1, ScenariosAssumption
<1>4. Linked(db) /\ \A x \in DOMAIN db.extension : db.extension[x].tenant \in DOMAIN db.tenant \cup {Nil}
  BY <1>3, References DEF Found
<1>5. ASSUME NEW a \in DOMAIN db.agent PROVE AgentAtHome(s, a, db.agent[a])
  <2> DEFINE row == db.agent[a]
  <2>1. \A b \in DOMAIN db.agent : <<b, db.agent[b].tenant>> \in AgentHomes(s)
    BY <1>1 DEF AgentHomes
  <2>2. \A g \in DOMAIN db.group : <<g, db.group[g].tenant>> \in GroupHomes(s)
    BY <1>1 DEF GroupHomes
  <2>3. row.group # Nil => row.group \in DOMAIN db.group /\ db.group[row.group].tenant = row.tenant
    BY <1>3, <1>4 DEF Found, Linked, OneTenant
  <2>4. row.parent # Nil => row.parent \in DOMAIN db.agent /\ db.agent[row.parent].tenant = row.tenant
    BY <1>3, <1>4 DEF Found, Linked, OneTenant
  <2>5. DOMAIN row = AgentColumns
    BY <1>3 DEF Found
  <2> QED BY <2>1, <2>2, <2>3, <2>4, <2>5 DEF AgentAtHome
<1>6. ASSUME NEW g \in DOMAIN db.group PROVE GroupAtHome(s, g, db.group[g])
  <2> DEFINE row == db.group[g]
  <2>1. \A b \in DOMAIN db.agent : <<b, db.agent[b].tenant>> \in AgentHomes(s)
    BY <1>1 DEF AgentHomes
  <2>2. <<g, row.tenant>> \in GroupHomes(s)
    BY <1>1 DEF GroupHomes
  <2>3. row.owner # Nil => row.owner \in DOMAIN db.agent /\ db.agent[row.owner].tenant = row.tenant
    BY <1>3, <1>4 DEF Found, Linked, OneTenant
  <2>4. DOMAIN row = GroupColumns
    BY <1>3 DEF Found
  <2> QED BY <2>1, <2>2, <2>3, <2>4 DEF GroupAtHome
<1>7. ASSUME NEW x \in DOMAIN db.extension
      PROVE  Placed(x, db.extension[x]) /\ x[1] \in DOMAIN db.tenant
  <2>1. db.extension[x] = ExtensionRow(x, db.extension[x].password) /\ x[1] # Nil
    BY <1>3 DEF Found
  <2>2. Placed(x, db.extension[x])
    BY <2>1 DEF Placed, ExtensionRow
  <2> QED BY <1>4, <2>2 DEF Placed
<1>8. \A t \in DOMAIN db.tenant : Bounded(db.tenant[t])
  BY <1>3 DEF Found, Bounded
<1>9. DOMAIN db.agent \subseteq Used(s)
  BY <1>1 DEF Used
<1>10. Homes(s, db)
  BY <1>5, <1>6 DEF Homes
<1>11. Rowed(s, Used(s), db)
  BY <1>3, <1>4, <1>7, <1>8, <1>9, <1>10 DEF Found, Rowed
<1>12. \A w \in Workers : work[w].todo = <<>> /\ work[w].stale = FALSE /\ {"req", "scope", "todo", "stale"} \subseteq DOMAIN work[w]
  BY <1>2 DEF Idle
<1>13. Typed
  BY <1>2, <1>12 DEF Typed
<1>14. Sound(db)
  BY <1>3 DEF Found, Sound
<1>15. Consistent(s)
  BY <1>1, <1>11, <1>12, <1>14, PlainNone DEF Consistent, Awaits, Going
<1> QED BY <1>13, <1>15 DEF ConsoleInv

LEMMA ServeKeeps ==
  ASSUME NEW s \in Scenarios, Consistent(s), Typed, NEW w \in Workers, Serve(w)
  PROVE  Typed' /\ Consistent(s)' /\ db' = db
<1>1. PICK r \in requests :
        \/ AgentRequest(w, r) \/ UserRequest(w, r) \/ TenantRequest(w, r)
        \/ RoutingRequest(w, r) \/ NetworkRequest(w, r)
        \/ SessionRequest(w, r)
  BY DEF Serve
<1>2. CASE AgentRequest(w, r)
  BY <1>2, AgentKeeps
<1>3. CASE UserRequest(w, r)
  BY <1>3, UserKeeps, RoleKeeps, BootKeeps DEF UserRequest
<1>4. CASE TenantRequest(w, r)
  BY <1>4, TenantKeeps, ExtensionKeeps DEF TenantRequest
<1>5. CASE RoutingRequest(w, r)
  BY <1>5, PlainRoutingKeeps, InboundKeeps DEF RoutingRequest
<1>6. CASE NetworkRequest(w, r)
  BY <1>6, NetworkRequestKeeps
<1>7. CASE SessionRequest(w, r)
  BY <1>7, SessionRequestKeeps
<1> QED BY <1>1, <1>2, <1>3, <1>4, <1>5, <1>6, <1>7

LEMMA StepKeeps ==
  ASSUME NEW s \in Scenarios, Consistent(s), Typed, [Next]_vars
  PROVE  /\ Typed' /\ Consistent(s)'
         /\ clean' /\ db' # db => QuotaOf(db, db') /\ RoutesOf(db, db')
<1>1. CASE UNCHANGED vars
  <2>1. UNCHANGED <<db, work, clean, requests>>
    BY <1>1 DEF vars, consoleVars
  <2> QED BY <2>1, AsideKeeps
<1>2. ASSUME NEW w \in Workers, Serve(w) PROVE Typed' /\ Consistent(s)' /\ db' = db
  BY <1>2, ServeKeeps
<1>3. ASSUME NEW w \in Workers, Continue(w)
      PROVE  /\ Typed' /\ Consistent(s)'
             /\ clean' /\ db' # db => QuotaOf(db, db') /\ RoutesOf(db, db')
  <2>1. CASE Statement(w)
    BY <2>1, StatementKeeps
  <2>2. CASE SyncTenantMemberships(w)
    BY <2>2, SyncKeeps
  <2>3. CASE NetworkStep(w)
    BY <2>3, NetworkKeeps
  <2> QED BY <1>3, <2>1, <2>2, <2>3 DEF Continue
<1>4. CASE SessionStep
  BY <1>4, SessionKeeps
<1>5. CASE Crash
  <2>1. db' = db
    BY <1>5 DEF Crash
  <2> QED BY <1>5, <2>1, CrashKeeps
<1>6. CASE LateCommand
  <2>1. UNCHANGED <<db, work, clean, requests>>
    BY <1>6 DEF LateCommand
  <2> QED BY <2>1, AsideKeeps
<1> QED BY <1>1, <1>2, <1>3, <1>4, <1>5, <1>6 DEF Next

(* What the database is at any time, whatever requests are served together:  *)
(* rows refer to rows of their tenant that are there, and what a handler has *)
(* yet to write still does what it checked, if nobody wrote in between.      *)
THEOREM ConsoleInvariant == Spec => []ConsoleInv
<1>1. Init => ConsoleInv
  BY InitKeeps
<1>2. ConsoleInv /\ [Next]_vars => ConsoleInv'
  <2> SUFFICES ASSUME ConsoleInv, [Next]_vars PROVE ConsoleInv'
    OBVIOUS
  <2>1. PICK s \in Scenarios : Consistent(s)
    BY DEF ConsoleInv
  <2>2. Typed' /\ Consistent(s)'
    BY <2>1, StepKeeps DEF ConsoleInv
  <2> QED BY <2>2 DEF ConsoleInv
<1> QED BY <1>1, <1>2, PTL DEF Spec

-----------------------------------------------------------------------------
(* Agents and groups name agents and groups of their own tenant, whatever    *)
(* handlers were under way; and unless handlers raced, the parents of agents *)
(* form no circle, an account is of one agent and an agent has an extension  *)
(* of its tenant (the checks of AgentsService).                              *)
THEOREM AgentsStaySound == Spec => []AgentsSound
<1>1. ConsoleInv => AgentsSound
  <2> SUFFICES ASSUME ConsoleInv PROVE AgentsSound
    OBVIOUS
  <2>1. PICK s \in Scenarios : Consistent(s)
    BY DEF ConsoleInv
  <2>2. /\ TableNames \subseteq DOMAIN db /\ IsFiniteSet(DOMAIN db.agent) /\ Nil \notin DOMAIN db.agent
        /\ Linked(db) /\ Homes(s, db) /\ (clean => Sound(db))
    BY <2>1 DEF Consistent, Rowed
  <2>3. SameTenant
    BY <2>2, HomesKept DEF SameTenant
  <2>4. Hierarchy
    BY <2>2, RootedHierarchy DEF Hierarchy, Sound
  <2>5. AgentsEquipped
    BY <2>2 DEF AgentsEquipped, Sound
  <2> QED BY <2>3, <2>4, <2>5 DEF AgentsSound
<1> QED BY <1>1, ConsoleInvariant, PTL

(* No statement brings a tenant over its limit of extensions with one that   *)
(* it makes, unless handlers raced (ExtensionsService.create and the         *)
(* external API).                                                            *)
THEOREM QuotaStaysKept == Spec => QuotaKept
<1>1. ConsoleInv /\ [Next]_vars =>
        [clean' => \A x \in DOMAIN db'.extension \ DOMAIN db.extension :
           db'.tenant[x[1]].limit # Nil => Cardinality(ExtensionsOf(x[1])') <= db'.tenant[x[1]].limit]_db
  <2> SUFFICES ASSUME ConsoleInv, [Next]_vars, clean', db' # db,
                      NEW x \in DOMAIN db'.extension \ DOMAIN db.extension, db'.tenant[x[1]].limit # Nil
               PROVE  Cardinality(ExtensionsOf(x[1])') <= db'.tenant[x[1]].limit
    OBVIOUS
  <2>1. PICK s \in Scenarios : Consistent(s)
    BY DEF ConsoleInv
  <2>2. QuotaOf(db, db')
    BY <2>1, StepKeeps DEF ConsoleInv
  <2> QED BY <2>2 DEF QuotaOf, Within, ExtensionsOf
<1> QED BY <1>1, ConsoleInvariant, PTL DEF Spec, QuotaKept

(* An inbound route that gets a number gets one that no other route of its   *)
(* tenant has, and one that gets a destination one of its tenant, unless     *)
(* handlers raced (InboundService).                                          *)
THEOREM RoutesStayChecked == Spec => RouteChecked
<1>1. ConsoleInv /\ [Next]_vars =>
        [clean' => \A i \in DOMAIN db'.inbound : LET was == db.inbound[i] now == db'.inbound[i] IN
           /\ i \notin DOMAIN db.inbound \/ was.did # now.did => Numbered(i)'
           /\ i \notin DOMAIN db.inbound \/ <<was.type, was.value>> # <<now.type, now.value>>
              => Destined(i)']_db
  <2> SUFFICES ASSUME ConsoleInv, [Next]_vars, clean', db' # db, NEW i \in DOMAIN db'.inbound
               PROVE  LET was == db.inbound[i] now == db'.inbound[i] IN
                      /\ i \notin DOMAIN db.inbound \/ was.did # now.did => Numbered(i)'
                      /\ i \notin DOMAIN db.inbound \/ <<was.type, was.value>> # <<now.type, now.value>>
                         => Destined(i)'
    OBVIOUS
  <2>1. PICK s \in Scenarios : Consistent(s)
    BY DEF ConsoleInv
  <2>2. RoutesOf(db, db')
    BY <2>1, StepKeeps DEF ConsoleInv
  <2>3. NumberedIn(db', i) => Numbered(i)'
    BY DEF NumberedIn, Numbered, EnsureDidUnique
  <2>4. DestinedIn(db', i) => Destined(i)'
    BY DEF DestinedIn, Destined, ValidateDestination
  <2> QED BY <2>2, <2>3, <2>4 DEF RoutesOf
<1> QED BY <1>1, ConsoleInvariant, PTL DEF Spec, RouteChecked

-----------------------------------------------------------------------------
(* A walk upwards that leaves the tenants does not come back.               *)
LEMMA BelowInside ==
  ASSUME IsFiniteSet(DOMAIN db.agent), NEW T, NEW mine, mine # Nil, db.agent[mine].tenant \in T,
         NEW b \in Below(mine, T)
  PROVE  db.agent[b].tenant \in T
<1> DEFINE N == Cardinality(DOMAIN db.agent)
<1>1. N \in Nat
  BY FS_CardinalityType
<1> HIDE DEF N
<1>2. PICK up : Climbs(up, b, T, N)
  BY <1>1, ChainSteps DEF N
<1>3. PICK m \in 0..N : up[m] = mine
  BY <1>2 DEF Below, Climbs
<1> SUFFICES ASSUME db.agent[b].tenant \notin T PROVE FALSE
  OBVIOUS
<1>4. m # 0
  BY <1>2, <1>3 DEF Climbs
<1>5. m - 1 \in Nat /\ 1 \in 1..N /\ 1 - 1 = 0
  BY <1>1, <1>4
<1>6. up[1] = Nil
  BY <1>2, <1>5 DEF Climbs
<1> DEFINE K == { k \in 0..m-1 : up[k+1] = Nil }
<1>7. 0 \in K
  BY <1>5, <1>6
<1>8. ASSUME NEW n \in 1..m-1, n-1 \in K PROVE n \in K
  <2>1. up[n] = Nil
    <3>1. (n-1)+1 = n
      BY <1>5
    <3> QED BY <1>8, <3>1
  <2>2. n+1 \in 1..N /\ (n+1)-1 = n
    BY <1>1, <1>5
  <2>3. up[n+1] = Nil
    BY <1>2, <2>1, <2>2 DEF Climbs
  <2> QED BY <1>5, <2>3
<1>9. 0..m-1 \subseteq K
  <2> HIDE DEF K
  <2> DEFINE M == m - 1
  <2>1. M \in Nat /\ \A n \in 1..M : n-1 \in K => n \in K
    BY <1>5, <1>8
  <2> HIDE DEF M
  <2>2. 0..M \subseteq K
    BY <1>7, <2>1, Upwards
  <2> QED BY <2>2 DEF M
<1>10. m-1 \in 0..m-1 /\ (m-1)+1 = m
  BY <1>5
<1>11. up[m] = Nil
  BY <1>9, <1>10
<1> QED BY <1>3, <1>11

LEMMA ListedAll ==
  ASSUME NEW s \in Scenarios, Consistent(s), NEW u
  PROVE  Listed(u)
<1> DEFINE r == [NoRequest EXCEPT !.by = u]
           mine == Scope(u).agent
           agents == ListAgents(r)
           scope == Scope(u)
<1>0. IsFiniteSet(DOMAIN db.agent) /\ \A x \in DOMAIN db.extension : Placed(x, db.extension[x]) /\ x[1] \in DOMAIN db.tenant
  BY DEF Consistent, Rowed
<1>1. r.by = u
  BY DEF NoRequest
<1> HIDE DEF r
<1>2. \A t : TenantAccess(r, t) <=> scope.super \/ t \in scope.tenants
  BY <1>1 DEF TenantAccess
<1>3. \A table : ApplyTenantScope(r, table) = { i \in DOMAIN db[table] : scope.super \/ db[table][i].tenant \in scope.tenants }
  BY <1>1 DEF ApplyTenantScope
<1>4. agents = { a \in DOMAIN db.agent : AgentAccess(r, a) }
  BY <1>1, <1>2, <1>3 DEF ListAgents, AgentAccess
<1>5. GetTalktimeStats(r) = agents
  BY <1>1, <1>3 DEF ListAgents, GetTalktimeStats
<1>6. { g \in DOMAIN db.group : GroupAccess(r, g) } \subseteq ListGroups(r)
  BY <1>1, <1>2, <1>3 DEF ListGroups, GroupAccess
<1>7. ListExtensions(r) = Opens(r, "extension")
  BY <1>2, <1>3 DEF ListExtensions, Opens
<1>8. GetTenantMetrics(r).extensions = Cardinality(ListExtensions(r))
  <2>1. ListTenants(r) = { t \in DOMAIN db.tenant : scope.super \/ t \in scope.tenants }
    BY <1>1 DEF ListTenants
  <2>2. ListExtensions(r) = { x \in DOMAIN db.extension : scope.super \/ db.extension[x].tenant \in scope.tenants }
    BY <1>3 DEF ListExtensions
  <2>3. { x \in DOMAIN db.extension : x[1] \in ListTenants(r) } = ListExtensions(r)
    BY <1>0, <2>1, <2>2 DEF Placed
  <2> QED BY <2>3 DEF GetTenantMetrics
<1>9. (scope.lead => mine # Nil) => ListUsers(r) = { v \in DOMAIN db.user : UserAccess(r, v) }
  <2> SUFFICES ASSUME scope.lead => mine # Nil
               PROVE  ListUsers(r) = { v \in DOMAIN db.user : UserAccess(r, v) }
    OBVIOUS
  <2>1. CASE scope.super
    BY <1>1, <2>1 DEF ListUsers, ApplyScopeFilter, UserAccess
  <2>2. CASE ~scope.super /\ scope.tenants = {}
    BY <1>1, <2>2 DEF ListUsers, ApplyScopeFilter, UserAccess
  <2>3. CASE ~scope.super /\ scope.tenants # {}
    <3> DEFINE may(v) == scope.lead => \/ AgentsOf(db, v) \cap Accessible(r) # {}
                                       \/ AgentsOf(db, v) = {} /\ db.user[v].role = "agent"
               within(v) == MembersOf(v) # {} /\ MembersOf(v) \subseteq scope.tenants
    <3>1. ListUsers(r) = { v \in DOMAIN db.user :
                      /\ MembersOf(v) \cap scope.tenants # {}
                      /\ MembersOf(v) \subseteq scope.tenants
                      /\ may(v) }
      BY <1>1, <2>3 DEF ListUsers, ApplyScopeFilter
    <3>2. ASSUME NEW v PROVE UserAccess(r, v) <=> within(v) /\ may(v)
      <4>1. CASE ~scope.lead
        BY <1>1, <2>3, <4>1 DEF UserAccess
      <4>2. CASE scope.lead
        <5>1. mine # Nil
          BY <4>2
        <5>2. UserAccess(r, v) <=>
                /\ within(v)
                /\ IF AgentsOf(db, v) = {} THEN db.user[v].role = "agent"
                   ELSE AgentsOf(db, v) \cap Accessible(r) # {}
          BY <1>1, <2>3, <4>2, <5>1 DEF UserAccess
        <5> QED BY <4>2, <5>2
      <4> QED BY <4>1, <4>2
    <3>3. \A v : MembersOf(v) \subseteq scope.tenants => (MembersOf(v) # {} <=> MembersOf(v) \cap scope.tenants # {})
      OBVIOUS
    <3> HIDE DEF may
    <3> QED BY <3>1, <3>2, <3>3
  <2> QED BY <2>1, <2>2, <2>3
<1>10. scope.lead /\ mine # Nil /\ db.agent[mine].tenant \in scope.tenants =>
         ResolveRealtimeAccess(r) = { db.agent[a].extension : a \in agents } \ {Nil}
  <2> SUFFICES ASSUME scope.lead, mine # Nil, db.agent[mine].tenant \in scope.tenants
               PROVE  ResolveRealtimeAccess(r) = { db.agent[a].extension : a \in agents } \ {Nil}
    OBVIOUS
  <2>1. ~scope.super /\ db.user[u].role # "agent"
    BY DEF Scope
  <2>2. ResolveRealtimeAccess(r) = { db.agent[a].extension : a \in Accessible(r) } \ {Nil}
    BY <1>1, <2>1 DEF ResolveRealtimeAccess
  <2>3. agents = { a \in DOMAIN db.agent : db.agent[a].tenant \in scope.tenants /\ a \in Accessible(r) }
    BY <1>1, <1>3, <2>1 DEF ListAgents
  <2>4. ASSUME NEW a \in Accessible(r) PROVE a \in DOMAIN db.agent /\ db.agent[a].tenant \in scope.tenants
    <3> DEFINE T == scope.tenants
    <3>1. T # {}
      OBVIOUS
    <3>2. a \in Below(mine, T) \/ (a \in DOMAIN db.agent /\ db.agent[a].tenant \in T)
      BY <1>1, <3>1, <2>4 DEF Accessible
    <3>3. ASSUME a \in Below(mine, T) PROVE a \in DOMAIN db.agent /\ db.agent[a].tenant \in T
      <4>1. a \in DOMAIN db.agent
        BY <3>3 DEF Below
      <4>2. db.agent[a].tenant \in T
        <5> HIDE DEF T, mine
        <5>1. db.agent[mine].tenant \in T
          BY DEF T
        <5> QED BY <1>0, <3>3, <5>1, BelowInside
      <4> QED BY <4>1, <4>2
    <3> QED BY <3>2, <3>3
  <2>5. agents = Accessible(r)
    BY <2>3, <2>4
  <2> QED BY <2>2, <2>5
<1> HIDE DEF mine, agents, scope
<1>11. (scope = Scope(u)) /\ (mine = Scope(u).agent) /\ (agents = ListAgents(r))
  BY DEF scope, mine, agents
<1> QED BY <1>4, <1>5, <1>6, <1>7, <1>8, <1>9, <1>10, <1>11 DEF Listed, r

(* Managers are listed the agents, accounts and extensions that they can     *)
(* open, and operators the routes, caller ids, inbound routes and menus: the *)
(* conditions in the queries are the tests of the handlers of one row, also  *)
(* while requests are served.                                                *)
THEOREM ListsStayAgreed == Spec => []ListsAgree
<1>1. ConsoleInv => ListsAgree
  <2> SUFFICES ASSUME ConsoleInv, NEW u \in DOMAIN db.user
               PROVE  Listed(u) /\ ListedRoutes(u)
    BY DEF ListsAgree
  <2>1. Listed(u)
    BY ListedAll DEF ConsoleInv
  <2>2. ListedRoutes(u)
    BY DEF ListedRoutes, ListRoutes, ListCallerIds, ListInbound, ListMenus, Opens, ApplyTenantScope, TenantAccess
  <2> QED BY <2>1, <2>2
<1> QED BY <1>1, ConsoleInvariant, PTL
=============================================================================
