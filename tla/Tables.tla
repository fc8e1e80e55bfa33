-------------------------------- MODULE Tables --------------------------------
(***************************************************************************)
(* The database behind the console: a value db maps a table's name to its  *)
(* rows by key.  The schema below is that of the entities; the operators   *)
(* are what MySQL does with the foreign keys and what TypeORM does with    *)
(* the entities the services save.                                         *)
(***************************************************************************)
EXTENDS Integers, FiniteSets, Sequences, TLC

CONSTANT Nil          \* NULL, and the undefined of an optional argument

TableNames == {"tenant", "routing", "extension", "agent", "group", "user", "member",
               "role", "gateway", "outbound", "callerid", "inbound", "menu", "rule",
               "setting"}

(* A foreign key: a column of a table, what it refers to (the key of a row, *)
(* or the column named "key" of it) and what a delete of that row does.     *)
Ref(from, col, to, key, rule) ==
    [from |-> from, col |-> col, to |-> to, key |-> key, rule |-> rule]

TenantRefs == { Ref(t, "tenant", "tenant", "id", "CASCADE") :
                  t \in {"routing", "extension", "agent", "group", "member",
                         "outbound", "callerid", "inbound", "menu", "rule"} }

AgentRefs == { Ref("agent", "extension", "extension", "ext", "RESTRICT"),
               Ref("agent", "group", "group", "id", "SET NULL"),
               Ref("agent", "portalUser", "user", "id", "SET NULL"),
               Ref("agent", "parent", "agent", "id", "SET NULL") }

GroupRefs == { Ref("group", "owner", "agent", "id", "SET NULL") }

UserRefs == { Ref("user", "role", "role", "id", "RESTRICT") }

MemberRefs == { Ref("member", "user", "user", "id", "CASCADE") }

RouteRefs == { Ref("outbound", "gateway", "gateway", "id", "SET NULL") }

CallerIdRefs == { Ref("callerid", "gateway", "gateway", "id", "SET NULL") }

ForeignKeys == TenantRefs \cup AgentRefs \cup GroupRefs \cup UserRefs
               \cup MemberRefs \cup RouteRefs \cup CallerIdRefs

(* The unique indexes; a row with a NULL in one of the columns is free.     *)
Unique == { <<"tenant", {"domain"}>>, <<"agent", {"tenant", "extension"}>>,
            <<"agent", {"tenant", "portalUser"}>>, <<"group", {"tenant", "name"}>>,
            <<"user", {"email"}>>, <<"gateway", {"name"}>>,
            <<"menu", {"tenant", "name"}>> }

Targets(d, fk) ==
    IF fk.key = "id" THEN DOMAIN d[fk.to]
    ELSE { d[fk.to][e][fk.key] : e \in DOMAIN d[fk.to] }

Referenced(d) ==
    \A fk \in ForeignKeys : \A i \in DOMAIN d[fk.from] :
        d[fk.from][i][fk.col] \in Targets(d, fk) \cup {Nil}

Distinct(d) ==
    \A u \in Unique : \A i, j \in DOMAIN d[u[1]] :
        /\ i # j
        /\ \A c \in u[2] : d[u[1]][i][c] # Nil
        => \E c \in u[2] : d[u[1]][i][c] # d[u[1]][j][c]

-----------------------------------------------------------------------------
(* The rows a statement touches.                                            *)

(* The columns of a row, on top of those of another.                         *)
Over(row, other) ==
    [c \in DOMAIN row \cup DOMAIN other |-> IF c \in DOMAIN row THEN row[c] ELSE other[c]]

Put(d, t, id, row) == [d EXCEPT ![t] = Over([i \in {id} |-> row], @)]

(* Repository.save: the columns the entity has, on top of those of the row   *)
(* with its key; a row that is not there is inserted.                        *)
Owned == [menu |-> "options", rule |-> "actions"]

Absent(t) == [c \in IF t \in DOMAIN Owned THEN {Owned[t]} ELSE {} |-> {}]

Saved(d, t, id, row) ==
    Put(d, t, id, Over(row, IF id \in DOMAIN d[t] THEN d[t][id] ELSE Absent(t)))

(* The options of a menu and the actions of a rule are rows whose reference  *)
(* to their owner is NOT NULL: TypeORM sets it to NULL for those of the      *)
(* database that the saved collection does not have, which is refused.       *)

NoOrphans(d, t, id, row) ==
    t \in DOMAIN Owned /\ id \in DOMAIN d[t] /\ Owned[t] \in DOMAIN row
        => d[t][id][Owned[t]] \subseteq row[Owned[t]]

(* save of an account that was read with its agents and its memberships:     *)
(* the collections are written back too.  An agent linked since the read is  *)
(* unlinked, one unlinked since is linked again; a membership added since    *)
(* cannot lose its account and fails the statement.                          *)
Memberships(d, u) == { m \in DOMAIN d["member"] : d["member"][m].user = u }

AgentsOf(d, u) == { a \in DOMAIN d.agent : d.agent[a].portalUser = u }

Without(row, cols) == [c \in DOMAIN row \ cols |-> row[c]]

SavedAccount(d, u, row) ==
    [Saved(d, "user", u, Without(row, {"agents", "members"})) EXCEPT
        !.agent = [a \in DOMAIN @ |->
            CASE a \in row.agents -> [@[a] EXCEPT !.portalUser = u]
              [] a \in AgentsOf(d, u) \ row.agents -> [@[a] EXCEPT !.portalUser = Nil]
              [] OTHER -> @[a]]]

(* delete: the rows that refer to a deleted one with CASCADE go with it, the *)
(* others lose the reference; RESTRICT refuses the delete.                    *)
Gone(d, t, ids) ==
    [s \in TableNames |->
        (IF s = t THEN ids \cap DOMAIN d[t] ELSE {})
        \cup { i \in DOMAIN d[s] : \E fk \in ForeignKeys :
                 /\ fk.from = s /\ fk.to = t /\ fk.rule = "CASCADE"
                 /\ d[s][i][fk.col] \in ids }]

Restricted(d, gone) ==
    \E fk \in ForeignKeys :
        /\ fk.rule = "RESTRICT"
        /\ \E i \in DOMAIN d[fk.from] \ gone[fk.from] : \E j \in gone[fk.to] :
              d[fk.from][i][fk.col] = (IF fk.key = "id" THEN j ELSE d[fk.to][j][fk.key])

Released(d, gone, t, row) ==
    [c \in DOMAIN row |->
        IF \E fk \in ForeignKeys : /\ fk.from = t /\ fk.col = c /\ fk.rule = "SET NULL"
                                   /\ row[c] \in gone[fk.to]
        THEN Nil ELSE row[c]]

Deleted(d, gone) ==
    [t \in TableNames |->
        [i \in DOMAIN d[t] \ gone[t] |-> Released(d, gone, t, d[t][i])]]

-----------------------------------------------------------------------------
(* A write of a handler, and what it makes of the database.                 *)

Save(t, id, row) == [kind |-> "save", table |-> t, id |-> id, row |-> row]
SaveAccount(u, row) == [kind |-> "account", id |-> u, row |-> row]
Insert(t, rows) == [kind |-> "insert", table |-> t, rows |-> rows]
Update(t, where, set) == [kind |-> "update", table |-> t, where |-> where, set |-> set]
Delete(t, ids) == [kind |-> "delete", table |-> t, ids |-> ids]

Matches(d, t, i, where) ==
    \A c \in DOMAIN where : IF c = "id" THEN i = where.id ELSE d[t][i][c] = where[c]

Effect(d, wr) ==
    CASE wr.kind = "save"    -> Saved(d, wr.table, wr.id, wr.row)
      [] wr.kind = "account" -> SavedAccount(d, wr.id, wr.row)
      [] wr.kind = "insert"  -> [d EXCEPT ![wr.table] = Over(@, wr.rows)]
      [] wr.kind = "update"  -> [d EXCEPT ![wr.table] = [i \in DOMAIN @ |->
                                   IF Matches(d, wr.table, i, wr.where)
                                   THEN Over(wr.set, @[i]) ELSE @[i]]]
      [] wr.kind = "delete"  -> Deleted(d, Gone(d, wr.table, wr.ids))

Admitted(d, wr) ==
    CASE wr.kind = "save"    -> /\ NoOrphans(d, wr.table, wr.id, wr.row)
                                /\ Referenced(Effect(d, wr)) /\ Distinct(Effect(d, wr))
      [] wr.kind = "account" -> /\ Memberships(d, wr.id) \subseteq wr.row.members
                                /\ Referenced(Effect(d, wr)) /\ Distinct(Effect(d, wr))
      [] wr.kind = "insert"  -> /\ DOMAIN wr.rows \cap DOMAIN d[wr.table] = {}
                                /\ Referenced(Effect(d, wr)) /\ Distinct(Effect(d, wr))
      [] wr.kind = "update"  -> Referenced(Effect(d, wr)) /\ Distinct(Effect(d, wr))
      [] wr.kind = "delete"  -> ~Restricted(d, Gone(d, wr.table, wr.ids))

(* TypeORM leaves a join column out of a save when the relation of that     *)
(* column was loaded with the entity: the loaded object's key is written     *)
(* whatever the column was assigned.                                         *)
RelationWins(loaded, assigned) == IF loaded = Nil THEN assigned ELSE loaded
=============================================================================
