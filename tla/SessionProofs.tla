---------------------------- MODULE SessionProofs ----------------------------
(***************************************************************************)
(* Proofs about the accounts of Administration: a token is redeemed once and *)
(* a logout revokes it; super admins are made by super admins; accounts keep *)
(* a tenant, unless handlers raced.                                         *)
(***************************************************************************)
EXTENDS ConsoleProofs

-----------------------------------------------------------------------------
(* What the browser's requests have yet to do: Issues, a new bundle is to be *)
(* remembered and then given; Clears, the bundle of the account is to be     *)
(* forgotten; Gives, there is only the answer left.                          *)
Op(w) == work[w].req.op

Token(w) == work[w].req.dto.token

Todo(w) == work[w].todo

Issues(w, b) ==
    /\ Op(w) \in {"login", "refresh"} /\ Todo(w) # <<>>
    /\ Head(Todo(w)) = Remember(b) /\ Tail(Todo(w)) = <<Reply(b)>>

Clears(w) ==
    /\ Op(w) = "logout" /\ Todo(w) # <<>>
    /\ Head(Todo(w)) = Remember(Nil) /\ Tail(Todo(w)) = <<Reply(0)>>

Gives(w, b) ==
    /\ Op(w) \in BrowserOps /\ Todo(w) # <<>>
    /\ Head(Todo(w)) = Reply(b) /\ Tail(Todo(w)) = <<>>

Browses(w) == Clears(w) \/ \E b : Issues(w, b) \/ Gives(w, b)

(* Tokens that are none, or of a bundle that is not about to be remembered.          *)
Handed == { n \in 0..bundles : \A w \in Workers : ~Issues(w, n) }

BundlesApart ==
    /\ bundles \in Nat
    /\ "refresh" \in DOMAIN jar /\ {"redeemed", "twice", "revoked"} \subseteq DOMAIN past
    /\ \A w \in Workers : Op(w) \in BrowserOps => Browses(w)
    /\ \A w \in Workers : \A b : Issues(w, b) => b \in 1..bundles
    /\ \A v, w \in Workers : \A b : Issues(v, b) /\ Issues(w, b) => v = w

TokensHanded ==
    /\ jar.refresh \in Handed
    /\ past.redeemed \cup past.revoked \subseteq Handed
    /\ \A w \in Workers : \A b : Gives(w, b) => b \in Handed
    /\ \A w \in Workers : Op(w) \in {"refresh", "logout"} => Token(w) \in Handed
    /\ \A r \in requests :
         /\ r.op \in BrowserOps => r.by = Visitor
         /\ r.op \in {"refresh", "logout"} => r.dto.token \in Handed

-----------------------------------------------------------------------------
(* What a statement may do to the accounts: the one of the browser has the   *)
(* token it had, or it is gone.                                              *)
Columned(d) == \A u \in DOMAIN d.user : UserColumns \subseteq DOMAIN d.user[u]

Stays(d, e) ==
    Visitor \in DOMAIN e.user => Visitor \in DOMAIN d.user /\ e.user[Visitor].hash = d.user[Visitor].hash

Promotes(d, e) ==
    \E u \in DOMAIN e.user : /\ e.user[u].role = "super_admin"
                             /\ u \notin DOMAIN d.user \/ d.user[u].role # "super_admin"

Duly(op, super, d, e) == Columned(e) /\ Stays(d, e) /\ (Promotes(d, e) => super \/ op = "boot")

Done(d, x) == Result(d, x)[Len(x.writes)]

(* A save of accounts does what was decided on.                              *)
Due(w) ==
    Op(w) \in AccountOps /\ Todo(w) # <<>> /\ Head(Todo(w)).kind = "tx" /\ ~work[w].stale
    => Duly(Op(w), work[w].scope.super, db, Done(db, Head(Todo(w))))

Hash == db.user[Visitor].hash

HashCurrent ==
    /\ Hash # Nil => Hash # 0 /\ Hash \in Handed
    /\ Hash \notin past.redeemed \cup past.revoked /\ ~past.twice
    /\ \A w \in Workers : \A b : Op(w) = "refresh" /\ ~work[w].stale /\ Issues(w, b) => Token(w) = Hash
    /\ \A w \in Workers : \A b : Op(w) \in {"refresh", "logout"} /\ Gives(w, b) => Token(w) # Hash
    /\ \A w \in Workers : \A b : Op(w) = "refresh" /\ Gives(w, b) => Token(w) \notin past.redeemed
    /\ \A v, w \in Workers : \A a, b :
         /\ Op(v) = "refresh" /\ Gives(v, a) /\ Op(w) = "refresh" /\ Gives(w, b)
         => v = w \/ Token(v) # Token(w)

SessionInv ==
    /\ BundlesApart /\ TokensHanded
    /\ clean => Columned(db) /\ (\A w \in Workers : Due(w)) /\ (Visitor \in DOMAIN db.user => HashCurrent)

-----------------------------------------------------------------------------
(* What statements make of the accounts.                                    *)
UsersFewer(d, e) ==
    /\ TableNames \subseteq DOMAIN e
    /\ DOMAIN e.user \subseteq DOMAIN d.user
    /\ \A u \in DOMAIN e.user :
         DOMAIN e.user[u] = DOMAIN d.user[u] /\ \A c \in DOMAIN d.user[u] : e.user[u][c] = d.user[u][c]

LEMMA FewerStays ==
  ASSUME NEW d, NEW e, UsersFewer(d, e), Columned(d)
  PROVE  Columned(e) /\ Stays(d, e) /\ ~Promotes(d, e)
<1>1. ASSUME NEW u \in DOMAIN e.user
      PROVE  /\ u \in DOMAIN d.user /\ UserColumns \subseteq DOMAIN e.user[u]
             /\ e.user[u].hash = d.user[u].hash /\ e.user[u].role = d.user[u].role
  <2>1. u \in DOMAIN d.user /\ DOMAIN e.user[u] = DOMAIN d.user[u] /\ UserColumns \subseteq DOMAIN d.user[u]
    BY DEF UsersFewer, Columned
  <2>2. \A c \in DOMAIN d.user[u] : e.user[u][c] = d.user[u][c]
    BY DEF UsersFewer
  <2>3. "hash" \in DOMAIN d.user[u] /\ "role" \in DOMAIN d.user[u]
    BY <2>1 DEF UserColumns
  <2> QED BY <2>1, <2>2, <2>3
<1> QED BY <1>1 DEF Columned, Stays, Promotes

LEMMA DeleteUsers ==
  ASSUME NEW d, NEW wr, wr.kind = "delete", NEW e, e = Effect(d, wr)
  PROVE  UsersFewer(d, e)
<1> DEFINE gone == Gone(d, wr.table, wr.ids)
           out(i) == Released(d, gone, "user", d.user[i])
<1>1. DOMAIN e = TableNames /\ e["user"] = [i \in DOMAIN d["user"] \ gone["user"] |-> Released(d, gone, "user", d["user"][i])]
  <2>1. gone = Gone(d, wr.table, wr.ids) /\ "user" \in TableNames
    BY DEF TableNames
  <2> HIDE DEF gone
  <2>2. /\ DOMAIN e = TableNames
        /\ \A t \in TableNames : e[t] = [i \in DOMAIN d[t] \ gone[t] |-> Released(d, gone, t, d[t][i])]
    BY <2>1, DeleteEffect
  <2> QED BY <2>1, <2>2
<1>2. ASSUME NEW i \in DOMAIN d.user PROVE Loosened(gone, "user", d.user[i], out(i))
  BY ReleasedColumns
<1>3. \A fk \in ForeignKeys : ~(fk.from = "user" /\ fk.rule = "SET NULL")
  BY SchemaRules DEF SetsNull
<1>4. ASSUME NEW i \in DOMAIN d.user \ gone.user
      PROVE  DOMAIN e.user[i] = DOMAIN d.user[i] /\ \A c \in DOMAIN d.user[i] : e.user[i][c] = d.user[i][c]
  <2>1. DOMAIN out(i) = DOMAIN d.user[i] /\ \A c \in DOMAIN d.user[i] : out(i)[c] = d.user[i][c]
    BY <1>2, <1>3 DEF Loosened
  <2>2. e.user[i] = out(i)
    BY <1>1
  <2> QED BY <2>1, <2>2
<1> QED BY <1>1, <1>4 DEF UsersFewer

LEMMA EffectUsers ==
  ASSUME NEW s, NEW c, NEW wr, Fits(s, c, wr), ~OfAccount(wr), NEW d, TableNames \subseteq DOMAIN d,
         NEW e, e = Effect(d, wr)
  PROVE  UsersFewer(d, e)
<1>1. "user" \in TableNames
  BY DEF TableNames
<1>2. CASE wr.kind = "save"
  BY <1>1, <1>2, SaveEffect DEF Fits, OfAccount, UsersFewer
<1>3. CASE wr.kind = "insert"
  BY <1>1, <1>3, InsertEffect DEF Fits, UsersFewer
<1>4. CASE wr.kind = "update"
  <2>1. wr.table \in DOMAIN d \ {"user"}
    BY <1>4 DEF Fits, OfAccount, TableNames
  <2> QED BY <1>1, <1>4, <2>1, UpdateEffect DEF UsersFewer
<1>5. CASE wr.kind = "delete"
  BY <1>5, DeleteUsers
<1> QED BY <1>2, <1>3, <1>4, <1>5 DEF Fits, OfAccount

LEMMA EffectLasts ==
  ASSUME NEW s, NEW c, NEW wr, Fits(s, c, wr), Lasting(wr), NEW d, TableNames \subseteq DOMAIN d, Columned(d),
         NEW e, e = Effect(d, wr)
  PROVE  TableNames \subseteq DOMAIN e /\ Columned(e) /\ Stays(d, e)
<1>1. CASE ~OfAccount(wr)
  BY <1>1, EffectUsers, FewerStays DEF UsersFewer
<1>2. CASE OfAccount(wr)
  <2>1. wr.kind = "update" /\ wr.table = "user" /\ DOMAIN wr.set = {"role"}
    BY <1>2 DEF OfAccount, Lasting
  <2>2. "user" \in DOMAIN d
    BY DEF TableNames
  <2>3. /\ DOMAIN e = DOMAIN d /\ DOMAIN e.user = DOMAIN d.user
        /\ \A i \in DOMAIN d.user : e.user[i] \in { Over(wr.set, d.user[i]), d.user[i] }
    BY <2>1, <2>2, UpdateEffect
  <2>4. ASSUME NEW i \in DOMAIN d.user
        PROVE  UserColumns \subseteq DOMAIN e.user[i] /\ e.user[i].hash = d.user[i].hash
    <3>1. UserColumns \subseteq DOMAIN d.user[i]
      BY DEF Columned
    <3>2. DOMAIN Over(wr.set, d.user[i]) = DOMAIN wr.set \cup DOMAIN d.user[i]
      BY OverColumns
    <3>3. Over(wr.set, d.user[i]).hash = d.user[i].hash
      <4>1. "hash" \in DOMAIN d.user[i] \ DOMAIN wr.set
        BY <2>1, <3>1 DEF UserColumns
      <4>2. \A k \in DOMAIN d.user[i] \ DOMAIN wr.set : Over(wr.set, d.user[i])[k] = d.user[i][k]
        BY OverColumns
      <4> QED BY <4>1, <4>2
    <3> QED BY <2>3, <3>1, <3>2, <3>3
  <2> QED BY <2>3, <2>4 DEF Columned, Stays
<1> QED BY <1>1, <1>2

(* A transaction, of each kind of statements.                                *)
LEMMA DoneUsers ==
  ASSUME NEW s, NEW c, NEW x, IsSeq(x.writes), NEW d, TableNames \subseteq DOMAIN d,
         \A i \in DOMAIN x.writes : Fits(s, c, x.writes[i]) /\ ~OfAccount(x.writes[i])
  PROVE  UsersFewer(d, Done(d, x))
<1> DEFINE N == Len(x.writes)
           at(n) == Result(d, x)[n]
           good(n) == UsersFewer(d, at(n))
           K == { n \in 0..N : ~good(n) }
<1>1. N \in Nat /\ DOMAIN x.writes = 1..N
  BY DEF IsSeq
<1>2. at(0) = d /\ \A n \in 1..N : at(n) = Effect(at(n-1), x.writes[n])
  BY <1>1, ResultSteps
<1>3. good(0)
  BY <1>2 DEF UsersFewer
<1>4. ASSUME NEW n \in 1..N, good(n-1)
      PROVE  good(n)
  <2> DEFINE p == at(n-1)
             q == at(n)
             wr == x.writes[n]
  <2>1. Fits(s, c, wr) /\ ~OfAccount(wr) /\ q = Effect(p, wr)
    BY <1>1, <1>2
  <2>2. UsersFewer(d, p)
    BY <1>4
  <2>h. UsersFewer(d, q) => good(n)
    OBVIOUS
  <2> HIDE DEF p, q, wr, good, at
  <2>3. UsersFewer(p, q)
    BY <2>1, <2>2, EffectUsers DEF UsersFewer
  <2>4. UsersFewer(d, q)
    BY <2>2, <2>3 DEF UsersFewer
  <2> QED BY <2>4, <2>h
<1>5. good(N)
  <2> SUFFICES ASSUME ~good(N) PROVE FALSE
    OBVIOUS
  <2> HIDE DEF good, at, N
  <2>1. N \in K /\ K \subseteq Nat
    BY <1>1
  <2>2. PICK n \in K : \A m \in K : n <= m
    <3> HIDE DEF K
    <3> QED BY <2>1, Least
  <2>3. n \in 1..N
    BY <1>1, <1>3, <2>2
  <2>4. n-1 \notin K
    <3> HIDE DEF K
    <3> QED BY <1>1, <2>2, <2>3
  <2>5. good(n-1)
    BY <1>1, <2>3, <2>4
  <2> QED BY <1>4, <2>2, <2>3, <2>5
<1> QED BY <1>5 DEF Done

LEMMA DoneLasts ==
  ASSUME NEW s, NEW c, NEW x, IsSeq(x.writes), NEW d, TableNames \subseteq DOMAIN d, Columned(d),
         \A i \in DOMAIN x.writes : Fits(s, c, x.writes[i]) /\ Lasting(x.writes[i])
  PROVE  Columned(Done(d, x)) /\ Stays(d, Done(d, x))
<1> DEFINE N == Len(x.writes)
           at(n) == Result(d, x)[n]
           good(n) == TableNames \subseteq DOMAIN at(n) /\ Columned(at(n)) /\ Stays(d, at(n))
           K == { n \in 0..N : ~good(n) }
<1>1. N \in Nat /\ DOMAIN x.writes = 1..N
  BY DEF IsSeq
<1>2. at(0) = d /\ \A n \in 1..N : at(n) = Effect(at(n-1), x.writes[n])
  BY <1>1, ResultSteps
<1>3. good(0)
  BY <1>2 DEF Stays
<1>4. ASSUME NEW n \in 1..N, good(n-1)
      PROVE  good(n)
  <2> DEFINE p == at(n-1)
             q == at(n)
             wr == x.writes[n]
  <2>1. Fits(s, c, wr) /\ Lasting(wr) /\ q = Effect(p, wr)
    BY <1>1, <1>2
  <2>2. TableNames \subseteq DOMAIN p /\ Columned(p) /\ Stays(d, p)
    BY <1>4
  <2>h. TableNames \subseteq DOMAIN q /\ Columned(q) /\ Stays(d, q) => good(n)
    OBVIOUS
  <2> HIDE DEF p, q, wr, good, at
  <2>3. TableNames \subseteq DOMAIN q /\ Columned(q) /\ Stays(p, q)
    BY <2>1, <2>2, EffectLasts
  <2>4. Stays(d, q)
    BY <2>2, <2>3 DEF Stays
  <2> QED BY <2>3, <2>4, <2>h
<1>5. good(N)
  <2> SUFFICES ASSUME ~good(N) PROVE FALSE
    OBVIOUS
  <2> HIDE DEF good, at, N
  <2>1. N \in K /\ K \subseteq Nat
    BY <1>1
  <2>2. PICK n \in K : \A m \in K : n <= m
    <3> HIDE DEF K
    <3> QED BY <2>1, Least
  <2>3. n \in 1..N
    BY <1>1, <1>3, <2>2
  <2>4. n-1 \notin K
    <3> HIDE DEF K
    <3> QED BY <1>1, <2>2, <2>3
  <2>5. good(n-1)
    BY <1>1, <2>3, <2>4
  <2> QED BY <1>4, <2>2, <2>3, <2>5
<1> QED BY <1>5 DEF Done

-----------------------------------------------------------------------------
(* A handler begins a request of its own kind.                              *)
Begins(w, r) == \E todo : Begin(w, r, todo)

Other(w, r) == Begins(w, r) /\ r.op \notin BrowserOps \cup AccountOps

LEMMA OtherAgent ==
  ASSUME NEW w, NEW r, AgentRequest(w, r)
  PROVE  Other(w, r)
<1>1. CASE CreateAgent(w, r)
  BY <1>1 DEF CreateAgent, Other, Begins, BrowserOps, AccountOps
<1>2. CASE UpdateAgent(w, r)
  BY <1>2 DEF UpdateAgent, Other, Begins, BrowserOps, AccountOps
<1>3. CASE DeleteAgent(w, r)
  BY <1>3 DEF DeleteAgent, Other, Begins, BrowserOps, AccountOps
<1>4. CASE CreateGroup(w, r)
  BY <1>4 DEF CreateGroup, Other, Begins, BrowserOps, AccountOps
<1>5. CASE UpdateGroup(w, r)
  BY <1>5 DEF UpdateGroup, Other, Begins, BrowserOps, AccountOps
<1>6. CASE DeleteGroup(w, r)
  BY <1>6 DEF DeleteGroup, Other, Begins, BrowserOps, AccountOps
<1> QED BY <1>1, <1>2, <1>3, <1>4, <1>5, <1>6 DEF AgentRequest

LEMMA OtherTenant ==
  ASSUME NEW w, NEW r, TenantRequest(w, r)
  PROVE  Other(w, r)
<1>1. CASE CreateTenant(w, r)
  BY <1>1 DEF CreateTenant, Other, Begins, BrowserOps, AccountOps
<1>2. CASE UpdateTenant(w, r)
  BY <1>2 DEF UpdateTenant, Other, Begins, BrowserOps, AccountOps
<1>3. CASE DeleteTenant(w, r)
  BY <1>3 DEF DeleteTenant, Other, Begins, BrowserOps, AccountOps
<1>4. CASE CreateExtension(w, r)
  BY <1>4 DEF CreateExtension, NewExtension, Other, Begins, BrowserOps, AccountOps
<1>5. CASE UpdateExtension(w, r)
  BY <1>5 DEF UpdateExtension, ChangeExtension, Other, Begins, BrowserOps, AccountOps
<1>6. CASE DeleteExtension(w, r)
  BY <1>6 DEF DeleteExtension, RemoveExtension, Other, Begins, BrowserOps, AccountOps
<1>7. CASE ExternalCreateExtension(w, r)
  BY <1>7 DEF ExternalCreateExtension, NewExtension, Other, Begins, BrowserOps, AccountOps
<1>8. CASE ExternalUpdateExtension(w, r)
  BY <1>8 DEF ExternalUpdateExtension, ChangeExtension, Other, Begins, BrowserOps, AccountOps
<1>9. CASE ExternalDeleteExtension(w, r)
  BY <1>9 DEF ExternalDeleteExtension, RemoveExtension, Other, Begins, BrowserOps, AccountOps
<1> QED BY <1>1, <1>2, <1>3, <1>4, <1>5, <1>6, <1>7, <1>8, <1>9 DEF TenantRequest

LEMMA OtherRouting ==
  ASSUME NEW w, NEW r, RoutingRequest(w, r)
  PROVE  Other(w, r)
<1>1. CASE CreateRoute(w, r)
  BY <1>1 DEF CreateRoute, CreateOutbound, Other, Begins, BrowserOps, AccountOps
<1>2. CASE UpdateRoute(w, r)
  BY <1>2 DEF UpdateRoute, UpdateOutbound, Other, Begins, BrowserOps, AccountOps
<1>3. CASE DeleteRoute(w, r)
  BY <1>3 DEF DeleteRoute, DeleteOutbound, Other, Begins, BrowserOps, AccountOps
<1>4. CASE CreateCallerId(w, r)
  BY <1>4 DEF CreateCallerId, CreateOutbound, Other, Begins, BrowserOps, AccountOps
<1>5. CASE UpdateCallerId(w, r)
  BY <1>5 DEF UpdateCallerId, UpdateOutbound, Other, Begins, BrowserOps, AccountOps
<1>6. CASE DeleteCallerId(w, r)
  BY <1>6 DEF DeleteCallerId, DeleteOutbound, Other, Begins, BrowserOps, AccountOps
<1>7. CASE CreateInbound(w, r)
  BY <1>7 DEF CreateInbound, Other, Begins, BrowserOps, AccountOps
<1>8. CASE UpdateInbound(w, r)
  BY <1>8 DEF UpdateInbound, Other, Begins, BrowserOps, AccountOps
<1>9. CASE DeleteInbound(w, r)
  BY <1>9 DEF DeleteInbound, Other, Begins, BrowserOps, AccountOps
<1>10. CASE CreateMenu(w, r)
  BY <1>10 DEF CreateMenu, Other, Begins, BrowserOps, AccountOps
<1>11. CASE UpdateMenu(w, r)
  BY <1>11 DEF UpdateMenu, Other, Begins, BrowserOps, AccountOps
<1>12. CASE DeleteMenu(w, r)
  BY <1>12 DEF DeleteMenu, Other, Begins, BrowserOps, AccountOps
<1>13. CASE CreateRule(w, r)
  BY <1>13 DEF CreateRule, Other, Begins, BrowserOps, AccountOps
<1>14. CASE UpdateRule(w, r)
  BY <1>14 DEF UpdateRule, Other, Begins, BrowserOps, AccountOps
<1>15. CASE DeleteRule(w, r)
  BY <1>15 DEF DeleteRule, Other, Begins, BrowserOps, AccountOps
<1> QED BY <1>1, <1>2, <1>3, <1>4, <1>5, <1>6, <1>7, <1>8, <1>9, <1>10, <1>11, <1>12, <1>13, <1>14, <1>15 DEF RoutingRequest

LEMMA OtherNetwork ==
  ASSUME NEW w, NEW r, NetworkRequest(w, r)
  PROVE  Other(w, r)
<1>1. CASE CreateGateway(w, r)
  BY <1>1 DEF CreateGateway, Other, Begins, BrowserOps, AccountOps
<1>2. CASE UpdateGateway(w, r)
  BY <1>2 DEF UpdateGateway, Other, Begins, BrowserOps, AccountOps
<1>3. CASE DeleteGateway(w, r)
  BY <1>3 DEF DeleteGateway, Other, Begins, BrowserOps, AccountOps
<1>4. CASE UpdateFsPortConfig(w, r)
  BY <1>4 DEF UpdateFsPortConfig, Other, Begins, BrowserOps, AccountOps
<1>5. CASE UpdateRecordingStorageConfig(w, r)
  BY <1>5 DEF UpdateRecordingStorageConfig, Other, Begins, BrowserOps, AccountOps
<1> QED BY <1>1, <1>2, <1>3, <1>4, <1>5 DEF NetworkRequest

LEMMA OtherUser ==
  ASSUME NEW w, NEW r, DeleteUser(w, r) \/ CreateRole(w, r) \/ UpdateRole(w, r) \/ DeleteRole(w, r)
  PROVE  Other(w, r)
<1>1. CASE DeleteUser(w, r)
  BY <1>1 DEF DeleteUser, Other, Begins, BrowserOps, AccountOps
<1>2. CASE CreateRole(w, r)
  BY <1>2 DEF CreateRole, Other, Begins, BrowserOps, AccountOps
<1>3. CASE UpdateRole(w, r)
  BY <1>3 DEF UpdateRole, Other, Begins, BrowserOps, AccountOps
<1>4. CASE DeleteRole(w, r)
  BY <1>4 DEF DeleteRole, Other, Begins, BrowserOps, AccountOps
<1> QED BY <1>1, <1>2, <1>3, <1>4


-----------------------------------------------------------------------------
(* What a handler that is not of accounts has yet to write leaves the        *)
(* accounts as they should be.                                               *)
LEMMA PlainDuly ==
  ASSUME NEW s, NEW c, NEW op, NEW d, TableNames \subseteq DOMAIN d, Columned(d),
         NEW t, PlainTodo(s, c, t), t # <<>>, Head(t).kind = "tx"
  PROVE  Duly(op, FALSE, d, Done(d, Head(t)))
<1> DEFINE x == Head(t)
<1>1. 1 \in DOMAIN t /\ Head(t) = t[1]
  BY DEF PlainTodo, IsSeq
<1>2. PlainItem(s, c, x)
  BY <1>1 DEF PlainTodo
<1>3. IsSeq(x.writes) /\ \A i \in DOMAIN x.writes : Fits(s, c, x.writes[i]) /\ ~OfAccount(x.writes[i])
  BY <1>2 DEF PlainItem, PlainWrites, Plain, Steady
<1> HIDE DEF x
<1>4. UsersFewer(d, Done(d, x))
  BY <1>3, DoneUsers
<1>5. Duly(op, FALSE, d, Done(d, x))
  BY <1>4, FewerStays DEF Duly
<1> QED BY <1>5 DEF x

LEMMA DecidedDuly ==
  ASSUME NEW s, NEW U, NEW c, NEW op, NEW fresh, NEW d, TableNames \subseteq DOMAIN d, Columned(d),
         NEW t, Decided(s, U, c, d, fresh, t)
  PROVE  Duly(op, FALSE, d, Done(d, Head(t)))
<1> DEFINE x == Head(t)
<1>1. PICK wr : t = <<Tx(<<wr>>)>> /\ Checked(wr) /\ Fits(s, c, wr)
  BY DEF Decided
<1>2. x = Tx(<<wr>>) /\ ~OfAccount(wr)
  BY <1>1 DEF Checked, OfAccount
<1>3. x.writes = <<wr>>
  BY <1>2 DEF Tx
<1>4. IsSeq(x.writes) /\ \A i \in DOMAIN x.writes : x.writes[i] = wr
  <2> HIDE DEF x
  <2>1. x.writes \in Seq({wr})
    BY <1>3
  <2> QED BY <2>1, SeqOf
<1> HIDE DEF x
<1>5. UsersFewer(d, Done(d, x))
  <2>1. \A i \in DOMAIN x.writes : Fits(s, c, x.writes[i]) /\ ~OfAccount(x.writes[i])
    BY <1>1, <1>2, <1>4
  <2> QED BY <1>4, <2>1, DoneUsers
<1>6. Duly(op, FALSE, d, Done(d, x))
  BY <1>5, FewerStays DEF Duly
<1> QED BY <1>6 DEF x

LEMMA BootDuly ==
  ASSUME NEW s, NEW c, NEW d, TableNames \subseteq DOMAIN d, Columned(d), NEW t, Personal(s, c, "boot", t)
  PROVE  Duly("boot", FALSE, d, Done(d, Head(t)))
<1> DEFINE x == Head(t)
<1>1. IsSeq(x.writes) /\ \A i \in DOMAIN x.writes : Fits(s, c, x.writes[i]) /\ Lasting(x.writes[i])
  BY DEF Personal, SteadyItem, Steady
<1> HIDE DEF x
<1>2. Columned(Done(d, x)) /\ Stays(d, Done(d, x))
  BY <1>1, DoneLasts
<1> QED BY <1>2 DEF x, Duly

LEMMA AwaitedDuly ==
  ASSUME NEW s, NEW U, NEW c, NEW fresh, NEW op, NEW d, TableNames \subseteq DOMAIN d, Columned(d),
         NEW t, Awaits(s, U, c, d, fresh, op, t), t # <<>>, Head(t).kind = "tx",
         op \notin BrowserOps \cup AccountOps \/ op = "boot"
  PROVE  Duly(op, FALSE, d, Done(d, Head(t)))
<1>0. op \notin BrowserOps
  BY DEF BrowserOps
<1>1. CASE PlainTodo(s, c, t)
  BY <1>1, PlainDuly
<1>2. CASE Decided(s, U, c, d, fresh, t)
  BY <1>2, DecidedDuly
<1>3. CASE op = "boot" /\ Personal(s, c, op, t)
  BY <1>3, BootDuly
<1> QED BY <1>0, <1>1, <1>2, <1>3 DEF Awaits, Going

-----------------------------------------------------------------------------
(* The saves of accounts.                                                   *)
LEMMA DoneOne ==
  ASSUME NEW d, NEW wr
  PROVE  Done(d, Tx(<<wr>>)) = Effect(d, wr)
<1> DEFINE tx == Tx(<<wr>>)
<1>1. Len(tx.writes) = 1 /\ tx.writes[1] = wr
  BY DEF Tx
<1>2. /\ Result(d, tx)[0] = d
      /\ \A n \in 1..Len(tx.writes) : Result(d, tx)[n] = Effect(Result(d, tx)[n-1], tx.writes[n])
  <2>1. Len(tx.writes) \in Nat
    BY <1>1
  <2> HIDE DEF tx
  <2> QED BY <2>1, ResultSteps
<1> HIDE DEF tx
<1>3. Done(d, tx) = Effect(d, wr)
  BY <1>1, <1>2 DEF Done
<1> QED BY <1>3 DEF tx

LEMMA SavedUser ==
  ASSUME NEW d, "user" \in DOMAIN d, NEW u, NEW row, NEW e, e = Effect(d, Save("user", u, row))
  PROVE  /\ DOMAIN e.user = DOMAIN d.user \cup {u}
         /\ \A v \in DOMAIN d.user \ {u} : e.user[v] = d.user[v]
         /\ DOMAIN row \subseteq DOMAIN e.user[u]
         /\ \A c \in DOMAIN row : e.user[u][c] = row[c]
         /\ u \in DOMAIN d.user => DOMAIN d.user[u] \subseteq DOMAIN e.user[u]
<1> DEFINE wr == Save("user", u, row)
           old == IF u \in DOMAIN d.user THEN d.user[u] ELSE Absent("user")
<1>1. wr.kind = "save" /\ wr.table = "user" /\ wr.id = u /\ wr.row = row
  BY DEF Save
<1> HIDE DEF wr
<1>2. /\ DOMAIN e.user = DOMAIN d.user \cup {u}
      /\ \A v \in DOMAIN d.user \ {u} : e.user[v] = d.user[v]
      /\ e.user[u] = Over(row, old)
  BY <1>1, SaveEffect DEF wr
<1>3. u \in DOMAIN d.user => old = d.user[u]
  OBVIOUS
<1> HIDE DEF old
<1>4. DOMAIN Over(row, old) = DOMAIN row \cup DOMAIN old /\ \A c \in DOMAIN row : Over(row, old)[c] = row[c]
  BY OverColumns
<1>5. u \in DOMAIN d.user => DOMAIN d.user[u] \subseteq DOMAIN Over(row, old)
  BY <1>3, <1>4
<1> QED BY <1>2, <1>4, <1>5

LEMMA MadeDuly ==
  ASSUME NEW d, "user" \in DOMAIN d, Columned(d), NEW u, u # Visitor, NEW row, UserColumns \subseteq DOMAIN row,
         NEW e, e = Effect(d, Save("user", u, row)), NEW op, NEW super, row.role = "super_admin" => super
  PROVE  Duly(op, super, d, e)
<1>1. /\ DOMAIN e.user = DOMAIN d.user \cup {u}
      /\ \A v \in DOMAIN d.user \ {u} : e.user[v] = d.user[v]
      /\ DOMAIN row \subseteq DOMAIN e.user[u]
      /\ \A c \in DOMAIN row : e.user[u][c] = row[c]
  BY SavedUser
<1>2. e.user[u].role = row.role
  BY <1>1 DEF UserColumns
<1>3. Columned(e)
  BY <1>1 DEF Columned
<1>4. Stays(d, e)
  BY <1>1 DEF Stays
<1>5. Promotes(d, e) => super
  BY <1>1, <1>2 DEF Promotes
<1> QED BY <1>3, <1>4, <1>5 DEF Duly

LEMMA ChangedDuly ==
  ASSUME NEW d, "user" \in DOMAIN d, "agent" \in DOMAIN d, Columned(d), NEW u \in DOMAIN d.user, NEW row,
         UserColumns \subseteq DOMAIN row, row.hash = d.user[u].hash,
         NEW e, e = Effect(d, SaveAccount(u, row)), NEW op, NEW super,
         row.role = "super_admin" /\ d.user[u].role # "super_admin" => super
  PROVE  Duly(op, super, d, e)
<1> DEFINE cols == Without(row, {"agents", "members"})
           one == Saved(d, "user", u, cols)
<1>1. one = Effect(d, Save("user", u, cols))
  BY DEF Effect, Save
<1>2. UserColumns \subseteq DOMAIN cols /\ cols.hash = row.hash /\ cols.role = row.role
  BY DEF Without, UserColumns
<1> HIDE DEF cols
<1>3. /\ DOMAIN one.user = DOMAIN d.user \cup {u}
      /\ \A v \in DOMAIN d.user \ {u} : one.user[v] = d.user[v]
      /\ DOMAIN cols \subseteq DOMAIN one.user[u]
      /\ \A c \in DOMAIN cols : one.user[u][c] = cols[c]
  <2> HIDE DEF one
  <2> QED BY <1>1, SavedUser
<1>4. e.user = one.user
  <2>1. e = SavedAccount(d, u, row)
    BY DEF Effect, SaveAccount
  <2>2. \E f : e = [one EXCEPT !.agent = f]
    BY <2>1 DEF SavedAccount, cols
  <2> HIDE DEF one
  <2> QED BY <2>2
<1> HIDE DEF one
<1>5. e.user[u].hash = d.user[u].hash /\ e.user[u].role = row.role /\ UserColumns \subseteq DOMAIN e.user[u]
  BY <1>2, <1>3, <1>4 DEF UserColumns
<1>6. Columned(e)
  BY <1>3, <1>4, <1>5 DEF Columned
<1>7. Stays(d, e)
  BY <1>3, <1>4, <1>5 DEF Stays
<1>8. Promotes(d, e) => super
  BY <1>3, <1>4, <1>5 DEF Promotes
<1> QED BY <1>6, <1>7, <1>8 DEF Duly

LEMMA RoleAsked ==
  ASSUME NEW r, Granted(r, Managers), NEW role, RoleAllowed(r, role), role = "super_admin"
  PROVE  Scope(r.by).super
<1>1. role \in AssignableRoles(r)
  BY DEF RoleAllowed
<1> QED BY <1>1 DEF AssignableRoles

(* What the handlers of accounts decide on.                                  *)
LEMMA AccountDue ==
  ASSUME NEW s \in Scenarios, Consistent(s), Columned(db), NEW w, NEW r,
         CreateUser(w, r) \/ UpdateUser(w, r) \/ ResetPassword(w, r)
  PROVE  /\ r.op \in AccountOps /\ r.by \in DOMAIN db.user
         /\ \E todo : Begin(w, r, todo) /\ Duly(r.op, Scope(r.by).super, db, Done(db, Head(todo)))
<1>0. "user" \in DOMAIN db /\ "agent" \in DOMAIN db
  BY DEF Consistent, Rowed, TableNames
<1> DEFINE super == Scope(r.by).super
<1>1. CASE CreateUser(w, r)
  <2> DEFINE row == [email |-> r.dto.email, role |-> r.dto.role, active |-> r.dto.active,
                     password |-> "new", hash |-> Nil]
             wr == Save("user", r.id, row)
             todo == << Tx(<< wr >>), Sync >>
  <2>1. r.op = "createUser" /\ Begin(w, r, todo) /\ Granted(r, Managers) /\ RoleAllowed(r, r.dto.role)
    BY <1>1 DEF CreateUser
  <2>2. r \in s.requests
    <3> HIDE DEF todo
    <3> QED BY <2>1, Sent DEF BrowserOps
  <2>3. r.id # Visitor
    BY <2>1, <2>2, SessionsAssumption
  <2>4. UserColumns \subseteq DOMAIN row /\ row.role = r.dto.role
    BY DEF UserColumns
  <2>5. row.role = "super_admin" => super
    BY <2>1, <2>4, RoleAsked
  <2>6. Head(todo) = Tx(<< wr >>)
    OBVIOUS
  <2> HIDE DEF row, super, todo
  <2>7. Duly(r.op, super, db, Effect(db, wr))
    BY <1>0, <2>3, <2>4, <2>5, MadeDuly
  <2> HIDE DEF wr
  <2>8. Duly(r.op, super, db, Done(db, Head(todo)))
    BY <2>6, <2>7, DoneOne
  <2> QED BY <2>1, <2>8 DEF Granted, AccountOps, super
<1>a. ASSUME NEW row, r.id \in DOMAIN db.user, row.hash = db.user[r.id].hash, UserColumns \subseteq DOMAIN row,
             row.role = "super_admin" /\ db.user[r.id].role # "super_admin" => super,
             NEW todo, Head(todo) = Tx(<< SaveAccount(r.id, row) >>), Begin(w, r, todo),
             r.op \in AccountOps, Granted(r, Managers)
      PROVE  /\ r.op \in AccountOps /\ r.by \in DOMAIN db.user
             /\ \E todo2 : Begin(w, r, todo2) /\ Duly(r.op, super, db, Done(db, Head(todo2)))
  <2> DEFINE wr == SaveAccount(r.id, row)
  <2> HIDE DEF super
  <2>1. Duly(r.op, super, db, Effect(db, wr))
    BY <1>0, <1>a, ChangedDuly
  <2>2. Head(todo) = Tx(<< wr >>)
    BY <1>a
  <2> HIDE DEF wr
  <2>3. Duly(r.op, super, db, Done(db, Head(todo)))
    BY <2>1, <2>2, DoneOne
  <2> QED BY <1>a, <2>3 DEF Granted
<1>b. ASSUME r.id \in DOMAIN db.user
      PROVE  /\ UserColumns \subseteq DOMAIN Account(r.id)
             /\ Account(r.id).hash = db.user[r.id].hash /\ Account(r.id).role = db.user[r.id].role
  <2> DEFINE top == [agents |-> AgentsOf(db, r.id), members |-> Memberships(db, r.id)]
             old == db.user[r.id]
  <2>1. UserColumns \subseteq DOMAIN old
    BY <1>b DEF Columned
  <2>2. DOMAIN top = {"agents", "members"} /\ Account(r.id) = Over(top, old)
    BY DEF Account
  <2> HIDE DEF top, old
  <2>3. /\ DOMAIN Over(top, old) = DOMAIN top \cup DOMAIN old
        /\ \A c \in DOMAIN old \ DOMAIN top : Over(top, old)[c] = old[c]
    BY OverColumns
  <2>4. "hash" \in DOMAIN old \ DOMAIN top /\ "role" \in DOMAIN old \ DOMAIN top
    BY <2>1, <2>2 DEF UserColumns
  <2> QED BY <2>1, <2>2, <2>3, <2>4 DEF old
<1>2. CASE UpdateUser(w, r)
  <2> DEFINE acc == Account(r.id)
             role == New(r, "role", acc.role)
             row == [acc EXCEPT !.email = New(r, "email", @), !.role = New(r, "role", @),
                                !.active = New(r, "active", @)]
             todo == << Tx(<< SaveAccount(r.id, row) >>), Sync >>
  <2>1. /\ r.op = "updateUser" /\ r.id \in DOMAIN db.user /\ Begin(w, r, todo) /\ Granted(r, Managers)
        /\ Given(r, "role") => RoleAllowed(r, r.dto.role)
    BY <1>2 DEF UpdateUser
  <2>2. /\ UserColumns \subseteq DOMAIN acc
        /\ acc.hash = db.user[r.id].hash /\ acc.role = db.user[r.id].role
    BY <1>b, <2>1
  <2>3. Head(todo) = Tx(<< SaveAccount(r.id, row) >>)
    OBVIOUS
  <2> HIDE DEF todo
  <2>4. UserColumns \subseteq DOMAIN row /\ row.hash = acc.hash /\ row.role = role
    <3> HIDE DEF acc
    <3> QED BY <2>2 DEF UserColumns
  <2>5. role = "super_admin" /\ acc.role # "super_admin" => super
    BY <2>1, RoleAsked DEF New
  <2> HIDE DEF row, acc, role
  <2>6. r.op \in AccountOps
    BY <2>1 DEF AccountOps
  <2> QED BY <1>a, <2>1, <2>2, <2>3, <2>4, <2>5, <2>6
<1>3. CASE ResetPassword(w, r)
  <2> DEFINE acc == Account(r.id)
             row == [acc EXCEPT !.password = "new"]
             todo == << Tx(<< SaveAccount(r.id, row) >>) >>
  <2>1. r.op = "resetPassword" /\ r.id \in DOMAIN db.user /\ Begin(w, r, todo) /\ Granted(r, Managers)
    BY <1>3 DEF ResetPassword
  <2>2. /\ UserColumns \subseteq DOMAIN acc
        /\ acc.hash = db.user[r.id].hash /\ acc.role = db.user[r.id].role
    BY <1>b, <2>1
  <2>3. Head(todo) = Tx(<< SaveAccount(r.id, row) >>)
    OBVIOUS
  <2> HIDE DEF todo, acc
  <2>4. UserColumns \subseteq DOMAIN row /\ row.hash = acc.hash /\ row.role = acc.role
    BY <2>2 DEF UserColumns
  <2> HIDE DEF row
  <2>6. r.op \in AccountOps
    BY <2>1 DEF AccountOps
  <2> QED BY <1>a, <2>1, <2>2, <2>3, <2>4, <2>6
<1> QED BY <1>1, <1>2, <1>3

-----------------------------------------------------------------------------
(* What a step of one worker leaves of another.                             *)
Same(v) ==
    /\ work'[v].req = work[v].req /\ work'[v].scope = work[v].scope /\ work'[v].todo = work[v].todo
    /\ ~work'[v].stale /\ work[v].todo # <<>> => ~work[v].stale /\ db' = db

LEMMA SameViews ==
  ASSUME NEW v, Same(v)
  PROVE  /\ Op(v)' = Op(v) /\ Token(v)' = Token(v) /\ Todo(v)' = Todo(v) /\ (Clears(v)' <=> Clears(v))
         /\ \A b : (Issues(v, b)' <=> Issues(v, b)) /\ (Gives(v, b)' <=> Gives(v, b))
  BY DEF Same, Op, Token, Todo, Clears, Issues, Gives

LEMMA OtherViews ==
  ASSUME NEW v, Op(v) \notin BrowserOps
  PROVE  ~Clears(v) /\ \A b : ~Issues(v, b) /\ ~Gives(v, b)
  BY DEF BrowserOps, Clears, Issues, Gives

LEMMA SameDue ==
  ASSUME NEW v, Same(v), Due(v)
  PROVE  Due(v)'
  BY DEF Same, Due, Op, Todo

LEMMA AdvanceSame ==
  ASSUME Typed, NEW w, NEW v \in Workers \ {w}, NEW rest, NEW changed \in BOOLEAN, Advance(w, rest, changed),
         db' # db => changed
  PROVE  Same(v)
<1>1. work'[v] = [work[v] EXCEPT !.stale = Busy(v) /\ (@ \/ changed)]
  BY DEF Advance
<1>2. {"req", "scope", "todo", "stale"} \subseteq DOMAIN work[v]
  BY DEF Typed
<1>3. /\ work'[v].stale = (Busy(v) /\ (work[v].stale \/ changed)) /\ work'[v].todo = work[v].todo
      /\ work'[v].req = work[v].req /\ work'[v].scope = work[v].scope
  BY <1>1, <1>2
<1> QED BY <1>3 DEF Same, Busy

LEMMA AdvanceSelf ==
  ASSUME Typed, NEW w \in Workers, NEW rest, NEW changed, Advance(w, rest, changed)
  PROVE  /\ Todo(w)' = rest
         /\ rest = <<>> => Op(w)' = "none"
         /\ rest # <<>> => work'[w].req = work[w].req /\ work'[w].scope = work[w].scope
                           /\ work'[w].stale = work[w].stale
<1>1. work'[w] = IF rest = <<>> THEN Idle ELSE [work[w] EXCEPT !.todo = rest]
  BY DEF Advance
<1>2. {"req", "scope", "todo", "stale"} \subseteq DOMAIN work[w]
  BY DEF Typed
<1>3. CASE rest = <<>>
  BY <1>1, <1>3 DEF Idle, NoRequest, Todo, Op
<1>4. CASE rest # <<>>
  BY <1>1, <1>2, <1>4 DEF Todo
<1> QED BY <1>3, <1>4

(* A step that is not of the browser's requests: its account has the token   *)
(* it had, or is gone.                                                       *)
Aside ==
    /\ "refresh" \in DOMAIN jar' /\ jar'.refresh \in {jar.refresh, 0}
    /\ {"redeemed", "twice", "revoked"} \subseteq DOMAIN past'
    /\ past'.redeemed = past.redeemed /\ past'.twice = past.twice /\ past'.revoked = past.revoked
    /\ bundles' = bundles
    /\ \A r \in requests' : \/ r \in requests
                            \/ r.by = Visitor /\ (r.op \in {"refresh", "logout"} => r.dto.token \in Handed)

LEMMA FewerIssues ==
  ASSUME bundles' = bundles, NEW n, n \in Handed, \A w \in Workers : Issues(w, n)' => Issues(w, n)
  PROVE  n \in Handed'
  BY DEF Handed

LEMMA NoneHanded ==
  ASSUME BundlesApart
  PROVE  0 \in Handed
  BY DEF BundlesApart, Handed

LEMMA CalmKeeps ==
  ASSUME SessionInv, Aside, clean' => clean,
         \A v \in Workers : Same(v) \/ Op(v)' \notin BrowserOps,
         clean' => Columned(db') /\ Stays(db, db') /\ \A v \in Workers : Due(v)'
  PROVE  SessionInv'
<1>1. ASSUME NEW v \in Workers, NEW b
      PROVE  /\ Issues(v, b)' => Same(v) /\ Issues(v, b)
             /\ Gives(v, b)' => Same(v) /\ Gives(v, b)
  <2>1. CASE Same(v)
    BY <2>1, SameViews
  <2>2. CASE Op(v)' \notin BrowserOps
    BY <2>2 DEF BrowserOps, Issues, Gives
  <2> QED BY <2>1, <2>2
<1>2. BundlesApart /\ TokensHanded
  BY DEF SessionInv
<1>3. ASSUME NEW n, n \in Handed PROVE n \in Handed'
  <2>1. \A w \in Workers : Issues(w, n)' => Issues(w, n)
    BY <1>1
  <2> QED BY <1>3, <2>1, FewerIssues DEF Aside
<1>4. BundlesApart'
  <2>1. ASSUME NEW v \in Workers, Op(v)' \in BrowserOps PROVE Browses(v)'
    <3>1. Same(v)
      BY <2>1
    <3>2. Op(v) \in BrowserOps
      BY <2>1, <3>1, SameViews
    <3>3. Browses(v)
      BY <1>2, <3>2 DEF BundlesApart
    <3> QED BY <3>1, <3>3, SameViews DEF Browses
  <2>2. \A v \in Workers : \A b : Issues(v, b)' => b \in 1..bundles'
    BY <1>1, <1>2 DEF BundlesApart, Aside
  <2>3. \A v, w \in Workers : \A b : Issues(v, b)' /\ Issues(w, b)' => v = w
    BY <1>1, <1>2 DEF BundlesApart
  <2>4. bundles' \in Nat
    BY <1>2 DEF BundlesApart, Aside
  <2> QED BY <2>1, <2>2, <2>3, <2>4 DEF BundlesApart, Aside
<1>5. TokensHanded'
  <2>1. jar'.refresh \in Handed'
    BY <1>2, <1>3, NoneHanded DEF TokensHanded, Aside
  <2>2. past'.redeemed \cup past'.revoked \subseteq Handed'
    BY <1>2, <1>3 DEF TokensHanded, Aside
  <2>3. \A v \in Workers : \A b : Gives(v, b)' => b \in Handed'
    BY <1>1, <1>2, <1>3 DEF TokensHanded
  <2>4. ASSUME NEW v \in Workers, Op(v)' \in {"refresh", "logout"} PROVE Token(v)' \in Handed'
    <3>1. Same(v)
      BY <2>4 DEF BrowserOps
    <3>2. Op(v)' = Op(v) /\ Token(v)' = Token(v)
      BY <3>1, SameViews
    <3>3. Token(v) \in Handed
      BY <1>2, <2>4, <3>2 DEF TokensHanded
    <3> QED BY <1>3, <3>2, <3>3
  <2>5. ASSUME NEW r \in requests'
        PROVE  /\ r.op \in BrowserOps => r.by = Visitor
               /\ r.op \in {"refresh", "logout"} => r.dto.token \in Handed'
    BY <1>2, <1>3 DEF TokensHanded, Aside
  <2> QED BY <2>1, <2>2, <2>3, <2>4, <2>5 DEF TokensHanded
<1>6. ASSUME clean', Visitor \in DOMAIN db'.user PROVE HashCurrent'
  <2>1. HashCurrent /\ Hash' = Hash
    BY <1>6 DEF SessionInv, Stays, Hash
  <2>2. Hash' # Nil => Hash' # 0 /\ Hash' \in Handed'
    BY <1>3, <2>1 DEF HashCurrent
  <2>3. Hash' \notin past'.redeemed \cup past'.revoked /\ ~past'.twice
    BY <2>1 DEF HashCurrent, Aside
  <2>a. ASSUME NEW v \in Workers, Same(v), Todo(v) # <<>>
        PROVE  Op(v)' = Op(v) /\ Token(v)' = Token(v) /\ (~work'[v].stale => ~work[v].stale)
    BY <2>a, SameViews DEF Same, Todo
  <2>4. \A v \in Workers : \A b : Op(v)' = "refresh" /\ ~work'[v].stale /\ Issues(v, b)' => Token(v)' = Hash'
    <3> SUFFICES ASSUME NEW v \in Workers, NEW b, Op(v)' = "refresh", ~work'[v].stale, Issues(v, b)'
                 PROVE  Token(v)' = Hash'
      OBVIOUS
    <3>1. Same(v) /\ Issues(v, b) /\ Todo(v) # <<>>
      BY <1>1 DEF Issues
    <3> QED BY <2>1, <2>a, <3>1 DEF HashCurrent
  <2>5. \A v \in Workers : \A b : Op(v)' \in {"refresh", "logout"} /\ Gives(v, b)' => Token(v)' # Hash'
    <3> SUFFICES ASSUME NEW v \in Workers, NEW b, Op(v)' \in {"refresh", "logout"}, Gives(v, b)'
                 PROVE  Token(v)' # Hash'
      OBVIOUS
    <3>1. Same(v) /\ Gives(v, b) /\ Todo(v) # <<>>
      BY <1>1 DEF Gives
    <3> QED BY <2>1, <2>a, <3>1 DEF HashCurrent
  <2>6. \A v \in Workers : \A b : Op(v)' = "refresh" /\ Gives(v, b)' => Token(v)' \notin past'.redeemed
    <3> SUFFICES ASSUME NEW v \in Workers, NEW b, Op(v)' = "refresh", Gives(v, b)'
                 PROVE  Token(v)' \notin past'.redeemed
      OBVIOUS
    <3>1. Same(v) /\ Gives(v, b) /\ Todo(v) # <<>>
      BY <1>1 DEF Gives
    <3> QED BY <2>1, <2>a, <3>1 DEF HashCurrent, Aside
  <2>7. \A v, w \in Workers : \A a, b :
           /\ Op(v)' = "refresh" /\ Gives(v, a)' /\ Op(w)' = "refresh" /\ Gives(w, b)'
           => v = w \/ Token(v)' # Token(w)'
    <3> SUFFICES ASSUME NEW v \in Workers, NEW w \in Workers, NEW a, NEW b,
                        Op(v)' = "refresh", Gives(v, a)', Op(w)' = "refresh", Gives(w, b)'
                 PROVE  v = w \/ Token(v)' # Token(w)'
      OBVIOUS
    <3>1. Same(v) /\ Gives(v, a) /\ Todo(v) # <<>> /\ Same(w) /\ Gives(w, b) /\ Todo(w) # <<>>
      BY <1>1 DEF Gives
    <3> QED BY <2>1, <2>a, <3>1 DEF HashCurrent
  <2> QED BY <2>2, <2>3, <2>4, <2>5, <2>6, <2>7 DEF HashCurrent
<1> QED BY <1>4, <1>5, <1>6 DEF SessionInv

-----------------------------------------------------------------------------
(* The steps of the console that leave the browser's requests as they are.  *)
LEMMA DulyMore ==
  ASSUME NEW op, NEW d, NEW e, Duly(op, FALSE, d, e), NEW super
  PROVE  Duly(op, super, d, e)
  BY DEF Duly

LEMMA PlainDue ==
  ASSUME NEW s, NEW c, NEW v, PlainTodo(s, c, Todo(v)'), TableNames \subseteq DOMAIN db', Columned(db')
  PROVE  Due(v)'
<1> DEFINE t == Todo(v)'
           d == db'
           op == Op(v)'
           super == work'[v].scope.super
<1>1. PlainTodo(s, c, t) /\ TableNames \subseteq DOMAIN d /\ Columned(d)
  OBVIOUS
<1>h. (t # <<>> /\ Head(t).kind = "tx" => Duly(op, super, d, Done(d, Head(t)))) => Due(v)'
  BY DEF Due
<1> HIDE DEF t, d, op, super
<1>2. t # <<>> /\ Head(t).kind = "tx" => Duly(op, super, d, Done(d, Head(t)))
  BY <1>1, PlainDuly, DulyMore
<1> QED BY <1>2, <1>h

LEMMA IdleDue ==
  ASSUME NEW v, work'[v] = Idle
  PROVE  Op(v)' \notin BrowserOps /\ Due(v)'
  BY DEF Idle, NoRequest, Op, Todo, Due, BrowserOps

LEMMA Tabled ==
  ASSUME NEW s, Consistent(s)
  PROVE  TableNames \subseteq DOMAIN db
  BY DEF Consistent, Rowed

LEMMA AsideSession ==
  ASSUME SessionInv, UNCHANGED sessionVars, requests' \subseteq requests
  PROVE  Aside
  BY DEF SessionInv, BundlesApart, sessionVars, Aside

LEMMA StillKeeps ==
  ASSUME SessionInv, Aside, clean' => clean, db' = db,
         \A v \in Workers : Same(v) \/ (Op(v)' \notin BrowserOps /\ (clean' => Due(v)'))
  PROVE  SessionInv'
<1>1. clean' => Columned(db') /\ Stays(db, db')
  BY DEF SessionInv, Stays
<1>2. ASSUME clean', NEW v \in Workers PROVE Due(v)'
  <2>1. Due(v)
    BY <1>2 DEF SessionInv
  <2> QED BY <1>2, <2>1, SameDue
<1> QED BY <1>1, <1>2, CalmKeeps

LEMMA QuietKeeps ==
  ASSUME SessionInv, Aside, UNCHANGED <<db, work, clean>>
  PROVE  SessionInv'
<1>1. \A v \in Workers : Same(v)
  BY DEF Same
<1> QED BY <1>1, StillKeeps

LEMMA CrashSession ==
  ASSUME SessionInv, Crash, UNCHANGED sessionVars
  PROVE  SessionInv'
<1>1. work' = [w \in Workers |-> Idle] /\ UNCHANGED <<db, clean, requests>>
  BY DEF Crash
<1>2. Aside
  BY <1>1, AsideSession
<1>3. \A v \in Workers : work'[v] = Idle
  BY <1>1
<1> QED BY <1>1, <1>2, <1>3, IdleDue, StillKeeps

LEMMA AbandonSession ==
  ASSUME Typed, SessionInv, NEW w \in Workers, Abandon(w), UNCHANGED sessionVars
  PROVE  SessionInv'
<1>1. work' = [work EXCEPT ![w] = Idle] /\ UNCHANGED <<db, clean, requests>>
  BY DEF Abandon
<1>2. Aside
  BY <1>1, AsideSession
<1>3. work'[w] = Idle /\ \A v \in Workers \ {w} : work'[v] = work[v]
  BY <1>1 DEF Typed
<1>4. \A v \in Workers \ {w} : Same(v)
  BY <1>1, <1>3 DEF Same
<1> QED BY <1>1, <1>2, <1>3, <1>4, IdleDue, StillKeeps

LEMMA SyncSession ==
  ASSUME NEW s \in Scenarios, Consistent(s), Typed, SessionInv, NEW w \in Workers, SyncTenantMemberships(w),
         UNCHANGED sessionVars
  PROVE  SessionInv'
<1>1. CASE Abandon(w)
  BY <1>1, AbandonSession
<1>2. CASE ~Abandon(w)
  <2>1. PICK todo : /\ PlainTodo(s, clean, todo)
                    /\ work' = [work EXCEPT ![w].stale = FALSE, ![w].todo = todo]
                    /\ UNCHANGED <<db, requests, clean>>
    BY <1>2, SyncTodo
  <2>2. Busy(w) /\ Head(work[w].todo).kind = "sync"
    BY DEF SyncTenantMemberships
  <2>3. Op(w) \notin BrowserOps
    <3>1. \A b : Head(Todo(w)) # Remember(b) /\ Head(Todo(w)) # Reply(b)
      BY <2>2 DEF Todo, Remember, Tx, Reply
    <3>2. ~Browses(w)
      BY <3>1 DEF Browses, Clears, Issues, Gives
    <3> QED BY <3>2 DEF SessionInv, BundlesApart
  <2>4. /\ \A v \in Workers \ {w} : work'[v] = work[v]
        /\ work'[w].todo = todo /\ work'[w].req = work[w].req
    BY <2>1 DEF Typed
  <2>5. \A v \in Workers \ {w} : Same(v)
    BY <2>1, <2>4 DEF Same
  <2>6. clean' => Due(w)'
    <3> SUFFICES ASSUME clean' PROVE Due(w)'
      OBVIOUS
    <3>1. PlainTodo(s, clean, Todo(w)')
      BY <2>1, <2>4 DEF Todo
    <3>2. Columned(db') /\ TableNames \subseteq DOMAIN db'
      BY <2>1, Tabled DEF SessionInv
    <3> QED BY <3>1, <3>2, PlainDue
  <2>7. Op(w)' \notin BrowserOps
    BY <2>3, <2>4 DEF Op
  <2>8. Aside
    BY <2>1, AsideSession
  <2> QED BY <2>1, <2>5, <2>6, <2>7, <2>8, StillKeeps
<1> QED BY <1>1, <1>2

LEMMA OtherStep ==
  ASSUME NEW s \in Scenarios, Consistent(s), Typed, SessionInv, NEW w \in Workers, Busy(w),
         Head(work[w].todo).kind \notin {"tx", "reply"}, NEW changed \in BOOLEAN,
         Advance(w, Tail(work[w].todo), changed), UNCHANGED <<db, requests>>, UNCHANGED sessionVars
  PROVE  SessionInv'
<1> DEFINE rest == Tail(work[w].todo)
<1>1. PlainTodo(s, clean, rest)
  BY OtherRest
<1>2. Op(w) \notin BrowserOps
  <2>1. \A b : Head(Todo(w)) # Remember(b) /\ Head(Todo(w)) # Reply(b)
    BY DEF Todo, Remember, Tx, Reply
  <2>2. ~Browses(w)
    BY <2>1 DEF Browses, Clears, Issues, Gives
  <2> QED BY <2>2 DEF SessionInv, BundlesApart
<1> HIDE DEF rest
<1>3. Advance(w, rest, changed)
  BY DEF rest
<1>4. Todo(w)' = rest /\ Op(w)' \notin BrowserOps
  BY <1>2, <1>3, AdvanceSelf DEF BrowserOps, Op
<1>5. \A v \in Workers \ {w} : Same(v)
  BY <1>3, AdvanceSame
<1>6. clean' => clean
  BY <1>3 DEF Advance
<1>7. clean' => Due(w)'
  <2>1. clean' => Columned(db') /\ TableNames \subseteq DOMAIN db'
    BY <1>6, Tabled DEF SessionInv
  <2> QED BY <1>1, <1>4, <2>1, PlainDue
<1>8. Aside
  BY AsideSession
<1> QED BY <1>4, <1>5, <1>6, <1>7, <1>8, StillKeeps

LEMMA NetworkIs ==
  ASSUME NEW w, NetworkStep(w)
  PROVE  \/ Abandon(w)
         \/ /\ Busy(w) /\ Head(work[w].todo).kind \notin {"tx", "reply", "sync"}
            /\ UNCHANGED <<db, requests>>
            /\ \E changed \in BOOLEAN : Advance(w, Tail(work[w].todo), changed)
<1>1. ASSUME NEW changed \in BOOLEAN, Advance(w, Rest(w), changed)
      PROVE  \E any \in BOOLEAN : Advance(w, Tail(work[w].todo), any)
  BY <1>1 DEF Rest
<1>2. CASE WriteGatewayConfig(w)
  <2> DEFINE changed == disk' # disk
  <2>1. Busy(w) /\ Head(work[w].todo).kind \notin {"tx", "reply", "sync"}
    BY <1>2 DEF WriteGatewayConfig, Step
  <2>2. Abandon(w) \/ (Advance(w, Rest(w), changed) /\ UNCHANGED <<db, requests>>)
    BY <1>2 DEF WriteGatewayConfig
  <2>3. changed \in BOOLEAN
    OBVIOUS
  <2> HIDE DEF changed
  <2> QED BY <1>1, <2>1, <2>2, <2>3
<1>3. CASE DeleteConfigFile(w)
  <2> DEFINE changed == disk' # disk
  <2>1. /\ Busy(w) /\ Head(work[w].todo).kind \notin {"tx", "reply", "sync"}
        /\ UNCHANGED <<db, requests>> /\ changed \in BOOLEAN /\ Advance(w, Rest(w), changed)
    BY <1>3 DEF DeleteConfigFile, Step
  <2> HIDE DEF changed
  <2> QED BY <1>1, <2>1
<1>4. CASE WritePortOverrideFile(w)
  <2> DEFINE changed == disk' # disk
  <2>1. /\ Busy(w) /\ Head(work[w].todo).kind \notin {"tx", "reply", "sync"}
        /\ UNCHANGED <<db, requests>> /\ changed \in BOOLEAN /\ Advance(w, Rest(w), changed)
    BY <1>4 DEF WritePortOverrideFile, Step
  <2> HIDE DEF changed
  <2> QED BY <1>1, <2>1
<1>5. CASE RunCommand(w)
  <2> DEFINE changed == [pbx' EXCEPT !.failed = FALSE, !.late = {}] # [pbx EXCEPT !.failed = FALSE, !.late = {}]
  <2>1. /\ Busy(w) /\ Head(work[w].todo).kind \notin {"tx", "reply", "sync"}
        /\ UNCHANGED <<db, requests>> /\ changed \in BOOLEAN /\ Advance(w, Rest(w), changed)
    BY <1>5 DEF RunCommand, Step
  <2> HIDE DEF changed
  <2> QED BY <1>1, <2>1
<1> QED BY <1>2, <1>3, <1>4, <1>5 DEF NetworkStep

LEMMA NetworkSession ==
  ASSUME NEW s \in Scenarios, Consistent(s), Typed, SessionInv, NEW w \in Workers, NetworkStep(w),
         UNCHANGED sessionVars
  PROVE  SessionInv'
  BY NetworkIs, AbandonSession, OtherStep

-----------------------------------------------------------------------------
(* A statement that is not of the browser's requests.                       *)
LEMMA OtherTail ==
  ASSUME NEW s, NEW U, NEW c, NEW d, NEW fresh, NEW op, op \notin BrowserOps, NEW t, t # <<>>,
         Awaits(s, U, c, d, fresh, op, t)
  PROVE  PlainTodo(s, c, Tail(t))
<1>1. CASE PlainTodo(s, c, t)
  BY <1>1, PlainTail
<1>2. CASE Decided(s, U, c, d, fresh, t)
  <2>1. Tail(t) = <<>>
    BY <1>2 DEF Decided
  <2> QED BY <2>1, PlainNone
<1>3. CASE Personal(s, c, op, t)
  BY <1>3 DEF Personal
<1> QED BY <1>1, <1>2, <1>3 DEF Awaits, Going

Commit(w) ==
    /\ Busy(w) /\ Head(work[w].todo).kind = "tx" /\ Commits(db, Head(work[w].todo))
    /\ db' = Done(db, Head(work[w].todo))
    /\ Advance(w, Tail(work[w].todo), db' # db) /\ requests' = requests

LEMMA StatementIs ==
  ASSUME NEW w, Statement(w)
  PROVE  Abandon(w) \/ Commit(w)
  BY DEF Statement, Commit, Done

LEMMA CommitDuly ==
  ASSUME NEW s \in Scenarios, Consistent(s), Typed, SessionInv, NEW w \in Workers, Commit(w),
         Op(w) \notin BrowserOps, clean, ~work[w].stale
  PROVE  Duly(Op(w), work[w].scope.super, db, db')
<1> DEFINE t == work[w].todo
           op == work[w].req.op
           fresh == clean /\ ~work[w].stale
<1>1. t # <<>> /\ Head(t).kind = "tx" /\ db' = Done(db, Head(t)) /\ Todo(w) = t /\ Op(w) = op
  BY DEF Commit, Busy, Todo, Op
<1>2. CASE op \in AccountOps
  <2>1. Due(w)
    BY DEF SessionInv
  <2> HIDE DEF t, op
  <2> QED BY <1>1, <1>2, <2>1 DEF Due
<1>3. CASE op \notin AccountOps
  <2>1. Awaits(s, Used(s), clean, db, fresh, op, t)
    BY DEF Consistent
  <2>2. TableNames \subseteq DOMAIN db /\ Columned(db)
    BY Tabled DEF SessionInv
  <2> HIDE DEF t, op, fresh
  <2>3. Duly(op, FALSE, db, Done(db, Head(t)))
    BY <1>1, <1>3, <2>1, <2>2, AwaitedDuly
  <2>4. Duly(op, work[w].scope.super, db, Done(db, Head(t)))
    BY <2>3, DulyMore
  <2> QED BY <1>1, <2>4
<1> QED BY <1>2, <1>3

LEMMA CommitSession ==
  ASSUME NEW s \in Scenarios, Consistent(s), Typed, SessionInv, NEW w \in Workers, Statement(w), Commit(w),
         Op(w) \notin BrowserOps, UNCHANGED sessionVars
  PROVE  SessionInv'
<1> DEFINE changed == db' # db
           rest == Tail(work[w].todo)
<1>1. PlainTodo(s, clean, rest)
  <2>1. Awaits(s, Used(s), clean, db, clean /\ ~work[w].stale, Op(w), Todo(w))
    BY DEF Consistent, Op, Todo
  <2>2. Todo(w) # <<>>
    BY DEF Commit, Busy, Todo
  <2> QED BY <2>1, <2>2, OtherTail DEF Todo
<1>2. Advance(w, rest, changed) /\ changed \in BOOLEAN /\ (db' # db => changed) /\ (changed => db' # db)
  BY DEF Commit
<1> HIDE DEF rest, changed
<1>3. Todo(w)' = rest /\ Op(w)' \notin BrowserOps
  BY <1>2, AdvanceSelf DEF BrowserOps, Op
<1>4. ASSUME NEW v \in Workers \ {w} PROVE Same(v)
  BY <1>2, AdvanceSame
<1>5. clean' => clean /\ (~work[w].stale \/ db' = db)
  BY <1>2 DEF Advance, Typed
<1>6. clean' => Columned(db') /\ Stays(db, db')
  <2>1. CASE db' = db
    BY <1>5, <2>1 DEF SessionInv, Stays
  <2>2. CASE db' # db
    BY <1>5, <2>2, CommitDuly DEF Duly
  <2> QED BY <2>1, <2>2
<1>7. clean' => Due(w)'
  <2>1. TableNames \subseteq DOMAIN db'
    BY StatementKeeps DEF Consistent, Rowed
  <2> QED BY <1>1, <1>3, <1>6, <2>1, PlainDue
<1>8. ASSUME clean', NEW v \in Workers PROVE Due(v)'
  <2>1. CASE v # w
    <3>1. Due(v)
      BY <1>5, <1>8 DEF SessionInv
    <3> QED BY <1>4, <2>1, <3>1, SameDue
  <2> QED BY <1>7, <1>8, <2>1
<1>9. Aside
  BY AsideSession DEF Commit
<1> QED BY <1>3, <1>4, <1>5, <1>6, <1>8, <1>9, CalmKeeps

-----------------------------------------------------------------------------
(* A request that comes in.                                                 *)
LEMMA BeginSelf ==
  ASSUME Typed, NEW w \in Workers, NEW r, NEW todo, Begin(w, r, todo)
  PROVE  /\ work'[w].req = r /\ work'[w].todo = todo /\ work'[w].stale = FALSE
         /\ work'[w].scope = (IF r.by \in DOMAIN db.user THEN Scope(r.by) ELSE NoScope)
         /\ \A v \in Workers \ {w} : Same(v)
         /\ Todo(w) = <<>> /\ r \in requests /\ requests' = requests \ {r} /\ UNCHANGED <<db, clean>>
<1> DEFINE one == [req |-> r, todo |-> todo, stale |-> FALSE,
                   scope |-> IF r.by \in DOMAIN db.user THEN Scope(r.by) ELSE NoScope]
<1>1. /\ work' = [work EXCEPT ![w] = one] /\ requests' = requests \ {r} /\ UNCHANGED <<db, clean>>
      /\ ~Busy(w) /\ r \in requests
  BY DEF Begin
<1>2. /\ one.todo = todo /\ one.stale = FALSE /\ one.req = r
      /\ one.scope = (IF r.by \in DOMAIN db.user THEN Scope(r.by) ELSE NoScope)
  OBVIOUS
<1> HIDE DEF one
<1>3. work'[w] = one /\ \A v \in Workers \ {w} : work'[v] = work[v]
  BY <1>1 DEF Typed
<1>4. \A v \in Workers \ {w} : Same(v)
  BY <1>1, <1>3 DEF Same
<1> QED BY <1>1, <1>2, <1>3, <1>4 DEF Busy, Todo

LEMMA BeginSession ==
  ASSUME Typed, SessionInv, NEW w \in Workers, NEW r, NEW todo, Begin(w, r, todo), r.op \notin BrowserOps,
         clean /\ r.op \in AccountOps /\ todo # <<>> /\ Head(todo).kind = "tx" =>
           Duly(r.op, (IF r.by \in DOMAIN db.user THEN Scope(r.by) ELSE NoScope).super, db, Done(db, Head(todo))),
         UNCHANGED sessionVars
  PROVE  SessionInv'
<1> DEFINE scope == IF r.by \in DOMAIN db.user THEN Scope(r.by) ELSE NoScope
<1>1. /\ work'[w].req = r /\ work'[w].todo = todo
      /\ work'[w].scope = scope
      /\ \A v \in Workers \ {w} : Same(v)
      /\ requests' = requests \ {r} /\ UNCHANGED <<db, clean>>
  BY BeginSelf
<1>d. clean /\ r.op \in AccountOps /\ todo # <<>> /\ Head(todo).kind = "tx" =>
           Duly(r.op, scope.super, db, Done(db, Head(todo)))
  OBVIOUS
<1> HIDE DEF scope
<1>2. Op(w)' \notin BrowserOps
  BY <1>1 DEF Op
<1>3. clean' => Due(w)'
  BY <1>1, <1>d DEF Due, Op, Todo
<1>4. Aside
  BY <1>1, AsideSession
<1> QED BY <1>1, <1>2, <1>3, <1>4, StillKeeps

LEMMA OtherBegins ==
  ASSUME Typed, SessionInv, NEW w \in Workers, NEW r, Other(w, r), UNCHANGED sessionVars
  PROVE  SessionInv'
<1>1. PICK todo : Begin(w, r, todo)
  BY DEF Other, Begins
<1>2. r.op \notin BrowserOps /\ r.op \notin AccountOps
  BY DEF Other
<1> QED BY <1>1, <1>2, BeginSession

LEMMA AccountBegins ==
  ASSUME NEW s \in Scenarios, Consistent(s), Typed, SessionInv, NEW w \in Workers, NEW r,
         CreateUser(w, r) \/ UpdateUser(w, r) \/ ResetPassword(w, r), UNCHANGED sessionVars
  PROVE  SessionInv'
<1>1. r.op \notin BrowserOps /\ Begins(w, r)
  BY DEF CreateUser, UpdateUser, ResetPassword, BrowserOps, Begins
<1>2. CASE ~clean
  <2>1. PICK todo : Begin(w, r, todo)
    BY <1>1 DEF Begins
  <2> QED BY <1>1, <1>2, <2>1, BeginSession
<1>3. CASE clean
  <2>1. Columned(db)
    BY <1>3 DEF SessionInv
  <2>2. PICK todo : Begin(w, r, todo) /\ Duly(r.op, Scope(r.by).super, db, Done(db, Head(todo)))
    BY <2>1, AccountDue
  <2>3. r.by \in DOMAIN db.user
    BY <2>1, AccountDue
  <2>4. (IF r.by \in DOMAIN db.user THEN Scope(r.by) ELSE NoScope).super = Scope(r.by).super
    BY <2>3
  <2>5. Duly(r.op, (IF r.by \in DOMAIN db.user THEN Scope(r.by) ELSE NoScope).super, db, Done(db, Head(todo)))
    BY <2>2, <2>4
  <2> QED BY <1>1, <2>2, <2>5, BeginSession
<1> QED BY <1>2, <1>3

LEMMA BootBegins ==
  ASSUME NEW s \in Scenarios, Consistent(s), Typed, SessionInv, NEW w \in Workers, NEW r,
         EnsureDefaultRoles(w, r), UNCHANGED sessionVars
  PROVE  SessionInv'
<1>1. r.op = "boot" /\ Begins(w, r) /\ r.op \notin BrowserOps
  BY DEF EnsureDefaultRoles, Begins, BrowserOps
<1>2. PICK todo : Begin(w, r, todo)
  BY <1>1 DEF Begins
<1>3. work'[w].req = r /\ work'[w].todo = todo /\ UNCHANGED <<db, clean>>
  BY <1>2, BeginSelf
<1> DEFINE U == Used(s)'
           fresh == clean' /\ ~work'[w].stale
<1>4. Awaits(s, U, clean', db', fresh, r.op, todo)
  <2>1. Consistent(s)'
    BY BootKeeps
  <2>2. Awaits(s, U, clean', db', fresh, work'[w].req.op, work'[w].todo)
    BY <2>1 DEF Consistent
  <2> QED BY <1>3, <2>2
<1> HIDE DEF U, fresh
<1>5. ASSUME clean, todo # <<>>, Head(todo).kind = "tx"
      PROVE  Duly(r.op, FALSE, db, Done(db, Head(todo)))
  <2>1. Columned(db) /\ TableNames \subseteq DOMAIN db
    BY <1>5, Tabled DEF SessionInv
  <2>2. Awaits(s, U, clean, db, fresh, r.op, todo)
    BY <1>3, <1>4
  <2> QED BY <1>1, <1>5, <2>1, <2>2, AwaitedDuly
<1>6. clean /\ r.op \in AccountOps /\ todo # <<>> /\ Head(todo).kind = "tx" =>
        Duly(r.op, (IF r.by \in DOMAIN db.user THEN Scope(r.by) ELSE NoScope).super, db, Done(db, Head(todo)))
  BY <1>5, DulyMore
<1> QED BY <1>1, <1>2, <1>6, BeginSession

LEMMA ServeSession ==
  ASSUME NEW s \in Scenarios, Consistent(s), Typed, SessionInv, NEW w \in Workers, NEW r,
         AgentRequest(w, r) \/ UserRequest(w, r) \/ TenantRequest(w, r) \/ RoutingRequest(w, r)
         \/ NetworkRequest(w, r),
         UNCHANGED sessionVars
  PROVE  SessionInv'
<1>1. CASE Other(w, r)
  BY <1>1, OtherBegins
<1>2. CASE CreateUser(w, r) \/ UpdateUser(w, r) \/ ResetPassword(w, r)
  BY <1>2, AccountBegins
<1>3. CASE EnsureDefaultRoles(w, r)
  BY <1>3, BootBegins
<1>4. CASE UserRequest(w, r)
  BY <1>1, <1>2, <1>3, <1>4, OtherUser DEF UserRequest
<1> QED BY <1>1, <1>4, OtherAgent, OtherTenant, OtherRouting, OtherNetwork

-----------------------------------------------------------------------------
(* A request of the browser that comes in: it waits for a new bundle to be   *)
(* remembered, for its own to be forgotten, or has its answer.               *)
Fresh(n) == n \in 1..bundles' /\ n \notin 0..bundles

LEMMA BrowserBegin ==
  ASSUME Typed, SessionInv, NEW w \in Workers, NEW r, NEW todo, Begin(w, r, todo), r.op \in BrowserOps,
         UNCHANGED <<jar, past>>, bundles' \in Nat, bundles <= bundles', Browses(w)',
         \A n : Issues(w, n)' => Fresh(n),
         \A n : Gives(w, n)' => n = 0 /\ r.op = "logout",
         clean /\ Visitor \in DOMAIN db.user /\ r.op = "refresh" => r.dto.token = Hash,
         clean /\ Visitor \in DOMAIN db.user /\ r.op = "logout" => \A n : Gives(w, n)' => r.dto.token # Hash
  PROVE  SessionInv'
<1>0. BundlesApart /\ TokensHanded /\ bundles \in Nat
  BY DEF SessionInv, BundlesApart
<1>1. /\ work'[w].req = r /\ work'[w].todo = todo /\ work'[w].stale = FALSE
      /\ \A v \in Workers \ {w} : Same(v)
      /\ Todo(w) = <<>> /\ r \in requests /\ requests' = requests \ {r} /\ UNCHANGED <<db, clean>>
  BY BeginSelf
<1>2. Op(w)' = r.op /\ Token(w)' = r.dto.token
  BY <1>1 DEF Op, Token
<1>3. ASSUME NEW v \in Workers \ {w}
      PROVE  /\ Op(v)' = Op(v) /\ Token(v)' = Token(v) /\ (Clears(v)' <=> Clears(v))
             /\ \A b : (Issues(v, b)' <=> Issues(v, b)) /\ (Gives(v, b)' <=> Gives(v, b))
             /\ Todo(v) # <<>> /\ ~work'[v].stale => ~work[v].stale
  BY <1>1, SameViews DEF Same, Todo
<1>4. ASSUME NEW n \in Handed PROVE n \in Handed'
  <2>1. n \in 0..bundles /\ \A v \in Workers : ~Issues(v, n)
    BY DEF Handed
  <2>2. n \in 0..bundles'
    BY <1>0, <2>1
  <2>3. \A v \in Workers : ~Issues(v, n)'
    BY <1>3, <2>1 DEF Fresh
  <2> QED BY <2>2, <2>3 DEF Handed
<1>5. BundlesApart'
  <2>1. \A v \in Workers : Op(v)' \in BrowserOps => Browses(v)'
    BY <1>0, <1>3 DEF BundlesApart, Browses
  <2>2. \A v \in Workers : \A b : Issues(v, b)' => b \in 1..bundles'
    BY <1>0, <1>3 DEF BundlesApart, Fresh
  <2>3. ASSUME NEW v \in Workers, NEW u \in Workers, NEW b, Issues(v, b)', Issues(u, b)' PROVE v = u
    BY <1>0, <1>3, <2>3 DEF BundlesApart, Fresh
  <2> QED BY <1>0, <2>1, <2>2, <2>3 DEF BundlesApart
<1>6. TokensHanded'
  <2>1. jar'.refresh \in Handed'
    BY <1>0, <1>4 DEF TokensHanded
  <2>2. past'.redeemed \cup past'.revoked \subseteq Handed'
    BY <1>0, <1>4 DEF TokensHanded
  <2>3. ASSUME NEW v \in Workers, NEW b, Gives(v, b)' PROVE b \in Handed'
    BY <1>0, <1>3, <1>4, <2>3, NoneHanded DEF TokensHanded
  <2>4. ASSUME NEW v \in Workers, Op(v)' \in {"refresh", "logout"} PROVE Token(v)' \in Handed'
    <3>1. CASE v = w
      BY <1>0, <1>1, <1>2, <1>4, <2>4, <3>1 DEF TokensHanded
    <3>2. CASE v # w
      BY <1>0, <1>3, <1>4, <2>4, <3>2 DEF TokensHanded
    <3> QED BY <3>1, <3>2
  <2>5. ASSUME NEW q \in requests'
        PROVE  /\ q.op \in BrowserOps => q.by = Visitor
               /\ q.op \in {"refresh", "logout"} => q.dto.token \in Handed'
    BY <1>0, <1>1, <1>4 DEF TokensHanded
  <2> QED BY <2>1, <2>2, <2>3, <2>4, <2>5 DEF TokensHanded
<1>7. ASSUME clean', Visitor \in DOMAIN db'.user PROVE HashCurrent'
  <2>1. HashCurrent /\ Hash' = Hash
    BY <1>1, <1>7 DEF SessionInv, Hash
  <2>2. Hash' # Nil => Hash' # 0 /\ Hash' \in Handed'
    BY <1>4, <2>1 DEF HashCurrent
  <2>3. Hash' \notin past'.redeemed \cup past'.revoked /\ ~past'.twice
    BY <2>1 DEF HashCurrent
  <2>4. ASSUME NEW v \in Workers, NEW b, Op(v)' = "refresh", ~work'[v].stale, Issues(v, b)'
        PROVE  Token(v)' = Hash'
    <3>1. CASE v = w
      BY <1>1, <1>2, <1>7, <2>1, <2>4, <3>1
    <3>2. CASE v # w
      <4>1. Issues(v, b) /\ Todo(v) # <<>>
        BY <1>3, <2>4, <3>2 DEF Issues
      <4> QED BY <1>3, <2>1, <2>4, <3>2, <4>1 DEF HashCurrent
    <3> QED BY <3>1, <3>2
  <2>5. ASSUME NEW v \in Workers, NEW b, Op(v)' \in {"refresh", "logout"}, Gives(v, b)'
        PROVE  Token(v)' # Hash'
    BY <1>1, <1>2, <1>3, <1>7, <2>1, <2>5 DEF HashCurrent
  <2>6. ASSUME NEW v \in Workers, NEW b, Op(v)' = "refresh", Gives(v, b)'
        PROVE  Token(v)' \notin past'.redeemed
    BY <1>2, <1>3, <2>1, <2>6 DEF HashCurrent
  <2>7. ASSUME NEW v \in Workers, NEW u \in Workers, NEW a, NEW b,
               Op(v)' = "refresh", Gives(v, a)', Op(u)' = "refresh", Gives(u, b)'
        PROVE  v = u \/ Token(v)' # Token(u)'
    BY <1>2, <1>3, <2>1, <2>7 DEF HashCurrent
  <2> QED BY <2>2, <2>3, <2>4, <2>5, <2>6, <2>7 DEF HashCurrent
<1>8. ASSUME clean' PROVE Columned(db') /\ \A v \in Workers : Due(v)'
  <2>1. Columned(db') /\ \A v \in Workers : Due(v)
    BY <1>1, <1>8 DEF SessionInv
  <2>2. Due(w)'
    BY <1>2 DEF Due, AccountOps, BrowserOps
  <2>3. \A v \in Workers \ {w} : Due(v)'
    BY <1>1, <2>1, SameDue
  <2> QED BY <2>1, <2>2, <2>3
<1> QED BY <1>5, <1>6, <1>7, <1>8 DEF SessionInv

LEMMA IssueSession ==
  ASSUME Typed, SessionInv, NEW w \in Workers, NEW r, r.op \in {"login", "refresh"}, IssueTokenBundle(w, r),
         UNCHANGED <<jar, past>>, clean /\ Visitor \in DOMAIN db.user /\ r.op = "refresh" => r.dto.token = Hash
  PROVE  SessionInv'
<1>0. PICK b : b = bundles + 1
  OBVIOUS
<1> DEFINE x == Remember(b)
           y == Reply(b)
           todo == << x, y >>
<1>1. bundles \in Nat /\ bundles' = b /\ Begin(w, r, todo)
  BY <1>0 DEF IssueTokenBundle, SessionInv, BundlesApart
<1>2. b \in Nat /\ bundles <= b /\ b \in 1..b /\ b \notin 0..bundles
  BY <1>0, <1>1
<1>3. \A n : Reply(n) = y => n = b
  BY DEF Reply
<1>x. x = Remember(b) /\ y = Reply(b)
  OBVIOUS
<1> HIDE DEF x, y
<1>4. todo # <<>> /\ Head(todo) = x /\ Tail(todo) = << y >> /\ \A z : << z >> = << y >> => z = y
  OBVIOUS
<1> HIDE DEF todo
<1>5. work'[w].req = r /\ work'[w].todo = todo
  BY <1>1, BeginSelf
<1>6. Op(w)' = r.op /\ Todo(w)' = todo
  BY <1>5 DEF Op, Todo
<1>7. Issues(w, b)'
  BY <1>4, <1>6, <1>x DEF Issues
<1>8. \A n : Issues(w, n)' => n = b
  BY <1>3, <1>4, <1>6 DEF Issues
<1>9. \A n : ~Gives(w, n)'
  BY <1>4, <1>6 DEF Gives
<1>10. Browses(w)'
  BY <1>7 DEF Browses
<1>11. \A n : Issues(w, n)' => Fresh(n)
  BY <1>1, <1>2, <1>8 DEF Fresh
<1> QED BY <1>1, <1>2, <1>9, <1>10, <1>11, BrowserBegin DEF BrowserOps

LEMMA LogoutSession ==
  ASSUME Typed, SessionInv, NEW w \in Workers, NEW r, Logout(w, r)
  PROVE  SessionInv'
<1> DEFINE revokes == r.by \in DOMAIN db.user /\ db.user[r.by].hash = r.dto.token
           first == IF revokes THEN << Remember(Nil) >> ELSE <<>>
           todo == first \o << Reply(0) >>
<1>0. /\ r.op = "logout" /\ Begin(w, r, todo) /\ UNCHANGED <<jar, past, bundles>>
      /\ bundles \in Nat /\ bundles <= bundles
  BY DEF Logout, sessionVars, SessionInv, BundlesApart
<1>1. r.by = Visitor
  <2>1. r \in requests
    BY <1>0 DEF Begin
  <2> QED BY <1>0, <2>1 DEF SessionInv, TokensHanded, BrowserOps
<1>2. \A n : Reply(n) = Reply(0) => n = 0
  BY DEF Reply
<1> DEFINE x == Remember(Nil)
           y == Reply(0)
<1>x. x = Remember(Nil) /\ y = Reply(0)
  OBVIOUS
<1> DEFINE z == << y >>
<1>3. z \in Seq({y}) /\ z # <<>> /\ Head(z) = y /\ Tail(z) = <<>> /\ \A t \in Seq({y}) : <<>> \o t = t
  <2> HIDE DEF y
  <2> QED OBVIOUS
<1>t. todo = IF revokes THEN << x >> \o z ELSE <<>> \o z
  BY DEF x, y
<1> HIDE DEF todo, x, z, revokes
<1>4. /\ revokes => todo # <<>> /\ Head(todo) = x /\ Tail(todo) = << y >> /\ Tail(todo) # <<>>
      /\ ~revokes => todo # <<>> /\ Head(todo) = y /\ Tail(todo) = <<>>
  <2>1. IsSeq(z)
    BY <1>3, SeqOf
  <2>2. << x >> \o z # <<>> /\ Head(<< x >> \o z) = x /\ Tail(<< x >> \o z) = z
    BY <2>1, HeadTail
  <2>3. z = << y >>
    BY DEF z
  <2>4. <<>> \o z = z
    BY <1>3
  <2>5. revokes => todo = << x >> \o z
    BY <1>t
  <2>6. ~revokes => todo = z
    BY <1>t, <2>4
  <2> HIDE DEF y
  <2> QED BY <1>3, <2>2, <2>3, <2>5, <2>6
<1>5. Op(w)' = "logout" /\ Todo(w)' = todo
  BY <1>0, BeginSelf DEF Op, Todo
<1>6. \A n : ~Issues(w, n)'
  BY <1>5 DEF Issues
<1>7. \A n : Gives(w, n)' => n = 0 /\ ~revokes
  BY <1>2, <1>4, <1>5, <1>x DEF Gives
<1>8. Browses(w)'
  <2>1. CASE revokes
    <3>1. Clears(w)'
      BY <1>4, <1>5, <1>x, <2>1 DEF Clears
    <3> QED BY <3>1 DEF Browses
  <2>2. CASE ~revokes
    <3>1. Gives(w, 0)'
      BY <1>4, <1>5, <1>x, <2>2 DEF Gives, BrowserOps
    <3> QED BY <3>1 DEF Browses
  <2> QED BY <2>1, <2>2
<1>9. Visitor \in DOMAIN db.user => \A n : Gives(w, n)' => r.dto.token # Hash
  BY <1>1, <1>7 DEF Hash, revokes
<1> QED BY <1>0, <1>6, <1>7, <1>8, <1>9, BrowserBegin DEF BrowserOps

LEMMA SessionBegins ==
  ASSUME Typed, SessionInv, NEW w \in Workers, NEW r \in requests, SessionRequest(w, r)
  PROVE  SessionInv'
<1>1. CASE Login(w, r)
  BY <1>1, IssueSession DEF Login
<1>2. CASE Refresh(w, r)
  <2>1. r.by = Visitor
    BY <1>2 DEF Refresh, SessionInv, TokensHanded, BrowserOps
  <2>2. r.dto.token = Hash
    BY <1>2, <2>1 DEF Refresh, VerifyRefreshToken, Hash
  <2> QED BY <1>2, <2>2, IssueSession DEF Refresh
<1>3. CASE Logout(w, r)
  BY <1>3, LogoutSession
<1> QED BY <1>1, <1>2, <1>3 DEF SessionRequest

-----------------------------------------------------------------------------
(* A statement of the browser's requests: the account has another token.    *)
LEMMA Rehashed ==
  ASSUME NEW d, "user" \in DOMAIN d, NEW b, NEW e, e = Done(d, Remember(b))
  PROVE  /\ DOMAIN e.user = DOMAIN d.user
         /\ Visitor \in DOMAIN d.user => e.user[Visitor].hash = b
         /\ Columned(d) => Columned(e) /\ ~Promotes(d, e)
<1> DEFINE wr == Update("user", [id |-> Visitor], [hash |-> b])
<1>0. wr.kind = "update" /\ wr.table = "user" /\ wr.set = [hash |-> b] /\ wr.where = [id |-> Visitor]
  BY DEF Update
<1>1. Remember(b) = Tx(<< wr >>)
  BY DEF Remember
<1> HIDE DEF wr
<1>2. e = Effect(d, wr)
  BY <1>1, DoneOne
<1>3. e.user = [i \in DOMAIN d.user |-> IF Matches(d, "user", i, wr.where) THEN Over(wr.set, d.user[i]) ELSE d.user[i]]
  BY <1>0, <1>2 DEF Effect
<1>4. Matches(d, "user", Visitor, wr.where)
  BY <1>0 DEF Matches
<1> DEFINE set == wr.set
<1>s. DOMAIN set = {"hash"} /\ set.hash = b
  BY <1>0
<1> HIDE DEF set
<1>5. ASSUME NEW i \in DOMAIN d.user
      PROVE  /\ Over(set, d.user[i]).hash = b /\ DOMAIN d.user[i] \subseteq DOMAIN Over(set, d.user[i])
             /\ "role" \in DOMAIN d.user[i] => Over(set, d.user[i]).role = d.user[i].role
  <2> DEFINE row == d.user[i]
  <2> HIDE DEF row
  <2>1. /\ DOMAIN Over(set, row) = DOMAIN set \cup DOMAIN row
        /\ \A c \in DOMAIN set : Over(set, row)[c] = set[c]
        /\ \A c \in DOMAIN row \ DOMAIN set : Over(set, row)[c] = row[c]
    BY OverColumns
  <2> QED BY <1>s, <2>1 DEF row
<1>6. \A i \in DOMAIN d.user : e.user[i] \in { Over(set, d.user[i]), d.user[i] }
  BY <1>3 DEF set
<1>7. Visitor \in DOMAIN d.user => e.user[Visitor] = Over(set, d.user[Visitor])
  BY <1>3, <1>4 DEF set
<1>8. Columned(d) => Columned(e)
  BY <1>3, <1>5, <1>6 DEF Columned
<1>9. Columned(d) => ~Promotes(d, e)
  <2>1. ASSUME Columned(d), NEW i \in DOMAIN d.user PROVE e.user[i].role = d.user[i].role
    <3>1. "role" \in DOMAIN d.user[i]
      BY <2>1 DEF Columned, UserColumns
    <3> QED BY <1>5, <1>6, <3>1
  <2> QED BY <1>3, <2>1 DEF Promotes
<1> QED BY <1>3, <1>5, <1>7, <1>8, <1>9

Remembers(w, b, n) ==
    /\ Todo(w) # <<>> /\ Head(Todo(w)) = Remember(b) /\ Tail(Todo(w)) = << Reply(n) >>
    /\ \/ b = n /\ Issues(w, n)
       \/ b = Nil /\ n = 0 /\ Op(w) = "logout"

LEMMA BrowserCommits ==
  ASSUME SessionInv, NEW w \in Workers, Commit(w), Op(w) \in BrowserOps
  PROVE  \E b, n : Remembers(w, b, n)
<1>1. Todo(w) # <<>> /\ Head(Todo(w)).kind = "tx"
  BY DEF Commit, Busy, Todo
<1>2. \A b : Head(Todo(w)) # Reply(b)
  BY <1>1 DEF Reply
<1>3. Clears(w) \/ \E b : Issues(w, b)
  BY <1>2 DEF SessionInv, BundlesApart, Browses, Gives
<1> QED BY <1>1, <1>3 DEF Clears, Issues, Remembers

LEMMA RememberAfter ==
  ASSUME Typed, NEW w \in Workers, NEW b, NEW n, Remembers(w, b, n), Commit(w), "user" \in DOMAIN db
  PROVE  /\ work'[w].req = work[w].req
         /\ Gives(w, n)' /\ (\A m : Gives(w, m)' => m = n) /\ (\A m : ~Issues(w, m)')
         /\ \A v \in Workers \ {w} : Same(v)
         /\ requests' = requests /\ clean' = (clean /\ ~(work[w].stale /\ db' # db))
         /\ DOMAIN db'.user = DOMAIN db.user
         /\ Visitor \in DOMAIN db.user => Hash' = b
         /\ Columned(db) => Columned(db')
<1> DEFINE x == Reply(n)
           rest == << x >>
           changed == db' # db
<1>1. rest # <<>> /\ Head(rest) = x /\ Tail(rest) = <<>>
  BY OneAnswer
<1>2. \A m : Reply(m) = x => m = n
  BY DEF Reply
<1>3. \A m : Remember(m) # x
  BY DEF Remember, Tx, Reply
<1>4. Advance(w, rest, changed) /\ changed \in BOOLEAN /\ (changed <=> db' # db) /\ requests' = requests
      /\ db' = Done(db, Head(Todo(w)))
  BY DEF Commit, Remembers, Todo
<1>5. Op(w) \in BrowserOps
  BY DEF Remembers, Issues, BrowserOps
<1>6. DOMAIN db'.user = DOMAIN db.user /\ (Visitor \in DOMAIN db.user => db'.user[Visitor].hash = b)
      /\ (Columned(db) => Columned(db'))
  <2>1. db' = Done(db, Remember(b))
    BY <1>4 DEF Remembers
  <2> DEFINE e == db'
  <2>2. e = Done(db, Remember(b))
    BY <2>1
  <2> HIDE DEF e
  <2>3. DOMAIN e.user = DOMAIN db.user /\ (Visitor \in DOMAIN db.user => e.user[Visitor].hash = b)
        /\ (Columned(db) => Columned(e))
    BY <2>2, Rehashed
  <2> QED BY <2>3 DEF e
<1>x. x = Reply(n)
  OBVIOUS
<1> HIDE DEF rest, changed, x
<1>7. Todo(w)' = rest /\ work'[w].req = work[w].req
  BY <1>1, <1>4, AdvanceSelf
<1>8. Op(w)' = Op(w)
  BY <1>7 DEF Op
<1>9. Gives(w, n)' /\ \A m : (Gives(w, m)' => m = n)
  BY <1>1, <1>2, <1>5, <1>7, <1>8, <1>x DEF Gives
<1>10. \A m : ~Issues(w, m)'
  BY <1>1, <1>3, <1>7 DEF Issues
<1>11. \A v \in Workers \ {w} : Same(v)
  BY <1>4, AdvanceSame
<1>12. clean' = (clean /\ ~(work[w].stale /\ db' # db))
  BY <1>4 DEF Advance
<1> QED BY <1>4, <1>6, <1>7, <1>9, <1>10, <1>11, <1>12 DEF Hash

LEMMA RememberSession ==
  ASSUME NEW s, Consistent(s), Typed, SessionInv, NEW w \in Workers, Commit(w), Op(w) \in BrowserOps,
         UNCHANGED sessionVars
  PROVE  SessionInv'
<1>0. /\ BundlesApart /\ TokensHanded /\ bundles \in Nat /\ UNCHANGED <<jar, past, bundles>>
      /\ "user" \in DOMAIN db /\ Nil \notin Nat
  BY Tabled, SessionsAssumption DEF SessionInv, BundlesApart, sessionVars, TableNames
<1>1. PICK b, n : Remembers(w, b, n)
  BY BrowserCommits
<1>2. /\ work'[w].req = work[w].req
      /\ Gives(w, n)' /\ (\A m : Gives(w, m)' => m = n) /\ (\A m : ~Issues(w, m)')
      /\ \A v \in Workers \ {w} : Same(v)
      /\ requests' = requests /\ clean' = (clean /\ ~(work[w].stale /\ db' # db))
      /\ DOMAIN db'.user = DOMAIN db.user
      /\ Visitor \in DOMAIN db.user => Hash' = b
      /\ Columned(db) => Columned(db')
  BY <1>0, <1>1, RememberAfter
<1>3. Op(w)' = Op(w) /\ Token(w)' = Token(w)
  BY <1>2 DEF Op, Token
<1>4. ASSUME NEW v \in Workers \ {w}
      PROVE  /\ Op(v)' = Op(v) /\ Token(v)' = Token(v) /\ (Clears(v)' <=> Clears(v))
             /\ \A m : (Issues(v, m)' <=> Issues(v, m)) /\ (Gives(v, m)' <=> Gives(v, m))
             /\ Todo(v) # <<>> /\ ~work'[v].stale => ~work[v].stale /\ db' = db
  BY <1>2, SameViews DEF Same, Todo
<1>5. b \notin Handed /\ n \in 0..bundles /\ (b # Nil => b = n /\ b \in 1..bundles /\ Issues(w, n))
  <2>1. Issues(w, n) => n \in 1..bundles
    BY <1>0 DEF BundlesApart
  <2>2. n \in 0..bundles
    BY <1>0, <1>1, <2>1 DEF Remembers
  <2>3. b = n /\ Issues(w, n) => b \notin Handed
    BY DEF Handed
  <2>4. b = Nil => b \notin Handed
    BY <1>0 DEF Handed
  <2> QED BY <1>1, <2>1, <2>2, <2>3, <2>4 DEF Remembers
<1>6. ASSUME NEW m \in 0..bundles, \A v \in Workers \ {w} : ~Issues(v, m) PROVE m \in Handed'
  BY <1>0, <1>2, <1>4, <1>6 DEF Handed
<1>7. Handed \subseteq Handed' /\ n \in Handed'
  <2>1. Handed \subseteq Handed'
    BY <1>6 DEF Handed
  <2>2. \A v \in Workers \ {w} : ~Issues(v, n)
    BY <1>0, <1>1 DEF BundlesApart, Remembers
  <2> QED BY <1>5, <1>6, <2>1, <2>2
<1>8. BundlesApart'
  <2>1. Browses(w)'
    BY <1>2 DEF Browses
  <2>2. \A v \in Workers : Op(v)' \in BrowserOps => Browses(v)'
    BY <1>0, <1>4, <2>1 DEF BundlesApart, Browses
  <2>3. \A v \in Workers : \A m : Issues(v, m)' => m \in 1..bundles'
    BY <1>0, <1>2, <1>4 DEF BundlesApart
  <2>4. ASSUME NEW v \in Workers, NEW u \in Workers, NEW m, Issues(v, m)', Issues(u, m)' PROVE v = u
    BY <1>0, <1>2, <1>4, <2>4 DEF BundlesApart
  <2> QED BY <1>0, <2>2, <2>3, <2>4 DEF BundlesApart
<1>9. TokensHanded'
  <2>1. jar'.refresh \in Handed' /\ past'.redeemed \cup past'.revoked \subseteq Handed'
    BY <1>0, <1>7 DEF TokensHanded
  <2>2. ASSUME NEW v \in Workers, NEW m, Gives(v, m)' PROVE m \in Handed'
    BY <1>0, <1>2, <1>4, <1>7, <2>2 DEF TokensHanded
  <2>3. ASSUME NEW v \in Workers, Op(v)' \in {"refresh", "logout"} PROVE Token(v)' \in Handed'
    BY <1>0, <1>3, <1>4, <1>7, <2>3 DEF TokensHanded
  <2>4. ASSUME NEW r \in requests'
        PROVE  /\ r.op \in BrowserOps => r.by = Visitor
               /\ r.op \in {"refresh", "logout"} => r.dto.token \in Handed'
    BY <1>0, <1>2, <1>7 DEF TokensHanded
  <2> QED BY <2>1, <2>2, <2>3, <2>4 DEF TokensHanded
<1>10. ASSUME clean', Visitor \in DOMAIN db'.user PROVE HashCurrent'
  <2>1. clean /\ (work[w].stale => db' = db) /\ Visitor \in DOMAIN db.user /\ Hash' = b
    BY <1>2, <1>10
  <2>2. HashCurrent
    BY <2>1 DEF SessionInv
  <2>3. b # Nil => Hash # b
    BY <1>5, <2>2 DEF HashCurrent
  <2>4. db' = db => Hash' = Hash
    BY DEF Hash
  <2>5. Hash' # Nil => Hash' # 0 /\ Hash' \in Handed'
    BY <1>5, <1>7, <2>1
  <2>6. Hash' \notin past'.redeemed \cup past'.revoked /\ ~past'.twice
    BY <1>0, <1>5, <2>1, <2>2 DEF TokensHanded, HashCurrent
  <2>7. ASSUME NEW v \in Workers, NEW m, Op(v)' = "refresh", ~work'[v].stale, Issues(v, m)'
        PROVE  Token(v)' = Hash'
    <3>1. v # w
      BY <1>2, <2>7
    <3>2. Issues(v, m) /\ Todo(v) # <<>>
      BY <1>4, <2>7, <3>1 DEF Issues
    <3> QED BY <1>4, <2>2, <2>4, <2>7, <3>1, <3>2 DEF HashCurrent
  <2>8. ASSUME NEW v \in Workers, NEW m, Op(v)' \in {"refresh", "logout"}, Gives(v, m)'
        PROVE  Token(v)' # Hash'
    BY <1>0, <1>3, <1>4, <1>5, <2>1, <2>8 DEF TokensHanded
  <2>9. Op(w) = "refresh" => Token(w) = Hash
    <3> SUFFICES ASSUME Op(w) = "refresh" PROVE Token(w) = Hash
      OBVIOUS
    <3>1. b = n /\ Issues(w, n) /\ b # Nil
      BY <1>0, <1>1, <1>5 DEF Remembers
    <3>2. ~work[w].stale
      BY <2>1, <2>3, <2>4, <3>1
    <3> QED BY <2>2, <3>1, <3>2 DEF HashCurrent
  <2>10. ASSUME NEW v \in Workers, NEW m, Op(v)' = "refresh", Gives(v, m)'
         PROVE  Token(v)' \notin past'.redeemed
    BY <1>0, <1>3, <1>4, <2>2, <2>9, <2>10 DEF HashCurrent
  <2>11. ASSUME NEW v \in Workers, NEW u \in Workers, NEW a, NEW c,
                Op(v)' = "refresh", Gives(v, a)', Op(u)' = "refresh", Gives(u, c)'
         PROVE  v = u \/ Token(v)' # Token(u)'
    <3>1. CASE v # w /\ u # w
      BY <1>4, <2>2, <2>11, <3>1 DEF HashCurrent
    <3>2. ASSUME NEW o \in Workers \ {w}, NEW m, Op(o)' = "refresh", Gives(o, m)', Op(w)' = "refresh"
          PROVE  Token(o)' # Token(w)'
      <4>1. Token(o) # Hash
        BY <1>4, <2>2, <3>2 DEF HashCurrent
      <4> QED BY <1>3, <1>4, <2>9, <3>2, <4>1
    <3> QED BY <2>11, <3>1, <3>2
  <2> QED BY <2>5, <2>6, <2>7, <2>8, <2>10, <2>11 DEF HashCurrent
<1>11. ASSUME clean' PROVE Columned(db') /\ \A v \in Workers : Due(v)'
  <2>1. Columned(db') /\ \A v \in Workers : Due(v)
    BY <1>2, <1>11 DEF SessionInv
  <2>2. Due(w)'
    BY <1>3 DEF Due, AccountOps, BrowserOps
  <2>3. \A v \in Workers \ {w} : Due(v)'
    BY <1>2, <2>1, SameDue
  <2> QED BY <2>1, <2>2, <2>3
<1> QED BY <1>8, <1>9, <1>10, <1>11 DEF SessionInv

LEMMA StatementSession ==
  ASSUME NEW s \in Scenarios, Consistent(s), Typed, SessionInv, NEW w \in Workers, Statement(w),
         UNCHANGED sessionVars
  PROVE  SessionInv'
  BY StatementIs, AbandonSession, CommitSession, RememberSession

-----------------------------------------------------------------------------
(* The browser asks, and drops its tokens.                                  *)
LEMMA AskAside ==
  ASSUME SessionInv, NEW t, NEW op, NEW from, NEW dto, Ask(t, op, from, dto),
         op \in {"refresh", "logout"} => dto.token \in Handed
  PROVE  Aside /\ UNCHANGED <<db, work, clean>>
<1> DEFINE r == [op |-> op, by |-> Visitor, id |-> calls + 1, dto |-> dto]
           racing == past.raced \/ \E o \in Tabs : tabs[o].op # "none"
<1>1. /\ requests' = requests \cup {r} /\ past' = [past EXCEPT !.raced = racing]
      /\ UNCHANGED <<db, work, clean, jar, bundles>>
  BY DEF Ask
<1>2. r.op = op /\ r.by = Visitor /\ r.dto = dto
  OBVIOUS
<1> HIDE DEF r, racing
<1>3. "refresh" \in DOMAIN jar /\ {"redeemed", "twice", "revoked"} \subseteq DOMAIN past
  BY DEF SessionInv, BundlesApart
<1>4. /\ {"redeemed", "twice", "revoked"} \subseteq DOMAIN past'
      /\ past'.redeemed = past.redeemed /\ past'.twice = past.twice /\ past'.revoked = past.revoked
  BY <1>1, <1>3
<1> QED BY <1>1, <1>2, <1>3, <1>4 DEF Aside

LEMMA ReceivedTokens ==
  ASSUME SessionInv, NEW t, NEW n, Received(t, n)
  PROVE  "refresh" \in DOMAIN jar' /\ jar'.refresh \in {jar.refresh, n, 0}
<1>1. "refresh" \in DOMAIN jar
  BY DEF SessionInv, BundlesApart
<1>2. \A m : "refresh" \in DOMAIN SignedIn(m) /\ SignedIn(m).refresh = m
  BY DEF SignedIn
<1>3. jar' \in {jar, SignedIn(n), SignedIn(0)}
  BY DEF Received, LoggedIn, RefreshedPage, RefreshedCall, LoggedOut, NoCookies
<1> QED BY <1>1, <1>2, <1>3

LEMMA TabSession ==
  ASSUME SessionInv, NEW t, SignIn(t) \/ OpenPage(t) \/ CallApi(t) \/ SignOut(t) \/ NoAnswer(t)
  PROVE  SessionInv'
<1>1. jar.refresh \in Handed
  BY DEF SessionInv, TokensHanded
<1>2. \A from : AskRefresh(t, from) => Aside /\ UNCHANGED <<db, work, clean>>
  BY <1>1, AskAside DEF AskRefresh
<1>3. CASE SignIn(t)
  BY <1>3, AskAside, QuietKeeps DEF SignIn
<1>4. CASE OpenPage(t)
  BY <1>2, <1>4, QuietKeeps DEF OpenPage
<1>5. CASE SignOut(t)
  BY <1>1, <1>5, AskAside, QuietKeeps DEF SignOut
<1>6. CASE CallApi(t)
  <2>1. CASE jar.refresh # 0
    BY <1>2, <1>6, <2>1, QuietKeeps DEF CallApi
  <2>2. CASE jar.refresh = 0
    <3>1. jar' = NoCookies /\ UNCHANGED <<db, requests, work, clean, bundles, past>>
      BY <1>6, <2>2 DEF CallApi
    <3>2. "refresh" \in DOMAIN jar' /\ jar'.refresh = 0
      BY <3>1 DEF NoCookies, SignedIn
    <3>3. {"redeemed", "twice", "revoked"} \subseteq DOMAIN past
      BY DEF SessionInv, BundlesApart
    <3> QED BY <3>1, <3>2, <3>3, QuietKeeps DEF Aside
  <2> QED BY <2>1, <2>2
<1>7. CASE NoAnswer(t)
  <2>1. /\ Received(t, 0) /\ past' = [past EXCEPT !.unanswered = TRUE]
        /\ UNCHANGED <<db, requests, work, clean, bundles>>
    BY <1>7 DEF NoAnswer
  <2>2. "refresh" \in DOMAIN jar' /\ jar'.refresh \in {jar.refresh, 0}
    BY <2>1, ReceivedTokens
  <2>3. {"redeemed", "twice", "revoked"} \subseteq DOMAIN past
    BY DEF SessionInv, BundlesApart
  <2>4. /\ {"redeemed", "twice", "revoked"} \subseteq DOMAIN past'
        /\ past'.redeemed = past.redeemed /\ past'.twice = past.twice /\ past'.revoked = past.revoked
    BY <2>1, <2>3
  <2> QED BY <2>1, <2>2, <2>4, QuietKeeps DEF Aside
<1> QED BY <1>3, <1>4, <1>5, <1>6, <1>7

LEMMA ExpireSession ==
  ASSUME SessionInv, Expire
  PROVE  SessionInv'
<1>1. /\ jar' = [jar EXCEPT !.token = IF @ = bundles THEN 0 ELSE @]
      /\ UNCHANGED <<db, requests, work, clean, bundles, past>>
  BY DEF Expire
<1>2. "refresh" \in DOMAIN jar /\ {"redeemed", "twice", "revoked"} \subseteq DOMAIN past
  BY DEF SessionInv, BundlesApart
<1>3. "refresh" \in DOMAIN jar' /\ jar'.refresh = jar.refresh
  BY <1>1, <1>2
<1> QED BY <1>1, <1>2, <1>3, QuietKeeps DEF Aside

LEMMA DenySession ==
  ASSUME SessionInv, NEW r, Deny(r)
  PROVE  SessionInv'
<1>1. /\ requests' \subseteq requests /\ UNCHANGED <<db, work, clean, bundles, past>>
      /\ jar' = jar \/ \E t \in Tabs : Received(t, 0)
  BY DEF Deny
<1>2. "refresh" \in DOMAIN jar /\ {"redeemed", "twice", "revoked"} \subseteq DOMAIN past
  BY DEF SessionInv, BundlesApart
<1>3. "refresh" \in DOMAIN jar' /\ jar'.refresh \in {jar.refresh, 0}
  BY <1>1, <1>2, ReceivedTokens
<1> QED BY <1>1, <1>2, <1>3, QuietKeeps DEF Aside

-----------------------------------------------------------------------------
(* An answer: its tokens were handed out, and what it redeems or revokes is  *)
(* not the account's.                                                       *)
LEMMA AnswerGives ==
  ASSUME NEW s, Consistent(s), SessionInv, NEW w \in Workers, Step(w, "reply")
  PROVE  \E b : Gives(w, b)
<1> DEFINE t == work[w].todo
           op == work[w].req.op
<1>1. /\ Awaits(s, Used(s), clean, db, clean /\ ~work[w].stale, op, t)
      /\ t # <<>> /\ Head(t).kind = "reply" /\ Todo(w) = t /\ Op(w) = op
  BY DEF Consistent, Step, Busy, Todo, Op
<1> HIDE DEF t, op
<1>2. op \in BrowserOps
  <2>1. ~PlainTodo(s, clean, t)
    <3> SUFFICES ASSUME PlainTodo(s, clean, t) PROVE FALSE
      OBVIOUS
    <3>1. IsSeq(t) /\ t # <<>>
      BY <1>1 DEF PlainTodo
    <3>2. 1 \in DOMAIN t /\ Head(t) = t[1]
      BY <3>1 DEF IsSeq
    <3> QED BY <1>1, <3>2 DEF PlainTodo, PlainItem
  <2>2. ~Decided(s, Used(s), clean, db, clean /\ ~work[w].stale, t)
    <3> SUFFICES ASSUME NEW wr, t = <<Tx(<<wr>>)>> PROVE FALSE
      BY DEF Decided
    <3> QED BY <1>1 DEF Tx
  <2>3. ~Personal(s, clean, op, t)
    BY <1>1 DEF Personal, SteadyItem
  <2> QED BY <1>1, <2>1, <2>2, <2>3 DEF Awaits, Going
<1>3. Browses(w)
  BY <1>1, <1>2 DEF SessionInv, BundlesApart
<1>4. \A b : Head(Todo(w)) # Remember(b)
  BY <1>1 DEF Remember, Tx
<1> QED BY <1>3, <1>4 DEF Browses, Clears, Issues

Spent(w) == IF Op(w) = "refresh" THEN {Token(w)} ELSE {}

Dropped(w) == IF Op(w) = "logout" THEN {Token(w)} ELSE {}

LEMMA AnswerPast ==
  ASSUME SessionInv, NEW w, Answer(w)
  PROVE  /\ {"redeemed", "twice", "revoked"} \subseteq DOMAIN past'
         /\ past'.redeemed = past.redeemed \cup Spent(w)
         /\ past'.revoked = past.revoked \cup Dropped(w)
         /\ past'.twice = (past.twice \/ Spent(w) \cap past.redeemed # {})
<1>1. {"redeemed", "twice", "revoked"} \subseteq DOMAIN past
  BY DEF SessionInv, BundlesApart
<1>2. past' = [past EXCEPT !.revoked = @ \cup Dropped(w),
                           !.twice = @ \/ Spent(w) \cap past.redeemed # {},
                           !.redeemed = @ \cup Spent(w)]
  BY DEF Answer, Spent, Dropped, Op, Token
<1> QED BY <1>1, <1>2

LEMMA AnswerAfter ==
  ASSUME Typed, NEW w \in Workers, NEW b, Gives(w, b), Answer(w)
  PROVE  /\ Op(w)' = "none" /\ Due(w)' /\ clean' = clean /\ UNCHANGED <<db, requests, bundles>>
         /\ jar' = jar \/ \E t \in Tabs : Received(t, b)
         /\ \A v \in Workers \ {w} : Same(v)
<1> DEFINE rest == Rest(w)
<1>1. rest = <<>> /\ Head(work[w].todo) = Reply(b)
  BY DEF Gives, Todo, Rest
<1>2. Head(work[w].todo).bundle = b
  BY <1>1 DEF Reply
<1>3. Advance(w, rest, FALSE) /\ UNCHANGED <<db, requests, bundles>>
  BY DEF Answer
<1>4. jar' = jar \/ \E t \in Tabs : Received(t, b)
  BY <1>2 DEF Answer
<1>5. clean' = clean
  BY <1>3 DEF Advance, Typed
<1> HIDE DEF rest
<1>6. work'[w] = Idle
  BY <1>1, <1>3 DEF Advance
<1>7. Op(w)' = "none"
  BY <1>6 DEF Op, Idle, NoRequest
<1>9. Due(w)'
  BY <1>6, IdleDue
<1>8. \A v \in Workers \ {w} : Same(v)
  BY <1>3, AdvanceSame
<1> QED BY <1>3, <1>4, <1>5, <1>7, <1>8, <1>9

LEMMA AnswerSession ==
  ASSUME NEW s, Consistent(s), Typed, SessionInv, NEW w \in Workers, Answer(w)
  PROVE  SessionInv'
<1>0. BundlesApart /\ TokensHanded
  BY DEF SessionInv
<1>1. PICK b : Gives(w, b)
  BY AnswerGives DEF Answer
<1>2. /\ Op(w)' = "none" /\ Due(w)' /\ clean' = clean /\ UNCHANGED <<db, requests, bundles>>
      /\ jar' = jar \/ \E t \in Tabs : Received(t, b)
      /\ \A v \in Workers \ {w} : Same(v)
  BY <1>1, AnswerAfter
<1>3. /\ {"redeemed", "twice", "revoked"} \subseteq DOMAIN past'
      /\ past'.redeemed = past.redeemed \cup Spent(w)
      /\ past'.revoked = past.revoked \cup Dropped(w)
      /\ past'.twice = (past.twice \/ Spent(w) \cap past.redeemed # {})
  BY AnswerPast
<1>4. "refresh" \in DOMAIN jar' /\ jar'.refresh \in {jar.refresh, b, 0}
  <2>1. CASE jar' = jar
    BY <1>0, <2>1 DEF BundlesApart
  <2>2. CASE \E t \in Tabs : Received(t, b)
    BY <2>2, ReceivedTokens
  <2> QED BY <1>2, <2>1, <2>2
<1>5. (\A m : ~Issues(w, m)' /\ ~Gives(w, m)') /\ Op(w)' \notin BrowserOps
  BY <1>2 DEF Issues, Gives, BrowserOps
<1>6. ASSUME NEW v \in Workers \ {w}
      PROVE  /\ Op(v)' = Op(v) /\ Token(v)' = Token(v) /\ (Clears(v)' <=> Clears(v))
             /\ \A m : (Issues(v, m)' <=> Issues(v, m)) /\ (Gives(v, m)' <=> Gives(v, m))
             /\ Todo(v) # <<>> /\ ~work'[v].stale => ~work[v].stale
  BY <1>2, SameViews DEF Same, Todo
<1>7. Handed \subseteq Handed'
  BY <1>2, <1>5, <1>6 DEF Handed
<1>8. Spent(w) \cup Dropped(w) \subseteq Handed /\ b \in Handed
  BY <1>0, <1>1 DEF TokensHanded, Spent, Dropped
<1>9. BundlesApart'
  <2>1. \A v \in Workers : Op(v)' \in BrowserOps => Browses(v)'
    BY <1>0, <1>5, <1>6 DEF BundlesApart, Browses
  <2>2. \A v \in Workers : \A m : Issues(v, m)' => m \in 1..bundles'
    BY <1>0, <1>2, <1>5, <1>6 DEF BundlesApart
  <2>3. ASSUME NEW v \in Workers, NEW u \in Workers, NEW m, Issues(v, m)', Issues(u, m)' PROVE v = u
    BY <1>0, <1>5, <1>6, <2>3 DEF BundlesApart
  <2>4. bundles' \in Nat
    BY <1>0, <1>2 DEF BundlesApart
  <2> QED BY <1>3, <1>4, <2>1, <2>2, <2>3, <2>4 DEF BundlesApart
<1>10. TokensHanded'
  <2>1. jar'.refresh \in Handed'
    BY <1>0, <1>4, <1>7, <1>8, NoneHanded DEF TokensHanded
  <2>2. past'.redeemed \cup past'.revoked \subseteq Handed'
    BY <1>0, <1>3, <1>7, <1>8 DEF TokensHanded
  <2>3. ASSUME NEW v \in Workers, NEW m, Gives(v, m)' PROVE m \in Handed'
    BY <1>0, <1>5, <1>6, <1>7, <2>3 DEF TokensHanded
  <2>4. ASSUME NEW v \in Workers, Op(v)' \in {"refresh", "logout"} PROVE Token(v)' \in Handed'
    BY <1>0, <1>2, <1>6, <1>7, <2>4 DEF TokensHanded
  <2>5. ASSUME NEW r \in requests'
        PROVE  /\ r.op \in BrowserOps => r.by = Visitor
               /\ r.op \in {"refresh", "logout"} => r.dto.token \in Handed'
    BY <1>0, <1>2, <1>7 DEF TokensHanded
  <2> QED BY <2>1, <2>2, <2>3, <2>4, <2>5 DEF TokensHanded
<1>11. ASSUME clean', Visitor \in DOMAIN db'.user PROVE HashCurrent'
  <2>1. HashCurrent /\ Hash' = Hash
    BY <1>2, <1>11 DEF SessionInv, Hash
  <2>2. Hash' # Nil => Hash' # 0 /\ Hash' \in Handed'
    BY <1>7, <2>1 DEF HashCurrent
  <2>3. Hash' \notin past'.redeemed \cup past'.revoked
    BY <1>1, <1>3, <2>1 DEF HashCurrent, Spent, Dropped
  <2>4. ~past'.twice
    BY <1>1, <1>3, <2>1 DEF HashCurrent, Spent
  <2>5. ASSUME NEW v \in Workers, NEW m, Op(v)' = "refresh", ~work'[v].stale, Issues(v, m)'
        PROVE  Token(v)' = Hash'
    <3>1. v # w
      BY <1>5, <2>5
    <3>2. Issues(v, m) /\ Todo(v) # <<>>
      BY <1>6, <2>5, <3>1 DEF Issues
    <3> QED BY <1>6, <2>1, <2>5, <3>1, <3>2 DEF HashCurrent
  <2>6. ASSUME NEW v \in Workers, NEW m, Op(v)' \in {"refresh", "logout"}, Gives(v, m)'
        PROVE  Token(v)' # Hash'
    BY <1>5, <1>6, <2>1, <2>6 DEF HashCurrent
  <2>7. ASSUME NEW v \in Workers, NEW m, Op(v)' = "refresh", Gives(v, m)'
        PROVE  Token(v)' \notin past'.redeemed
    <3>1. v # w /\ Op(v) = "refresh" /\ Gives(v, m) /\ Token(v)' = Token(v)
      BY <1>5, <1>6, <2>7
    <3>2. Token(v) \notin past.redeemed /\ Token(v) \notin Spent(w)
      BY <1>1, <2>1, <3>1 DEF HashCurrent, Spent
    <3> QED BY <1>3, <3>1, <3>2
  <2>8. ASSUME NEW v \in Workers, NEW u \in Workers, NEW a, NEW c,
               Op(v)' = "refresh", Gives(v, a)', Op(u)' = "refresh", Gives(u, c)'
        PROVE  v = u \/ Token(v)' # Token(u)'
    BY <1>5, <1>6, <2>1, <2>8 DEF HashCurrent
  <2> QED BY <2>2, <2>3, <2>4, <2>5, <2>6, <2>7, <2>8 DEF HashCurrent
<1>12. ASSUME clean' PROVE Columned(db') /\ \A v \in Workers : Due(v)'
  <2>1. Columned(db') /\ \A v \in Workers : Due(v)
    BY <1>2, <1>12 DEF SessionInv
  <2>2. \A v \in Workers \ {w} : Due(v)'
    BY <1>2, <2>1, SameDue
  <2> QED BY <1>2, <2>1, <2>2
<1> QED BY <1>9, <1>10, <1>11, <1>12 DEF SessionInv

-----------------------------------------------------------------------------
(* The scenarios satisfy the invariant, and every step keeps it.            *)
LEMMA InitSession ==
  ASSUME Init
  PROVE  SessionInv
<1>1. PICK s \in Scenarios : db = s.db /\ requests = s.requests /\ SessionInit(s.bundle)
  BY DEF Init
<1>2. /\ jar.refresh = s.bundle /\ "refresh" \in DOMAIN jar /\ bundles = s.bundle /\ s.bundle \in Nat
      /\ {"redeemed", "twice", "revoked"} \subseteq DOMAIN past
      /\ past.redeemed = {} /\ past.revoked = {} /\ past.twice = FALSE
  BY <1>1, SessionsAssumption DEF SessionInit, SignedIn
<1>3. \A w \in Workers : work[w] = Idle
  BY DEF Init
<1>4. \A w \in Workers : Op(w) = "none" /\ Todo(w) = <<>>
  BY <1>3 DEF Op, Todo, Idle, NoRequest
<1>5. \A w \in Workers : \A b : ~Issues(w, b) /\ ~Gives(w, b)
  BY <1>4 DEF Issues, Gives
<1>6. Handed = 0..bundles
  BY <1>5 DEF Handed
<1>7. BundlesApart
  BY <1>2, <1>4, <1>5 DEF BundlesApart, BrowserOps
<1>8. TokensHanded
  <2>1. jar.refresh \in Handed
    BY <1>2, <1>6
  <2>2. \A r \in requests : r.op \notin BrowserOps
    BY <1>1, SessionsAssumption DEF BrowserOps
  <2> QED BY <1>2, <1>4, <1>5, <2>1, <2>2 DEF TokensHanded, BrowserOps
<1>9. Columned(db) /\ \A w \in Workers : Due(w)
  BY <1>1, <1>4, SessionsAssumption DEF Columned, Due
<1>10. Visitor \in DOMAIN db.user => HashCurrent
  <2> SUFFICES ASSUME Visitor \in DOMAIN db.user PROVE HashCurrent
    OBVIOUS
  <2>1. Hash = Nil \/ Hash \in 1..bundles
    BY <1>1, <1>2, SessionsAssumption DEF Hash
  <2>2. Hash # Nil => Hash # 0 /\ Hash \in Handed
    BY <1>2, <1>6, <2>1
  <2> QED BY <1>2, <1>4, <1>5, <2>2 DEF HashCurrent
<1> QED BY <1>7, <1>8, <1>9, <1>10 DEF SessionInv

LEMMA StepSession ==
  ASSUME NEW s \in Scenarios, Consistent(s), Typed, SessionInv, [Next]_vars
  PROVE  SessionInv'
<1>1. CASE UNCHANGED <<db, requests, work, clean>> /\ UNCHANGED sessionVars
  BY <1>1, AsideSession, QuietKeeps
<1>2. CASE UNCHANGED vars
  BY <1>1, <1>2 DEF vars, consoleVars
<1>3. ASSUME NEW w \in Workers, Serve(w) PROVE SessionInv'
  <2>1. PICK r \in requests :
          \/ (\/ AgentRequest(w, r) \/ UserRequest(w, r) \/ TenantRequest(w, r) \/ RoutingRequest(w, r)
              \/ NetworkRequest(w, r)) /\ UNCHANGED sessionVars
          \/ SessionRequest(w, r)
    BY <1>3 DEF Serve
  <2>2. CASE SessionRequest(w, r)
    BY <2>2, SessionBegins
  <2> QED BY <2>1, <2>2, ServeSession
<1>4. ASSUME NEW w \in Workers, Continue(w) PROVE SessionInv'
  BY <1>4, StatementSession, SyncSession, NetworkSession DEF Continue
<1>5. CASE SessionStep
  BY <1>5, TabSession, DenySession, AnswerSession, ExpireSession DEF SessionStep
<1>6. CASE Crash /\ UNCHANGED sessionVars
  BY <1>6, CrashSession
<1>7. CASE LateCommand /\ UNCHANGED sessionVars
  <2>1. UNCHANGED <<db, requests, work, clean>>
    BY <1>7 DEF LateCommand
  <2> QED BY <1>1, <1>7, <2>1
<1> QED BY <1>2, <1>3, <1>4, <1>5, <1>6, <1>7 DEF Next

(* What the tokens are at any time: a token that was redeemed or revoked is   *)
(* not the account's, and no answer under way gives a new bundle for one,     *)
(* unless an account was saved over what another handler had written.        *)
THEOREM SessionInvariant == Spec => [](ConsoleInv /\ SessionInv)
<1>1. Init => ConsoleInv /\ SessionInv
  BY InitKeeps, InitSession
<1>2. (ConsoleInv /\ SessionInv) /\ [Next]_vars => (ConsoleInv /\ SessionInv)'
  <2> SUFFICES ASSUME ConsoleInv, SessionInv, [Next]_vars PROVE ConsoleInv' /\ SessionInv'
    OBVIOUS
  <2>1. PICK s \in Scenarios : Consistent(s)
    BY DEF ConsoleInv
  <2>2. Typed' /\ Consistent(s)'
    BY <2>1, StepKeeps DEF ConsoleInv
  <2>3. SessionInv'
    BY <2>1, StepSession DEF ConsoleInv
  <2> QED BY <2>2, <2>3 DEF ConsoleInv
<1> QED BY <1>1, <1>2, PTL DEF Spec

(* A refresh token is redeemed once, and one that was given up by a logout   *)
(* is the account's no more, whatever requests are under way, and wherever   *)
(* handlers stop, unless an account was saved over what another one wrote.   *)
THEOREM TokensStaySound == Spec => []TokensSound
<1>1. SessionInv => TokensSound
  BY DEF SessionInv, TokensSound, RedeemedOnce, LogoutRevokes, HashCurrent, Hash
<1> QED BY <1>1, SessionInvariant, PTL

-----------------------------------------------------------------------------
(* The statement that changes the database: its worker has it behind it.    *)
LEMMA OnlyCommits ==
  ASSUME NEW s \in Scenarios, Consistent(s), Typed, [Next]_vars, db' # db
  PROVE  \E w \in Workers : Commit(w)
<1>1. \A w \in Workers : Serve(w) => db' = db
  BY ServeKeeps
<1>2. ASSUME NEW w \in Workers, Continue(w) PROVE Commit(w)
  <2>1. ~SyncTenantMemberships(w) /\ ~NetworkStep(w)
    BY SyncKeeps, NetworkKeeps
  <2>2. ~Abandon(w)
    BY DEF Abandon
  <2> QED BY <1>2, <2>1, <2>2, StatementIs DEF Continue
<1>3. ~SessionStep
  BY SessionKeeps
<1>4. ~Crash /\ ~LateCommand /\ ~UNCHANGED vars
  BY DEF Crash, LateCommand, vars, consoleVars
<1> QED BY <1>1, <1>2, <1>3, <1>4 DEF Next

LEMMA Shrinks ==
  ASSUME NEW t, IsSeq(t), t # <<>>
  PROVE  Tail(t) # t
<1>1. PICK S : t \in Seq(S)
  BY DEF IsSeq
<1>2. PICK n \in Nat : n = Len(t)
  BY <1>1
<1>3. Len(Tail(t)) = n - 1
  BY <1>1, <1>2
<1> QED BY <1>2, <1>3

LEMMA CommitActs ==
  ASSUME NEW s \in Scenarios, Consistent(s), Typed, SessionInv, NEW w \in Workers, Commit(w)
  PROVE  Acts(w)
<1> DEFINE t == work[w].todo
           op == work[w].req.op
           rest == Tail(t)
           changed == db' # db
<1>1. /\ Awaits(s, Used(s), clean, db, clean /\ ~work[w].stale, op, t)
      /\ t # <<>> /\ Head(t).kind = "tx" /\ Op(w) = op /\ Todo(w) = t
      /\ Advance(w, rest, changed)
  BY DEF Consistent, Commit, Busy, Op, Todo
<1> HIDE DEF rest, changed
<1>2. work'[w].todo = rest
  BY <1>1, AdvanceSelf DEF Todo
<1> HIDE DEF t, op
<1>3. CASE op \in BrowserOps
  <2>1. PICK b, n : Remembers(w, b, n)
    BY <1>1, <1>3, BrowserCommits
  <2>2. Head(t) = Remember(b) /\ rest = << Reply(n) >>
    BY <1>1, <2>1 DEF Remembers, rest
  <2>3. Head(<< Reply(n) >>) = Reply(n)
    BY OneAnswer
  <2>4. Reply(n) # Remember(b)
    BY DEF Reply, Remember, Tx
  <2> QED BY <1>2, <2>2, <2>3, <2>4 DEF Acts, t
<1>4. CASE op \notin BrowserOps
  <2>1. rest # t
    <3>1. CASE PlainTodo(s, clean, t)
      BY <1>1, <3>1, Shrinks DEF PlainTodo, rest
    <3>2. CASE Decided(s, Used(s), clean, db, clean /\ ~work[w].stale, t)
      <4>1. rest = <<>>
        BY <3>2 DEF Decided, rest
      <4> QED BY <1>1, <4>1
    <3>3. CASE Personal(s, clean, op, t)
      <4>1. IsSeq(rest)
        BY <3>3 DEF Personal, PlainTodo, rest
      <4> QED BY <1>1, <4>1, Shrinks DEF rest
    <3> QED BY <1>1, <1>4, <3>1, <3>2, <3>3 DEF Awaits, Going
  <2> QED BY <1>2, <2>1 DEF Acts, t
<1> QED BY <1>3, <1>4

LEMMA BrowserPromotes ==
  ASSUME NEW s \in Scenarios, Consistent(s), SessionInv, NEW w \in Workers, Commit(w), Op(w) \in BrowserOps, clean
  PROVE  ~Promotes(db, db')
<1>1. PICK b, n : Remembers(w, b, n)
  BY BrowserCommits
<1> DEFINE d == db
           e == db'
<1>2. e = Done(d, Remember(b)) /\ "user" \in DOMAIN d /\ Columned(d)
  BY <1>1, Tabled DEF Commit, Remembers, Todo, TableNames, SessionInv
<1> HIDE DEF d, e
<1>3. ~Promotes(d, e)
  BY <1>2, Rehashed
<1> QED BY <1>3 DEF d, e

(* An account becomes one of a super admin by a request of a super admin, or  *)
(* when the backend starts, unless handlers raced: also when the account is   *)
(* saved after its role was checked.                                         *)
THEOREM SupersByQualified == Spec => SuperByQualified
<1>1. ConsoleInv /\ SessionInv /\ [Next]_vars =>
        [clean' => \A u \in DOMAIN db'.user :
            /\ db'.user[u].role = "super_admin"
            /\ u \notin DOMAIN db.user \/ db.user[u].role # "super_admin"
            => \E w \in Workers : Acts(w) /\ (work[w].scope.super \/ work[w].req.op = "boot") ]_db
  <2> SUFFICES ASSUME ConsoleInv, SessionInv, [Next]_vars, db' # db, clean', NEW u \in DOMAIN db'.user,
                      db'.user[u].role = "super_admin",
                      u \notin DOMAIN db.user \/ db.user[u].role # "super_admin"
               PROVE  \E w \in Workers : Acts(w) /\ (work[w].scope.super \/ work[w].req.op = "boot")
    OBVIOUS
  <2>1. PICK s \in Scenarios : Consistent(s)
    BY DEF ConsoleInv
  <2>2. PICK w \in Workers : Commit(w)
    BY <2>1, OnlyCommits DEF ConsoleInv
  <2>3. Promotes(db, db') /\ Typed
    BY DEF Promotes, ConsoleInv
  <2>4. clean /\ ~work[w].stale
    BY <2>2, <2>3 DEF Commit, Advance, Typed
  <2>5. Op(w) \notin BrowserOps
    BY <2>1, <2>2, <2>3, <2>4, BrowserPromotes
  <2>6. Duly(Op(w), work[w].scope.super, db, db')
    BY <2>1, <2>2, <2>3, <2>4, <2>5, CommitDuly
  <2>7. Acts(w)
    BY <2>1, <2>2, <2>3, CommitActs
  <2> QED BY <2>3, <2>6, <2>7 DEF Duly, Op
<1> QED BY <1>1, SessionInvariant, PTL DEF Spec, SuperByQualified

-----------------------------------------------------------------------------
(* Accounts keep a tenant.  A request that makes or changes an account, of a  *)
(* sender that is no super admin, saves the account, checks its tenants, and  *)
(* takes some and gives some: with these two, when nobody else wrote since    *)
(* the check, the account has a tenant.                                      *)
MemberOps == {"createUser", "updateUser"}

Holds(d, u) == Memberships(d, u) # {}

Starts(t) == t # <<>> /\ Head(t).kind = "tx" /\ Tail(t) # <<>> /\ Head(Tail(t)) = Sync /\ Tail(Tail(t)) = <<>>

Checks(t) == t # <<>> /\ Head(t) = Sync /\ Tail(t) = <<>>

Takes(t) ==
    /\ t # <<>> /\ Head(t).kind = "tx"
    /\ Tail(t) # <<>> /\ Head(Tail(t)).kind = "tx" /\ Tail(Tail(t)) = <<>>

Closes(t) == t # <<>> /\ Head(t).kind = "tx" /\ Tail(t) = <<>>

Tenanted(d, u, t, fresh) ==
    \/ Starts(t)
    \/ Checks(t)
    \/ Takes(t) /\ (fresh => Holds(Done(Done(d, Head(t)), Head(Tail(t))), u))
    \/ Closes(t) /\ (fresh => Holds(Done(d, Head(t)), u))

MemberInv ==
    /\ Keyed(db.member)
    /\ \A w \in Workers : Op(w) \in MemberOps /\ ~work[w].scope.super
         => Tenanted(db, work[w].req.id, Todo(w), ~work[w].stale)

-----------------------------------------------------------------------------
(* What statements make of the memberships.                                 *)
LEMMA LessMembers ==
  ASSUME NEW d, NEW wr, wr.kind = "delete", NEW e, e = Effect(d, wr)
  PROVE  /\ TableNames \subseteq DOMAIN e /\ DOMAIN e.member \subseteq DOMAIN d.member
         /\ \A m \in DOMAIN e.member : /\ DOMAIN e.member[m] = DOMAIN d.member[m]
                                       /\ \A c \in DOMAIN d.member[m] : e.member[m][c] = d.member[m][c]
         /\ wr.table = "member" => DOMAIN e.member = DOMAIN d.member \ wr.ids
<1> DEFINE gone == Gone(d, wr.table, wr.ids)
           out(i) == Released(d, gone, "member", d.member[i])
<1>0. "member" \in TableNames
  BY DEF TableNames
<1>1. gone["member"] = (IF "member" = wr.table THEN wr.ids \cap DOMAIN d[wr.table] ELSE {})
                       \cup { i \in DOMAIN d["member"] : \E fk \in ForeignKeys :
                                /\ fk.from = "member" /\ fk.to = wr.table /\ fk.rule = "CASCADE"
                                /\ d["member"][i][fk.col] \in wr.ids }
  BY <1>0 DEF Gone
<1>2. wr.table = "member" => gone["member"] = wr.ids \cap DOMAIN d.member
  <2>1. \A fk \in ForeignKeys : fk.rule = "CASCADE" => fk.to # "member"
    BY SchemaRules DEF SetsNull
  <2> HIDE DEF gone
  <2> QED BY <1>1, <2>1
<1>3. DOMAIN e = TableNames /\ e["member"] = [i \in DOMAIN d["member"] \ gone["member"] |-> out(i)]
  <2>1. gone = Gone(d, wr.table, wr.ids)
    OBVIOUS
  <2> HIDE DEF gone
  <2>2. /\ DOMAIN e = TableNames
        /\ \A t \in TableNames : e[t] = [i \in DOMAIN d[t] \ gone[t] |-> Released(d, gone, t, d[t][i])]
    BY <2>1, DeleteEffect
  <2> QED BY <1>0, <2>2
<1>4. ASSUME NEW i \in DOMAIN d.member PROVE Loosened(gone, "member", d.member[i], out(i))
  BY ReleasedColumns
<1>5. \A fk \in ForeignKeys : ~(fk.from = "member" /\ fk.rule = "SET NULL")
  BY SchemaRules DEF SetsNull
<1>6. ASSUME NEW i \in DOMAIN d.member
      PROVE  DOMAIN out(i) = DOMAIN d.member[i] /\ \A c \in DOMAIN d.member[i] : out(i)[c] = d.member[i][c]
  BY <1>4, <1>5 DEF Loosened
<1> HIDE DEF gone, out
<1>7. DOMAIN e.member = DOMAIN d.member \ gone.member /\ \A m \in DOMAIN e.member : e.member[m] = out(m)
  BY <1>3
<1> QED BY <1>2, <1>3, <1>6, <1>7

LEMMA MoreMembers ==
  ASSUME NEW d, "member" \in DOMAIN d, NEW wr, wr.kind = "insert", wr.table = "member", NEW e, e = Effect(d, wr)
  PROVE  /\ DOMAIN e = DOMAIN d /\ DOMAIN e.member = DOMAIN wr.rows \cup DOMAIN d.member
         /\ \A m \in DOMAIN d.member : e.member[m] = d.member[m]
         /\ \A m \in DOMAIN wr.rows \ DOMAIN d.member : e.member[m] = wr.rows[m]
<1>1. e = [d EXCEPT !["member"] = Over(d["member"], wr.rows)]
  BY DEF Effect
<1> DEFINE old == d.member
           rows == wr.rows
<1>2. e.member = Over(old, rows) /\ DOMAIN e = DOMAIN d
  BY <1>1
<1>3. /\ DOMAIN Over(old, rows) = DOMAIN old \cup DOMAIN rows
      /\ \A m \in DOMAIN old : Over(old, rows)[m] = old[m]
      /\ \A m \in DOMAIN rows \ DOMAIN old : Over(old, rows)[m] = rows[m]
  BY OverColumns
<1> QED BY <1>2, <1>3

LEMMA EffectMembers ==
  ASSUME NEW s, NEW c, NEW wr, Fits(s, c, wr), NEW d, TableNames \subseteq DOMAIN d, Keyed(d.member),
         NEW e, e = Effect(d, wr)
  PROVE  TableNames \subseteq DOMAIN e /\ Keyed(e.member)
<1>0. {"user", "agent", "member", "role", "menu", "rule"} \subseteq TableNames
  BY DEF TableNames
<1>1. CASE wr.kind = "save"
  <2>1. wr.table \in DOMAIN d \ {"member"}
    BY <1>1 DEF Fits
  <2> QED BY <1>0, <1>1, <2>1, SaveEffect
<1>2. CASE wr.kind = "account"
  BY <1>0, <1>2, AccountEffect
<1>3. CASE wr.kind = "insert"
  <2>1. wr.table = "member" /\ Keyed(wr.rows)
    BY <1>3 DEF Fits
  <2> QED BY <1>0, <1>3, <2>1, MoreMembers DEF Keyed
<1>4. CASE wr.kind = "update"
  <2>1. wr.table \in DOMAIN d \ {"member"}
    BY <1>0, <1>4 DEF Fits
  <2> QED BY <1>0, <1>4, <2>1, UpdateEffect
<1>5. CASE wr.kind = "delete"
  <2>1. /\ TableNames \subseteq DOMAIN e /\ DOMAIN e.member \subseteq DOMAIN d.member
        /\ \A m \in DOMAIN e.member : /\ DOMAIN e.member[m] = DOMAIN d.member[m]
                                      /\ \A k \in DOMAIN d.member[m] : e.member[m][k] = d.member[m][k]
    BY <1>5, LessMembers
  <2>2. ASSUME NEW m \in DOMAIN e.member
        PROVE  DOMAIN e.member[m] = {"user", "tenant"} /\ m = <<e.member[m].user, e.member[m].tenant>>
    <3>1. DOMAIN d.member[m] = {"user", "tenant"} /\ m = <<d.member[m].user, d.member[m].tenant>>
      BY <2>1 DEF Keyed
    <3>2. e.member[m].user = d.member[m].user /\ e.member[m].tenant = d.member[m].tenant
      BY <2>1, <3>1
    <3> QED BY <2>1, <3>1, <3>2
  <2> QED BY <2>1, <2>2 DEF Keyed
<1> QED BY <1>1, <1>2, <1>3, <1>4, <1>5 DEF Fits

LEMMA DoneMembers ==
  ASSUME NEW s, NEW c, NEW x, IsSeq(x.writes), NEW d, TableNames \subseteq DOMAIN d, Keyed(d.member),
         \A i \in DOMAIN x.writes : Fits(s, c, x.writes[i])
  PROVE  Keyed(Done(d, x).member)
<1> DEFINE at(n) == Result(d, x)[n]
           K == { n \in Nat : TableNames \subseteq DOMAIN at(n) /\ Keyed(at(n).member) }
<1>0. PICK N \in Nat : N = Len(x.writes) /\ DOMAIN x.writes = 1..N
  BY DEF IsSeq
<1>1. at(0) = d /\ \A n \in 1..N : at(n) = Effect(at(n-1), x.writes[n])
  BY <1>0, ResultSteps
<1>2. 0 \in K
  BY <1>1
<1>3. ASSUME NEW n \in 1..N, n-1 \in K
      PROVE  n \in K
  <2> DEFINE p == at(n-1)
             q == at(n)
             wr == x.writes[n]
  <2>1. Fits(s, c, wr) /\ q = Effect(p, wr)
    BY <1>0, <1>1
  <2>2. TableNames \subseteq DOMAIN p /\ Keyed(p.member)
    BY <1>3
  <2>h. TableNames \subseteq DOMAIN q /\ Keyed(q.member) => n \in K
    OBVIOUS
  <2> HIDE DEF p, q, wr, K, at
  <2> QED BY <2>1, <2>2, <2>h, EffectMembers
<1>4. 0..N \subseteq K
  <2> HIDE DEF K, at
  <2> QED BY <1>2, <1>3, Upwards
<1>5. N \in 0..N
  OBVIOUS
<1> QED BY <1>0, <1>4, <1>5 DEF Done

LEMMA CommitMembers ==
  ASSUME NEW s \in Scenarios, Consistent(s), Typed, SessionInv, NEW w \in Workers, Commit(w), Keyed(db.member)
  PROVE  Keyed(db'.member)
<1> DEFINE t == work[w].todo
           op == work[w].req.op
           x == Head(t)
<1>1. /\ Awaits(s, Used(s), clean, db, clean /\ ~work[w].stale, op, t)
      /\ t # <<>> /\ x.kind = "tx" /\ db' = Done(db, x) /\ Op(w) = op /\ Todo(w) = t
  BY DEF Consistent, Commit, Busy, Op, Todo
<1>2. TableNames \subseteq DOMAIN db
  BY Tabled
<1> HIDE DEF t, op
<1>3. CASE IsSeq(x.writes) /\ \A i \in DOMAIN x.writes : Fits(s, clean, x.writes[i])
  BY <1>1, <1>2, <1>3, DoneMembers DEF x
<1>4. CASE PlainTodo(s, clean, t)
  <2>1. 1 \in DOMAIN t /\ x = t[1]
    BY <1>1, <1>4 DEF PlainTodo, IsSeq
  <2>2. PlainItem(s, clean, x)
    BY <1>4, <2>1 DEF PlainTodo
  <2> QED BY <1>1, <1>3, <2>2 DEF PlainItem, PlainWrites, Plain, Steady
<1>5. CASE Decided(s, Used(s), clean, db, clean /\ ~work[w].stale, t)
  <2>1. PICK wr : t = <<Tx(<<wr>>)>> /\ Fits(s, clean, wr)
    BY <1>5 DEF Decided
  <2>2. x.writes = <<wr>>
    BY <2>1 DEF Tx
  <2>3. IsSeq(x.writes) /\ \A i \in DOMAIN x.writes : x.writes[i] = wr
    <3> HIDE DEF x
    <3>1. x.writes \in Seq({wr})
      BY <2>2
    <3> QED BY <3>1, SeqOf
  <2> QED BY <1>3, <2>1, <2>3
<1>6. CASE Personal(s, clean, op, t)
  BY <1>3, <1>6 DEF Personal, SteadyItem, Steady
<1>7. CASE op \in BrowserOps
  <2>1. PICK b, n : Remembers(w, b, n)
    BY <1>1, <1>7, BrowserCommits
  <2> DEFINE wr == Update("user", [id |-> Visitor], [hash |-> b])
  <2>2. x = Tx(<<wr>>)
    BY <1>1, <2>1 DEF Remembers, Remember
  <2>3. Fits(s, clean, wr)
    BY DEF Update, Fits
  <2>4. x.writes = <<wr>>
    BY <2>2 DEF Tx
  <2> HIDE DEF wr, x
  <2>5. IsSeq(x.writes) /\ \A i \in DOMAIN x.writes : x.writes[i] = wr
    <3>1. x.writes \in Seq({wr})
      BY <2>4
    <3> QED BY <3>1, SeqOf
  <2> QED BY <1>3, <2>3, <2>5
<1> QED BY <1>1, <1>4, <1>5, <1>6, <1>7 DEF Awaits, Going

-----------------------------------------------------------------------------
(* What a check of the tenants leaves to be done gives the account a tenant. *)
LEMMA DoneNone ==
  ASSUME NEW d
  PROVE  Done(d, Tx(<<>>)) = d
<1> DEFINE tx == Tx(<<>>)
<1>1. Len(tx.writes) = 0
  BY DEF Tx
<1>2. Result(d, tx)[0] = d
  <2>1. Len(tx.writes) \in Nat
    BY <1>1
  <2> HIDE DEF tx
  <2> QED BY <2>1, ResultSteps
<1> HIDE DEF tx
<1>3. Done(d, tx) = d
  BY <1>1, <1>2 DEF Done
<1> QED BY <1>3 DEF tx

Exchanged(d, u, out, in) ==
    LET less == IF out = {} THEN d ELSE Effect(d, Delete("member", { <<u, t>> : t \in out }))
    IN  IF in = {} THEN less ELSE Effect(less, Insert("member", MemberRows(u, in)))

LEMMA ExchangeHolds ==
  ASSUME NEW d, TableNames \subseteq DOMAIN d, Keyed(d.member), NEW u, NEW asked, asked # {},
         NEW now, now = { d.member[m].tenant : m \in Memberships(d, u) }
  PROVE  Holds(Exchanged(d, u, now \ asked, asked \ now), u)
<1> DEFINE out == now \ asked
           in == asked \ now
           cut == Delete("member", { <<u, t>> : t \in out })
           less == IF out = {} THEN d ELSE Effect(d, cut)
           wr == Insert("member", MemberRows(u, in))
           e == IF in = {} THEN less ELSE Effect(less, wr)
<1>0. "member" \in TableNames
  BY DEF TableNames
<1>1. /\ TableNames \subseteq DOMAIN less /\ DOMAIN less.member \subseteq DOMAIN d.member
      /\ \A m \in DOMAIN less.member : less.member[m].user = d.member[m].user
      /\ \A m \in DOMAIN d.member : (\A t \in out : m # <<u, t>>) => m \in DOMAIN less.member
  <2>1. CASE out = {}
    BY <2>1
  <2>2. CASE out # {}
    <3>1. cut.kind = "delete" /\ cut.table = "member" /\ cut.ids = { <<u, t>> : t \in out }
      BY DEF Delete
    <3>2. less = Effect(d, cut)
      BY <2>2
    <3> HIDE DEF cut, less
    <3>3. /\ TableNames \subseteq DOMAIN less /\ DOMAIN less.member = DOMAIN d.member \ cut.ids
          /\ \A m \in DOMAIN less.member :
               \A c \in DOMAIN d.member[m] : less.member[m][c] = d.member[m][c]
      BY <3>1, <3>2, LessMembers
    <3>4. ASSUME NEW m \in DOMAIN less.member PROVE less.member[m].user = d.member[m].user
      <4>1. m \in DOMAIN d.member /\ "user" \in DOMAIN d.member[m]
        BY <3>3 DEF Keyed
      <4> QED BY <3>3, <4>1
    <3> QED BY <3>1, <3>3, <3>4
  <2> QED BY <2>1, <2>2
<1>2. PICK t \in asked : TRUE
  OBVIOUS
<1>3. CASE t \in now
  <2>1. PICK m \in Memberships(d, u) : d.member[m].tenant = t
    BY <1>3
  <2>2. m \in DOMAIN d.member /\ d.member[m].user = u
    BY <2>1 DEF Memberships
  <2>3. m = <<u, t>>
    BY <2>1, <2>2 DEF Keyed
  <2>4. \A o \in out : m # <<u, o>>
    BY <2>3
  <2>5. m \in DOMAIN less.member /\ less.member[m].user = u
    BY <1>1, <2>2, <2>4
  <2>6. CASE in = {}
    BY <2>5, <2>6 DEF Exchanged, Holds, Memberships
  <2>7. CASE in # {}
    <3>1. wr.kind = "insert" /\ wr.table = "member"
      BY DEF Insert
    <3>2. e = Effect(less, wr)
      BY <2>7
    <3>3. "member" \in DOMAIN less
      BY <1>0, <1>1
    <3>h. Exchanged(d, u, out, in) = e
      BY DEF Exchanged
    <3> HIDE DEF wr, less, e, out, in
    <3>4. m \in DOMAIN e.member /\ e.member[m] = less.member[m]
      BY <2>5, <3>1, <3>2, <3>3, MoreMembers
    <3> QED BY <2>5, <3>4, <3>h DEF Holds, Memberships, out, in
  <2> QED BY <2>6, <2>7
<1>4. CASE t \notin now
  <2> DEFINE m == <<u, t>>
             rows == MemberRows(u, in)
  <2>1. t \in in /\ in # {}
    BY <1>4
  <2>2. wr.kind = "insert" /\ wr.table = "member" /\ wr.rows = rows
    BY DEF Insert
  <2>3. e = Effect(less, wr) /\ "member" \in DOMAIN less
    BY <1>0, <1>1, <2>1
  <2>4. m \in DOMAIN rows /\ rows[m].user = u
    <3> HIDE DEF in
    <3>1. /\ DOMAIN MemberRows(u, in) = { <<u, x>> : x \in in }
          /\ \A x \in in : MemberRows(u, in)[<<u, x>>].user = u
      BY DEF MemberRows
    <3> QED BY <2>1, <3>1
  <2>5. m \in DOMAIN less.member => less.member[m].user = u
    <3> SUFFICES ASSUME m \in DOMAIN less.member PROVE less.member[m].user = u
      OBVIOUS
    <3>1. m \in DOMAIN d.member /\ less.member[m].user = d.member[m].user
      BY <1>1
    <3>2. m = <<d.member[m].user, d.member[m].tenant>>
      BY <3>1 DEF Keyed
    <3> QED BY <3>1, <3>2
  <2>h. Exchanged(d, u, out, in) = e
    BY DEF Exchanged
  <2> HIDE DEF m, rows, wr, less, e, out, in
  <2>6. /\ m \in DOMAIN e.member
        /\ m \in DOMAIN less.member => e.member[m] = less.member[m]
        /\ m \notin DOMAIN less.member => e.member[m] = rows[m]
    <3>1. /\ DOMAIN e.member = DOMAIN wr.rows \cup DOMAIN less.member
          /\ \A k \in DOMAIN less.member : e.member[k] = less.member[k]
          /\ \A k \in DOMAIN wr.rows \ DOMAIN less.member : e.member[k] = wr.rows[k]
      BY <2>2, <2>3, MoreMembers
    <3> QED BY <2>2, <2>4, <3>1
  <2>7. e.member[m].user = u
    BY <2>4, <2>5, <2>6
  <2> QED BY <2>6, <2>7, <2>h DEF Holds, Memberships, out, in
<1> QED BY <1>3, <1>4

LEMMA SyncMembers ==
  ASSUME NEW s, Consistent(s), Typed, MemberInv, NEW w \in Workers, SyncTenantMemberships(w), ~Abandon(w),
         ~work[w].scope.super
  PROVE  Tenanted(db, work[w].req.id, Todo(w)', TRUE)
<1> DEFINE r == work[w].req
           u == r.id
           asked == AskedTenants(r, work[w].scope)
           now == MembersOf(u)
           out == now \ asked
           in == asked \ now
           cut == Delete("member", { <<u, t>> : t \in out })
           give == Insert("member", MemberRows(u, in))
           x == Tx(<< cut >>)
           y == Tx(IF asked \subseteq now THEN <<>> ELSE << give >>)
           first == IF now \subseteq asked THEN <<>> ELSE << x >>
           todo == IF ~Asks(r, work[w].scope) THEN << Tx(<<>>) >> ELSE first \o << y >>
<1>1. Todo(w)' = todo /\ TenantsAllowed(r, work[w].scope)
  <2>1. TenantsAllowed(r, work[w].scope)
    BY DEF SyncTenantMemberships
  <2>2. work' = [work EXCEPT ![w].stale = FALSE, ![w].todo = todo]
    BY <2>1 DEF SyncTenantMemberships
  <2> HIDE DEF todo
  <2>3. work'[w].todo = todo
    BY <2>2 DEF Typed
  <2> QED BY <2>1, <2>3 DEF Todo
<1>2. TableNames \subseteq DOMAIN db /\ Keyed(db.member)
  BY Tabled DEF MemberInv
<1>3. CASE ~Asks(r, work[w].scope)
  <2>1. now # {}
    BY <1>1, <1>3 DEF TenantsAllowed
  <2>2. Holds(db, u)
    BY <2>1 DEF Holds, MembersOf
  <2> DEFINE one == Tx(<<>>)
  <2>3. one.kind = "tx"
    BY DEF Tx
  <2>4. todo = << one >>
    BY <1>3
  <2>5. Done(db, one) = db
    BY DoneNone
  <2> HIDE DEF todo, one, u
  <2>6. todo # <<>> /\ Head(todo) = one /\ Tail(todo) = <<>>
    BY <2>4
  <2> QED BY <1>1, <2>2, <2>3, <2>5, <2>6 DEF Tenanted, Closes, u
<1>4. CASE Asks(r, work[w].scope)
  <2>1. asked # {}
    BY <1>1, <1>4 DEF TenantsAllowed
  <2>2. now = { db.member[m].tenant : m \in Memberships(db, u) }
    BY DEF MembersOf
  <2>3. Holds(Exchanged(db, u, out, in), u)
    <3> HIDE DEF now, asked, u
    <3> QED BY <1>2, <2>1, <2>2, ExchangeHolds
  <2>4. /\ (now \subseteq asked <=> out = {}) /\ (asked \subseteq now <=> in = {})
        /\ x.kind = "tx" /\ y.kind = "tx"
    BY DEF Tx
  <2>5. \A d : Done(d, x) = Effect(d, cut)
    <3> HIDE DEF cut
    <3> QED BY DoneOne
  <2>6. \A d : Done(d, y) = IF in = {} THEN d ELSE Effect(d, give)
    <3> HIDE DEF give
    <3>1. in = {} => y = Tx(<<>>)
      BY <2>4
    <3>2. in # {} => y = Tx(<< give >>)
      BY <2>4
    <3> HIDE DEF y
    <3> QED BY <3>1, <3>2, DoneOne, DoneNone
  <2>7. todo = first \o << y >> /\ first = IF out = {} THEN <<>> ELSE << x >>
    BY <1>4, <2>4
  <2>8. out = {} => Exchanged(db, u, out, in) = Done(db, y)
    BY <2>6 DEF Exchanged
  <2>9. out # {} => Exchanged(db, u, out, in) = Done(Done(db, x), y)
    BY <2>5, <2>6 DEF Exchanged
  <2> HIDE DEF x, y, todo, first, u, out, in
  <2>10. IsSeq(<< y >>) /\ << y >> # <<>> /\ Head(<< y >>) = y /\ Tail(<< y >>) = <<>> /\ <<>> \o << y >> = << y >>
    <3> DEFINE z == << y >>
    <3>1. z \in Seq({y}) /\ z # <<>> /\ Head(z) = y /\ Tail(z) = <<>> /\ \A t \in Seq({y}) : <<>> \o t = t
      OBVIOUS
    <3> HIDE DEF z
    <3>2. IsSeq(z) /\ z # <<>> /\ Head(z) = y /\ Tail(z) = <<>> /\ <<>> \o z = z
      BY <3>1, SeqOf
    <3> QED BY <3>2 DEF z
  <2>11. CASE out = {}
    <3>1. todo = << y >>
      BY <2>7, <2>10, <2>11
    <3> QED BY <1>1, <2>3, <2>4, <2>8, <2>10, <2>11, <3>1 DEF Tenanted, Closes, u
  <2>12. CASE out # {}
    <3>1. todo = << x >> \o << y >>
      BY <2>7, <2>12
    <3>2. todo # <<>> /\ Head(todo) = x /\ Tail(todo) = << y >>
      BY <2>10, <3>1, HeadTail
    <3> QED BY <1>1, <2>3, <2>4, <2>9, <2>10, <2>12, <3>2 DEF Tenanted, Takes, u
  <2> QED BY <2>11, <2>12
<1> QED BY <1>3, <1>4

-----------------------------------------------------------------------------
(* Every step keeps this, and a request that ends has kept it.              *)
Ends(v) ==
    /\ Op(v) \in MemberOps /\ ~work[v].scope.super /\ ~work[v].stale /\ ~lost' /\ work'[v] = Idle
    => Holds(db', work[v].req.id)

Owes(w) == Op(w) \in MemberOps /\ ~work[w].scope.super

LEMMA SameTenanted ==
  ASSUME MemberInv, NEW v \in Workers, Same(v)
  PROVE  Ends(v) /\ (Owes(v)' => Tenanted(db', work'[v].req.id, Todo(v)', ~work'[v].stale))
<1>1. Op(v)' = Op(v) /\ Todo(v)' = Todo(v)
  BY SameViews
<1>2. Ends(v)
  BY <1>1 DEF Ends, Op, Idle, NoRequest, MemberOps
<1>3. ASSUME Owes(v)' PROVE Tenanted(db', work'[v].req.id, Todo(v)', ~work'[v].stale)
  <2>1. Tenanted(db, work[v].req.id, Todo(v), ~work[v].stale)
    BY <1>1, <1>3 DEF MemberInv, Owes, Same
  <2>2. Todo(v) # <<>>
    BY <2>1 DEF Tenanted, Starts, Checks, Takes, Closes
  <2>3. ~work'[v].stale => ~work[v].stale /\ db' = db
    BY <2>2 DEF Same, Todo
  <2>4. work'[v].req.id = work[v].req.id
    BY DEF Same
  <2> QED BY <1>1, <2>1, <2>3, <2>4 DEF Tenanted
<1> QED BY <1>2, <1>3

LEMMA MembersKeep ==
  ASSUME MemberInv, Keyed(db'.member),
         \A v \in Workers : Same(v) \/ (Ends(v) /\ (Owes(v)' =>
           Tenanted(db', work'[v].req.id, Todo(v)', ~work'[v].stale)))
  PROVE  MemberInv' /\ \A v \in Workers : Ends(v)
<1>1. ASSUME NEW v \in Workers
      PROVE  Ends(v) /\ (Owes(v)' => Tenanted(db', work'[v].req.id, Todo(v)', ~work'[v].stale))
  BY SameTenanted
<1>2. MemberInv'
  BY <1>1 DEF MemberInv, Owes
<1> QED BY <1>1, <1>2

-----------------------------------------------------------------------------
(* The steps, one by one.                                                   *)
LEMMA OwesBusy ==
  ASSUME MemberInv, NEW w \in Workers, Owes(w)
  PROVE  /\ Todo(w) # <<>> /\ Tenanted(db, work[w].req.id, Todo(w), ~work[w].stale)
         /\ Head(Todo(w)).kind \in {"tx", "sync"}
<1>1. Tenanted(db, work[w].req.id, Todo(w), ~work[w].stale)
  BY DEF MemberInv, Owes
<1>2. Sync.kind = "sync"
  BY DEF Sync
<1> QED BY <1>1, <1>2 DEF Tenanted, Starts, Checks, Takes, Closes

LEMMA QuietMembers ==
  ASSUME MemberInv, UNCHANGED <<db, work>>
  PROVE  MemberInv' /\ \A v \in Workers : Ends(v)
<1>1. \A v \in Workers : Same(v)
  BY DEF Same
<1>2. Keyed(db'.member)
  BY DEF MemberInv
<1> QED BY <1>1, <1>2, MembersKeep

LEMMA LostMembers ==
  ASSUME MemberInv, lost', db' = db, \A v \in Workers : work'[v] = Idle \/ Same(v)
  PROVE  MemberInv' /\ \A v \in Workers : Ends(v)
<1>1. ASSUME NEW v \in Workers, work'[v] = Idle PROVE Ends(v) /\ ~Owes(v)'
  BY <1>1 DEF Ends, Owes, Op, Idle, NoRequest, MemberOps
<1>2. Keyed(db'.member)
  BY DEF MemberInv
<1> QED BY <1>1, <1>2, MembersKeep

LEMMA AbandonMembers ==
  ASSUME Typed, MemberInv, NEW w \in Workers, Abandon(w)
  PROVE  MemberInv' /\ \A v \in Workers : Ends(v)
<1>1. work' = [work EXCEPT ![w] = Idle] /\ lost' /\ db' = db
  BY DEF Abandon
<1>2. work'[w] = Idle /\ \A v \in Workers \ {w} : work'[v] = work[v]
  BY <1>1 DEF Typed
<1>3. \A v \in Workers \ {w} : Same(v)
  BY <1>1, <1>2 DEF Same
<1> QED BY <1>1, <1>2, <1>3, LostMembers

LEMMA BeginMembers ==
  ASSUME Typed, MemberInv, NEW w \in Workers, NEW r, NEW todo, Begin(w, r, todo),
         r.op \in MemberOps => Starts(todo)
  PROVE  MemberInv' /\ \A v \in Workers : Ends(v)
<1>1. /\ work'[w].req = r /\ work'[w].todo = todo /\ Todo(w) = <<>> /\ db' = db
      /\ \A v \in Workers \ {w} : Same(v)
  BY BeginSelf
<1>2. ~Owes(w)
  BY <1>1, OwesBusy
<1>3. Ends(w)
  BY <1>2 DEF Ends, Owes
<1>4. Owes(w)' => Tenanted(db', work'[w].req.id, Todo(w)', ~work'[w].stale)
  BY <1>1 DEF Owes, Op, Todo, Tenanted
<1>5. Keyed(db'.member)
  BY <1>1 DEF MemberInv
<1> QED BY <1>1, <1>3, <1>4, <1>5, MembersKeep

LEMMA ServeMembers ==
  ASSUME Typed, MemberInv, NEW w \in Workers, Serve(w)
  PROVE  MemberInv' /\ \A v \in Workers : Ends(v)
<1>1. PICK r : \/ AgentRequest(w, r) \/ UserRequest(w, r) \/ TenantRequest(w, r) \/ RoutingRequest(w, r)
               \/ NetworkRequest(w, r) \/ SessionRequest(w, r)
  BY DEF Serve
<1>2. ASSUME NEW x, x.kind = "tx" PROVE Starts(<< x, Sync >>)
  BY <1>2 DEF Starts
<1>3. CASE Other(w, r)
  BY <1>3, BeginMembers DEF Other, Begins, MemberOps, AccountOps
<1>4. CASE CreateUser(w, r)
  <2> DEFINE x == Tx(<< Save("user", r.id,
                       [email |-> r.dto.email, role |-> r.dto.role, active |-> r.dto.active,
                        password |-> "new", hash |-> Nil]) >>)
  <2>1. Begin(w, r, << x, Sync >>) /\ x.kind = "tx"
    BY <1>4 DEF CreateUser, Tx
  <2> HIDE DEF x
  <2> QED BY <1>2, <2>1, BeginMembers
<1>5. CASE UpdateUser(w, r)
  <2> DEFINE x == Tx(<< SaveAccount(r.id,
                       [Account(r.id) EXCEPT !.email = New(r, "email", @), !.role = New(r, "role", @),
                                             !.active = New(r, "active", @)]) >>)
  <2>1. Begin(w, r, << x, Sync >>) /\ x.kind = "tx"
    BY <1>5 DEF UpdateUser, Tx
  <2> HIDE DEF x
  <2> QED BY <1>2, <2>1, BeginMembers
<1>6. CASE ResetPassword(w, r) \/ EnsureDefaultRoles(w, r)
  <2>1. r.op \notin MemberOps /\ Begins(w, r)
    BY <1>6 DEF ResetPassword, EnsureDefaultRoles, MemberOps, Begins
  <2> QED BY <2>1, BeginMembers DEF Begins
<1>7. CASE SessionRequest(w, r)
  <2>1. r.op \notin MemberOps /\ Begins(w, r)
    BY <1>7 DEF SessionRequest, Login, Refresh, Logout, IssueTokenBundle, MemberOps, Begins
  <2> QED BY <2>1, BeginMembers DEF Begins
<1>8. CASE UserRequest(w, r)
  BY <1>3, <1>4, <1>5, <1>6, <1>8, OtherUser DEF UserRequest
<1> QED BY <1>1, <1>3, <1>7, <1>8, OtherAgent, OtherTenant, OtherRouting, OtherNetwork

LEMMA StillMembers ==
  ASSUME Typed, MemberInv, NEW w \in Workers, Busy(w), Head(work[w].todo).kind \notin {"tx", "sync"},
         NEW changed \in BOOLEAN, Advance(w, Tail(work[w].todo), changed), db' = db
  PROVE  MemberInv' /\ \A v \in Workers : Ends(v)
<1> DEFINE rest == Tail(work[w].todo)
<1>1. ~Owes(w)
  BY OwesBusy DEF Todo
<1>2. Advance(w, rest, changed)
  OBVIOUS
<1> HIDE DEF rest
<1>3. /\ rest = <<>> => Op(w)' = "none"
      /\ rest # <<>> => work'[w].req = work[w].req /\ work'[w].scope = work[w].scope
  BY <1>2, AdvanceSelf
<1>4. ~Owes(w)'
  BY <1>1, <1>3 DEF Owes, Op, MemberOps
<1>5. Ends(w)
  BY <1>1 DEF Ends, Owes
<1>6. \A v \in Workers \ {w} : Same(v)
  BY <1>2, AdvanceSame
<1>7. Keyed(db'.member)
  BY DEF MemberInv
<1> QED BY <1>4, <1>5, <1>6, <1>7, MembersKeep

LEMMA CommitKeepsMembers ==
  ASSUME NEW s \in Scenarios, Consistent(s), Typed, SessionInv, MemberInv, NEW w \in Workers, Commit(w)
  PROVE  MemberInv' /\ \A v \in Workers : Ends(v)
<1> DEFINE rest == Tail(work[w].todo)
           changed == db' # db
           t == Todo(w)
           u == work[w].req.id
<1>1. Advance(w, rest, changed) /\ changed \in BOOLEAN /\ (db' # db => changed)
      /\ t # <<>> /\ Head(t).kind = "tx" /\ db' = Done(db, Head(t)) /\ rest = Tail(t)
  BY DEF Commit, Busy, Todo
<1> HIDE DEF rest, changed
<1>2. /\ Todo(w)' = rest
      /\ rest = <<>> => Op(w)' = "none"
      /\ rest # <<>> => work'[w].req = work[w].req /\ work'[w].scope = work[w].scope
                        /\ work'[w].stale = work[w].stale
  BY <1>1, AdvanceSelf
<1>3. \A v \in Workers \ {w} : Same(v)
  BY <1>1, AdvanceSame
<1>4. Keyed(db'.member)
  BY CommitMembers DEF MemberInv
<1>5. Owes(w) => \/ Starts(t) /\ rest # <<>>
                 \/ Takes(t) /\ rest # <<>> /\ (~work[w].stale => Holds(Done(db', Head(rest)), u))
                 \/ Closes(t) /\ rest = <<>> /\ (~work[w].stale => Holds(db', u))
  <2> SUFFICES ASSUME Owes(w)
               PROVE  \/ Starts(t) /\ rest # <<>>
                      \/ Takes(t) /\ rest # <<>> /\ (~work[w].stale => Holds(Done(db', Head(rest)), u))
                      \/ Closes(t) /\ rest = <<>> /\ (~work[w].stale => Holds(db', u))
    OBVIOUS
  <2>1. Tenanted(db, u, t, ~work[w].stale)
    BY OwesBusy
  <2>2. ~Checks(t)
    BY <1>1 DEF Checks, Sync
  <2> HIDE DEF t, u
  <2> QED BY <1>1, <2>1, <2>2 DEF Tenanted, Starts, Takes, Closes
<1>6. Ends(w)
  <2> SUFFICES ASSUME Owes(w), ~work[w].stale, work'[w] = Idle PROVE Holds(db', u)
    BY DEF Ends, Owes
  <2>1. Op(w)' = "none"
    BY DEF Op, Idle, NoRequest
  <2>2. rest = <<>>
    BY <1>2, <2>1 DEF Owes, MemberOps, Op
  <2> QED BY <1>5, <2>2
<1>7. Owes(w)' => Tenanted(db', work'[w].req.id, Todo(w)', ~work'[w].stale)
  <2> SUFFICES ASSUME Owes(w)' PROVE Tenanted(db', work'[w].req.id, Todo(w)', ~work'[w].stale)
    OBVIOUS
  <2>1. rest # <<>> /\ Owes(w)
    BY <1>2 DEF Owes, Op, MemberOps
  <2>2. work'[w].req.id = u /\ work'[w].stale = work[w].stale /\ Todo(w)' = rest
    BY <1>2, <2>1
  <2>3. Tenanted(db', u, rest, ~work[w].stale)
    <3> HIDE DEF t, u
    <3> QED BY <1>1, <1>5, <2>1 DEF Tenanted, Starts, Checks, Takes, Closes
  <2> QED BY <2>2, <2>3
<1> QED BY <1>3, <1>4, <1>6, <1>7, MembersKeep

LEMMA SyncKeepsMembers ==
  ASSUME NEW s, Consistent(s), Typed, MemberInv, NEW w \in Workers, SyncTenantMemberships(w)
  PROVE  MemberInv' /\ \A v \in Workers : Ends(v)
<1>1. CASE Abandon(w)
  BY <1>1, AbandonMembers
<1>2. CASE ~Abandon(w)
  <2>1. PICK todo : work' = [work EXCEPT ![w].stale = FALSE, ![w].todo = todo] /\ db' = db
    BY <1>2, SyncTodo
  <2>2. /\ \A v \in Workers \ {w} : work'[v] = work[v]
        /\ work'[w].stale = FALSE /\ work'[w].req = work[w].req /\ work'[w].scope = work[w].scope
    BY <2>1 DEF Typed
  <2>3. \A v \in Workers \ {w} : Same(v)
    BY <2>1, <2>2 DEF Same
  <2>4. Ends(w)
    BY <2>2 DEF Ends, Op, Idle, NoRequest, MemberOps
  <2>5. Owes(w)' => Tenanted(db', work'[w].req.id, Todo(w)', ~work'[w].stale)
    <3> SUFFICES ASSUME Owes(w)' PROVE Tenanted(db', work'[w].req.id, Todo(w)', ~work'[w].stale)
      OBVIOUS
    <3>1. ~work[w].scope.super
      BY <2>2 DEF Owes
    <3>2. Tenanted(db, work[w].req.id, Todo(w)', TRUE)
      BY <1>2, <3>1, SyncMembers
    <3> QED BY <2>1, <2>2, <3>2
  <2>6. Keyed(db'.member)
    BY <2>1 DEF MemberInv
  <2> QED BY <2>3, <2>4, <2>5, <2>6, MembersKeep
<1> QED BY <1>1, <1>2

LEMMA StepMembers ==
  ASSUME NEW s \in Scenarios, Consistent(s), Typed, SessionInv, MemberInv, [Next]_vars
  PROVE  MemberInv' /\ \A v \in Workers : Ends(v)
<1>1. CASE UNCHANGED vars
  BY <1>1, QuietMembers DEF vars, consoleVars
<1>2. ASSUME NEW w \in Workers, Continue(w)
      PROVE  MemberInv' /\ \A v \in Workers : Ends(v)
  <2>1. CASE Statement(w)
    BY <2>1, StatementIs, AbandonMembers, CommitKeepsMembers
  <2>2. CASE SyncTenantMemberships(w)
    BY <2>2, SyncKeepsMembers
  <2>3. CASE NetworkStep(w)
    BY <2>3, NetworkIs, AbandonMembers, StillMembers
  <2> QED BY <1>2, <2>1, <2>2, <2>3 DEF Continue
<1>3. CASE SessionStep
  <2>1. ASSUME NEW w \in Workers, Answer(w) PROVE MemberInv' /\ \A v \in Workers : Ends(v)
    <3>1. /\ Busy(w) /\ Head(work[w].todo).kind = "reply" /\ db' = db
          /\ Advance(w, Tail(work[w].todo), FALSE)
      BY <2>1 DEF Answer, Step, Rest
    <3> QED BY <3>1, StillMembers
  <2>2. CASE Expire
    BY <2>2, QuietMembers DEF Expire
  <2>3. ASSUME NEW r, Deny(r) PROVE UNCHANGED <<db, work>>
    BY <2>3 DEF Deny
  <2>4. ASSUME NEW t, SignIn(t) \/ OpenPage(t) \/ CallApi(t) \/ SignOut(t) \/ NoAnswer(t)
        PROVE  UNCHANGED <<db, work>>
    BY <2>4 DEF SignIn, OpenPage, CallApi, SignOut, NoAnswer, AskRefresh, Ask
  <2> QED BY <1>3, <2>1, <2>2, <2>3, <2>4, QuietMembers DEF SessionStep
<1>4. CASE Crash
  <2>1. work' = [w \in Workers |-> Idle] /\ lost' /\ db' = db
    BY <1>4 DEF Crash
  <2>2. \A v \in Workers : work'[v] = Idle
    BY <2>1
  <2> QED BY <2>1, <2>2, LostMembers
<1>5. CASE LateCommand
  BY <1>5, QuietMembers DEF LateCommand
<1> QED BY <1>1, <1>2, <1>3, <1>4, <1>5, ServeMembers DEF Next

LEMMA InitMembers ==
  ASSUME Init
  PROVE  MemberInv
<1>1. PICK s \in Scenarios : db = s.db
  BY DEF Init
<1>2. Keyed(db.member)
  BY <1>1, SessionsAssumption DEF Keyed
<1>3. \A w \in Workers : ~Owes(w)
  BY DEF Init, Owes, Op, Idle, NoRequest, MemberOps
<1> QED BY <1>2, <1>3 DEF MemberInv, Owes

(* An account has a tenant when the request that made or changed it is over,  *)
(* unless its sender is a super admin, it failed on its way, or others wrote  *)
(* after it checked; and the role of super admin is given by super admins.   *)
THEOREM AccountsStaySound == Spec => AccountsSound
<1>1. Init => MemberInv
  BY InitMembers
<1>2. (ConsoleInv /\ SessionInv) /\ MemberInv /\ [Next]_vars =>
        MemberInv' /\ \A v \in Workers : Ends(v)
  BY StepMembers DEF ConsoleInv
<1>3. (\A v \in Workers : Ends(v)) =>
        [\A w \in Workers :
           /\ Scoped(w) /\ ~work[w].stale /\ ~lost'
           /\ work[w].req.op \in {"createUser", "updateUser"} /\ work[w] # Idle /\ work'[w] = Idle
           => Memberships(db', work[w].req.id) # {} ]_vars
  BY DEF Ends, Holds, Op, MemberOps, Scoped
<1>4. Spec => AccountsKeepTenants
  BY <1>1, <1>2, <1>3, SessionInvariant, PTL DEF Spec, AccountsKeepTenants
<1> QED BY <1>4, SupersByQualified, PTL DEF AccountsSound
=============================================================================
