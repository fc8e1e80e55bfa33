---------------------------- MODULE CallFlowProofs ----------------------------
(***************************************************************************)
(* Proofs about CallFlow: for any tables, callers, numbers and menus, and  *)
(* any tariffs.                                                            *)
(***************************************************************************)
EXTENDS CallFlow, BillingCostProofs, WellFoundedInduction

-----------------------------------------------------------------------------
(* The invariant.                                                          *)
Fixed == {"tenants", "users", "inbound", "rules", "billing", "routing"}
Early == {"dialled", "asked", "menu"}

(* The tables are those of one world; only the rules change, once the call *)
(* is up.                                                                  *)
TablesKept(w) ==
  /\ \A table \in Fixed : db[table] = w.db[table]
  /\ {"outbound"} \cup Fixed \subseteq DOMAIN db
  /\ db.outbound \in Seq(OutboundRow)
  /\ phase \in Early => db = w.db

(* Every request carries what FreeSWITCH was told of the caller.           *)
CallerKept(w) ==
  IF phase = "dialled" THEN call = [caller |-> w.caller, destination |-> w.destination] /\ plan = NoPlan
  ELSE /\ call.domain = w.caller.domain
       /\ DOMAIN call = {"destination", "caller", "domain", "context"}
       /\ IF w.caller.user = Nobody THEN call.context = w.caller.context
          ELSE call.context = directoryXML(w.caller.user, w.caller.domain).context

(* Before an answer nothing is admitted.                                   *)
Waiting ==
  phase \in Early =>
    /\ state = "asked" /\ allowance = NoAllowance("insufficient") /\ seconds = 0
    /\ plan.app \in {"none", "ivr"}
    /\ phase = "asked" => Reads(RoutePlan(call)) = [config |-> config, balance |-> balance, route |-> route]

(* The custom rule for a request, and the users of the tenant it may mean. *)
CustomOf(c) == IF c.destination = <<>> THEN {}
               ELSE resolveForDestination(TenantOf(c), c.destination, c.context)
LocalOf(c)  == LocalPlans(TenantOf(c), Domain(TenantOf(c)), c.destination)

(* What was answered is the answer to the last request.                    *)
Answered ==
  phase \notin {"dialled", "asked"} =>
    /\ plan.tenantId = TenantOf(call)
    /\ phase = "menu" => RouteOf(call) # {}
    /\ RouteOf(call) = {} =>
         \/ CustomOf(call) = {} /\ \E p \in LocalOf(call) : plan.app = p.app /\ plan.to = p.to /\ plan.via = p.via
         \/ (CustomOf(call) # {} \/ LocalOf(call) = {}) /\ plan.app # "user"

(* The rule of an admitted call keeps its tariff and may stop billing.     *)
RuleKept ==
  /\ plan.rule = NoRule => ~route.billingEnabled
  /\ \A r \in Rule(plan.rule) :
       /\ r.tenantId = plan.tenantId /\ r.billing.tariff = route.tariff
       /\ r.billing.billingEnabled => route.billingEnabled

Admitted ==
  allowance.type # "insufficient" =>
    /\ phase \notin Early /\ plan.app = "gateway" /\ RouteOf(call) = {}
    /\ config = db.billing[plan.tenantId].tariff /\ config \in Tariff
    /\ route \in BillingOf /\ balance \in Int
    /\ allowance = calculatePrepaidAllowance(balance, Applied)
    /\ allowance.type = "limited" =>
         /\ seconds <= hangupSeconds(allowance) + 1
         /\ phase = "talking" => "sched_hangup" \in ToSet(plan.onAnswer)
    /\ \E w \in Worlds : db.tenants = w.db.tenants /\ plan.via \in GatewaysOf(w.db) \cup {""}
    /\ RuleKept

(* Which leg a record is of, and that it has no agent without a tenant.    *)
Recorded ==
  /\ phase = "recorded" /\ record.leg = "B" => record.entity.leg = "B"
  /\ phase = "recorded" =>
       /\ record.entity.billSeconds \in Nat /\ record.entity.answered \in BOOLEAN
       /\ record.entity.tenantId = "" => record.entity.agentId = ""

FlowInv ==
  /\ seconds \in Nat
  /\ \E w \in Worlds : TablesKept(w) /\ CallerKept(w)
  /\ Waiting /\ Answered /\ Admitted /\ Recorded

-----------------------------------------------------------------------------
(* The first of a list.                                                    *)
LEMMA Least == ASSUME NEW S, S \subseteq Nat, S # {} PROVE \E x \in S : \A y \in S : x <= y
<1> DEFINE R == {ss \in Nat \X Nat : ss[1] < ss[2]}
<1>1. IsWellFoundedOn(R, Nat)
  BY NatLessThanWellFounded DEF OpToRel
<1> HIDE DEF R
<1>2. PICK x \in S : \A y \in S : ~ (<<y, x>> \in R)
  BY <1>1, WFMin
<1>3. ASSUME NEW y \in S PROVE x <= y
  <2>1. ~ (y < x)
    BY <1>2 DEF R
  <2> QED BY <2>1
<1> QED BY <1>3

LEMMA EarliestAmong ==
  ASSUME NEW rows, NEW chosen
  PROVE  Earliest(rows, chosen) \subseteq chosen \cap ToSet(rows)
  BY DEF Earliest, ToSet

LEMMA EarliestExists ==
  ASSUME NEW rows, rows \in Seq(ToSet(rows)), NEW chosen, NEW x \in ToSet(rows), x \in chosen
  PROVE  Earliest(rows, chosen) # {}
<1> DEFINE hits == {k \in DOMAIN rows : rows[k] \in chosen}
<1>1. DOMAIN rows = 1 .. Len(rows) /\ Len(rows) \in Nat
  OBVIOUS
<1>2. hits \subseteq Nat /\ hits # {}
  BY <1>1 DEF ToSet
<1>3. PICK i \in hits : \A j \in hits : i <= j
  <2> HIDE DEF hits
  <2> QED BY <1>2, Least
<1>4. \A j \in 1 .. i - 1 : rows[j] \notin chosen
  BY <1>1, <1>3
<1> QED BY <1>3, <1>4 DEF Earliest

LEMMA EarliestOne ==
  ASSUME NEW rows, rows \in Seq(ToSet(rows)), NEW chosen,
         NEW x \in Earliest(rows, chosen), NEW y \in Earliest(rows, chosen)
  PROVE  x = y
<1>1. PICK i \in DOMAIN rows : x = rows[i] /\ rows[i] \in chosen /\ \A j \in 1 .. i - 1 : rows[j] \notin chosen
  BY DEF Earliest
<1>2. PICK k \in DOMAIN rows : y = rows[k] /\ rows[k] \in chosen /\ \A j \in 1 .. k - 1 : rows[j] \notin chosen
  BY DEF Earliest
<1>3. DOMAIN rows = 1 .. Len(rows) /\ Len(rows) \in Nat
  OBVIOUS
<1> QED BY <1>1, <1>2, <1>3

(* The first alternative that offers something.                            *)
LEMMA FirstFoundAt ==
  ASSUME NEW alts, DOMAIN alts \subseteq Nat, NEW i \in DOMAIN alts, alts[i] # {},
         \A j \in DOMAIN alts : j < i => alts[j] = {}
  PROVE  FirstFound(alts) = alts[i]
<1> DEFINE found == {j \in DOMAIN alts : alts[j] # {}}
<1>1. i \in found /\ \A j \in found : i <= j
  OBVIOUS
<1>2. (CHOOSE k \in found : \A j \in found : k <= j) = i
  BY <1>1
<1> QED BY <1>1, <1>2 DEF FirstFound

LEMMA FirstFoundNone ==
  ASSUME NEW alts, \A i \in DOMAIN alts : alts[i] = {}
  PROVE  FirstFound(alts) = {}
  BY DEF FirstFound

LEMMA FirstOf2 ==
  ASSUME NEW a, NEW b
  PROVE  FirstFound(<<a, b>>) =
           IF a # {} THEN a ELSE b
<1> DEFINE alts == <<a, b>>
<1>0. DOMAIN alts = 1 .. 2 /\ DOMAIN alts \subseteq Nat
  OBVIOUS
<1>9. alts[1] = a /\ alts[2] = b
  OBVIOUS
<1> HIDE DEF alts
<1>1. CASE a # {}
  <2>1. 1 \in DOMAIN alts /\ alts[1] # {} /\ \A j \in DOMAIN alts : j < 1 => alts[j] = {}
    BY <1>0, <1>9, <1>1
  <2>2. FirstFound(alts) = alts[1]
    BY <1>0, <2>1, FirstFoundAt
  <2> QED BY <1>9, <1>1, <2>2 DEF alts
<1>2. CASE a = {} /\ b # {}
  <2>1. 2 \in DOMAIN alts /\ alts[2] # {} /\ \A j \in DOMAIN alts : j < 2 => alts[j] = {}
    BY <1>0, <1>9, <1>2
  <2>2. FirstFound(alts) = alts[2]
    BY <1>0, <2>1, FirstFoundAt
  <2> QED BY <1>9, <1>2, <2>2 DEF alts
<1>3. CASE a = {} /\ b = {}
  <2>1. FirstFound(alts) = {}
    BY <1>0, <1>9, <1>3, FirstFoundNone
  <2> QED BY <1>3, <2>1 DEF alts
<1> QED BY <1>1, <1>2, <1>3

LEMMA FirstOf3 ==
  ASSUME NEW a, NEW b, NEW c
  PROVE  FirstFound(<<a, b, c>>) =
           IF a # {} THEN a ELSE IF b # {} THEN b ELSE c
<1> DEFINE alts == <<a, b, c>>
<1>0. DOMAIN alts = 1 .. 3 /\ DOMAIN alts \subseteq Nat
  OBVIOUS
<1>9. alts[1] = a /\ alts[2] = b /\ alts[3] = c
  OBVIOUS
<1> HIDE DEF alts
<1>1. CASE a # {}
  <2>1. 1 \in DOMAIN alts /\ alts[1] # {} /\ \A j \in DOMAIN alts : j < 1 => alts[j] = {}
    BY <1>0, <1>9, <1>1
  <2>2. FirstFound(alts) = alts[1]
    BY <1>0, <2>1, FirstFoundAt
  <2> QED BY <1>9, <1>1, <2>2 DEF alts
<1>2. CASE a = {} /\ b # {}
  <2>1. 2 \in DOMAIN alts /\ alts[2] # {} /\ \A j \in DOMAIN alts : j < 2 => alts[j] = {}
    BY <1>0, <1>9, <1>2
  <2>2. FirstFound(alts) = alts[2]
    BY <1>0, <2>1, FirstFoundAt
  <2> QED BY <1>9, <1>2, <2>2 DEF alts
<1>3. CASE a = {} /\ b = {} /\ c # {}
  <2>1. 3 \in DOMAIN alts /\ alts[3] # {} /\ \A j \in DOMAIN alts : j < 3 => alts[j] = {}
    BY <1>0, <1>9, <1>3
  <2>2. FirstFound(alts) = alts[3]
    BY <1>0, <2>1, FirstFoundAt
  <2> QED BY <1>9, <1>3, <2>2 DEF alts
<1>4. CASE a = {} /\ b = {} /\ c = {}
  <2>1. FirstFound(alts) = {}
    BY <1>0, <1>9, <1>4, FirstFoundNone
  <2> QED BY <1>4, <2>1 DEF alts
<1> QED BY <1>1, <1>2, <1>3, <1>4

LEMMA FirstOf4 ==
  ASSUME NEW a, NEW b, NEW c, NEW d
  PROVE  FirstFound(<<a, b, c, d>>) =
           IF a # {} THEN a ELSE IF b # {} THEN b ELSE IF c # {} THEN c ELSE d
<1> DEFINE alts == <<a, b, c, d>>
<1>0. DOMAIN alts = 1 .. 4 /\ DOMAIN alts \subseteq Nat
  OBVIOUS
<1>9. alts[1] = a /\ alts[2] = b /\ alts[3] = c /\ alts[4] = d
  OBVIOUS
<1> HIDE DEF alts
<1>1. CASE a # {}
  <2>1. 1 \in DOMAIN alts /\ alts[1] # {} /\ \A j \in DOMAIN alts : j < 1 => alts[j] = {}
    BY <1>0, <1>9, <1>1
  <2>2. FirstFound(alts) = alts[1]
    BY <1>0, <2>1, FirstFoundAt
  <2> QED BY <1>9, <1>1, <2>2 DEF alts
<1>2. CASE a = {} /\ b # {}
  <2>1. 2 \in DOMAIN alts /\ alts[2] # {} /\ \A j \in DOMAIN alts : j < 2 => alts[j] = {}
    BY <1>0, <1>9, <1>2
  <2>2. FirstFound(alts) = alts[2]
    BY <1>0, <2>1, FirstFoundAt
  <2> QED BY <1>9, <1>2, <2>2 DEF alts
<1>3. CASE a = {} /\ b = {} /\ c # {}
  <2>1. 3 \in DOMAIN alts /\ alts[3] # {} /\ \A j \in DOMAIN alts : j < 3 => alts[j] = {}
    BY <1>0, <1>9, <1>3
  <2>2. FirstFound(alts) = alts[3]
    BY <1>0, <2>1, FirstFoundAt
  <2> QED BY <1>9, <1>3, <2>2 DEF alts
<1>4. CASE a = {} /\ b = {} /\ c = {} /\ d # {}
  <2>1. 4 \in DOMAIN alts /\ alts[4] # {} /\ \A j \in DOMAIN alts : j < 4 => alts[j] = {}
    BY <1>0, <1>9, <1>4
  <2>2. FirstFound(alts) = alts[4]
    BY <1>0, <2>1, FirstFoundAt
  <2> QED BY <1>9, <1>4, <2>2 DEF alts
<1>5. CASE a = {} /\ b = {} /\ c = {} /\ d = {}
  <2>1. FirstFound(alts) = {}
    BY <1>0, <1>9, <1>5, FirstFoundNone
  <2> QED BY <1>5, <2>1 DEF alts
<1> QED BY <1>1, <1>2, <1>3, <1>4, <1>5

LEMMA FirstOf5 ==
  ASSUME NEW a, NEW b, NEW c, NEW d, NEW e
  PROVE  FirstFound(<<a, b, c, d, e>>) =
           IF a # {} THEN a ELSE IF b # {} THEN b ELSE IF c # {} THEN c ELSE IF d # {} THEN d ELSE e
<1> DEFINE alts == <<a, b, c, d, e>>
<1>0. DOMAIN alts = 1 .. 5 /\ DOMAIN alts \subseteq Nat
  OBVIOUS
<1>9. alts[1] = a /\ alts[2] = b /\ alts[3] = c /\ alts[4] = d /\ alts[5] = e
  OBVIOUS
<1> HIDE DEF alts
<1>1. CASE a # {}
  <2>1. 1 \in DOMAIN alts /\ alts[1] # {} /\ \A j \in DOMAIN alts : j < 1 => alts[j] = {}
    BY <1>0, <1>9, <1>1
  <2>2. FirstFound(alts) = alts[1]
    BY <1>0, <2>1, FirstFoundAt
  <2> QED BY <1>9, <1>1, <2>2 DEF alts
<1>2. CASE a = {} /\ b # {}
  <2>1. 2 \in DOMAIN alts /\ alts[2] # {} /\ \A j \in DOMAIN alts : j < 2 => alts[j] = {}
    BY <1>0, <1>9, <1>2
  <2>2. FirstFound(alts) = alts[2]
    BY <1>0, <2>1, FirstFoundAt
  <2> QED BY <1>9, <1>2, <2>2 DEF alts
<1>3. CASE a = {} /\ b = {} /\ c # {}
  <2>1. 3 \in DOMAIN alts /\ alts[3] # {} /\ \A j \in DOMAIN alts : j < 3 => alts[j] = {}
    BY <1>0, <1>9, <1>3
  <2>2. FirstFound(alts) = alts[3]
    BY <1>0, <2>1, FirstFoundAt
  <2> QED BY <1>9, <1>3, <2>2 DEF alts
<1>4. CASE a = {} /\ b = {} /\ c = {} /\ d # {}
  <2>1. 4 \in DOMAIN alts /\ alts[4] # {} /\ \A j \in DOMAIN alts : j < 4 => alts[j] = {}
    BY <1>0, <1>9, <1>4
  <2>2. FirstFound(alts) = alts[4]
    BY <1>0, <2>1, FirstFoundAt
  <2> QED BY <1>9, <1>4, <2>2 DEF alts
<1>5. CASE a = {} /\ b = {} /\ c = {} /\ d = {} /\ e # {}
  <2>1. 5 \in DOMAIN alts /\ alts[5] # {} /\ \A j \in DOMAIN alts : j < 5 => alts[j] = {}
    BY <1>0, <1>9, <1>5
  <2>2. FirstFound(alts) = alts[5]
    BY <1>0, <2>1, FirstFoundAt
  <2> QED BY <1>9, <1>5, <2>2 DEF alts
<1>6. CASE a = {} /\ b = {} /\ c = {} /\ d = {} /\ e = {}
  <2>1. FirstFound(alts) = {}
    BY <1>0, <1>9, <1>6, FirstFoundNone
  <2> QED BY <1>6, <2>1 DEF alts
<1> QED BY <1>1, <1>2, <1>3, <1>4, <1>5, <1>6

LEMMA FirstOf6 ==
  ASSUME NEW a, NEW b, NEW c, NEW d, NEW e, NEW f
  PROVE  FirstFound(<<a, b, c, d, e, f>>) =
           IF a # {} THEN a ELSE IF b # {} THEN b ELSE IF c # {} THEN c ELSE IF d # {} THEN d ELSE IF e # {} THEN e ELSE f
<1> DEFINE alts == <<a, b, c, d, e, f>>
<1>0. DOMAIN alts = 1 .. 6 /\ DOMAIN alts \subseteq Nat
  OBVIOUS
<1>9. alts[1] = a /\ alts[2] = b /\ alts[3] = c /\ alts[4] = d /\ alts[5] = e /\ alts[6] = f
  OBVIOUS
<1> HIDE DEF alts
<1>1. CASE a # {}
  <2>1. 1 \in DOMAIN alts /\ alts[1] # {} /\ \A j \in DOMAIN alts : j < 1 => alts[j] = {}
    BY <1>0, <1>9, <1>1
  <2>2. FirstFound(alts) = alts[1]
    BY <1>0, <2>1, FirstFoundAt
  <2> QED BY <1>9, <1>1, <2>2 DEF alts
<1>2. CASE a = {} /\ b # {}
  <2>1. 2 \in DOMAIN alts /\ alts[2] # {} /\ \A j \in DOMAIN alts : j < 2 => alts[j] = {}
    BY <1>0, <1>9, <1>2
  <2>2. FirstFound(alts) = alts[2]
    BY <1>0, <2>1, FirstFoundAt
  <2> QED BY <1>9, <1>2, <2>2 DEF alts
<1>3. CASE a = {} /\ b = {} /\ c # {}
  <2>1. 3 \in DOMAIN alts /\ alts[3] # {} /\ \A j \in DOMAIN alts : j < 3 => alts[j] = {}
    BY <1>0, <1>9, <1>3
  <2>2. FirstFound(alts) = alts[3]
    BY <1>0, <2>1, FirstFoundAt
  <2> QED BY <1>9, <1>3, <2>2 DEF alts
<1>4. CASE a = {} /\ b = {} /\ c = {} /\ d # {}
  <2>1. 4 \in DOMAIN alts /\ alts[4] # {} /\ \A j \in DOMAIN alts : j < 4 => alts[j] = {}
    BY <1>0, <1>9, <1>4
  <2>2. FirstFound(alts) = alts[4]
    BY <1>0, <2>1, FirstFoundAt
  <2> QED BY <1>9, <1>4, <2>2 DEF alts
<1>5. CASE a = {} /\ b = {} /\ c = {} /\ d = {} /\ e # {}
  <2>1. 5 \in DOMAIN alts /\ alts[5] # {} /\ \A j \in DOMAIN alts : j < 5 => alts[j] = {}
    BY <1>0, <1>9, <1>5
  <2>2. FirstFound(alts) = alts[5]
    BY <1>0, <2>1, FirstFoundAt
  <2> QED BY <1>9, <1>5, <2>2 DEF alts
<1>6. CASE a = {} /\ b = {} /\ c = {} /\ d = {} /\ e = {} /\ f # {}
  <2>1. 6 \in DOMAIN alts /\ alts[6] # {} /\ \A j \in DOMAIN alts : j < 6 => alts[j] = {}
    BY <1>0, <1>9, <1>6
  <2>2. FirstFound(alts) = alts[6]
    BY <1>0, <2>1, FirstFoundAt
  <2> QED BY <1>9, <1>6, <2>2 DEF alts
<1>7. CASE a = {} /\ b = {} /\ c = {} /\ d = {} /\ e = {} /\ f = {}
  <2>1. FirstFound(alts) = {}
    BY <1>0, <1>9, <1>7, FirstFoundNone
  <2> QED BY <1>7, <2>1 DEF alts
<1> QED BY <1>1, <1>2, <1>3, <1>4, <1>5, <1>6, <1>7

-----------------------------------------------------------------------------
(* Tenants.  What the lemmas use of the tables.                            *)
TablesSound ==
  /\ \A list \in Fixed \cap Lists : db[list] \in Seq(ToSet(db[list]))
  /\ Tenants # {}
  /\ \A s, t \in Tenants : s.id = t.id \/ s.domain = t.domain => s = t
  /\ \A t \in Tenants :
       t.domain # "" /\ db.billing[t.id] \in [prepaidEnabled : BOOLEAN, balance : Int, tariff : Tariff]
  /\ \A u \in ToSet(db.users) : \E t \in Tenants : t.id = u.tenantId

LEMMA WorldsSound ==
  ASSUME NEW w \in Worlds, TablesKept(w)
  PROVE  TablesSound
<1>1. KeysKept(w.db)
  BY WorldsAssumption
<1>2. /\ db.tenants = w.db.tenants /\ db.users = w.db.users /\ db.billing = w.db.billing
      /\ \A list \in Fixed : db[list] = w.db[list]
  BY DEF TablesKept, Fixed
<1>3. \A list \in Fixed \cap Lists : db[list] \in Seq(ToSet(db[list]))
  BY <1>1, <1>2 DEF KeysKept
<1>4. Tenants # {}
  <2>1. w.db.tenants \in Seq(ToSet(w.db.tenants)) /\ w.db.tenants # <<>>
    BY <1>1 DEF KeysKept, Lists
  <2>2. 1 \in DOMAIN w.db.tenants
    BY <2>1
  <2> QED BY <1>2, <2>2 DEF Tenants, ToSet
<1>5. Tenants = ToSet(w.db.tenants) /\ ToSet(db.users) = ToSet(w.db.users)
  BY <1>2 DEF Tenants
<1>6. \A s, t \in Tenants : s.id = t.id \/ s.domain = t.domain => s = t
  BY <1>1, <1>5 DEF KeysKept
<1>7. \A t \in Tenants :
       t.domain # "" /\ db.billing[t.id] \in [prepaidEnabled : BOOLEAN, balance : Int, tariff : Tariff]
  BY <1>1, <1>2, <1>5 DEF KeysKept
<1>8. \A u \in ToSet(db.users) : \E t \in Tenants : t.id = u.tenantId
  BY <1>1, <1>5 DEF KeysKept
<1> QED BY <1>3, <1>4, <1>6, <1>7, <1>8 DEF TablesSound

(* The tenant that a request is resolved to, in the order of what is       *)
(* looked at (resolveTenant).                                              *)
LEMMA Resolved ==
  ASSUME TablesSound, NEW domain, NEW context, NEW destination, NEW user
  PROVE  LET t      == resolveTenant(domain, context, destination, user)
             owners == OwnersOf(findUserForDestination(destination))
         IN  /\ t \in Tenants
             /\ TenantsOf(domain) # {} => t \in TenantsOf(domain)
             /\ TenantsOf(domain) = {} /\ Exists(context) => t.id = context
             /\ TenantsOf(domain) = {} /\ ~Exists(context) /\ owners # {} => t \in owners
<1> DEFINE t == resolveTenant(domain, context, destination, user)
           a == Earliest(db.tenants, TenantsOf(domain))
           b == Earliest(db.tenants, {x \in Tenants : x.id = context})
           c == OwnersOf(findUserForDestination(destination))
           d == OwnersOf(Earliest(db.users, UsersCalled(user)))
           e == Earliest(db.tenants, Tenants)
           found == FirstFound(<<a, b, c, d, e>>)
<1>1. t = CHOOSE x \in found : TRUE
  BY DEF resolveTenant
<1>2. db.tenants \in Seq(ToSet(db.tenants)) /\ Tenants = ToSet(db.tenants)
  BY DEF TablesSound, Fixed, Lists, Tenants
<1>3. a \subseteq TenantsOf(domain) /\ (TenantsOf(domain) # {} => a # {})
  BY <1>2, EarliestAmong, EarliestExists DEF TenantsOf
<1>4. b \subseteq {x \in Tenants : x.id = context} /\ (Exists(context) => b # {})
  <2> DEFINE S == {x \in Tenants : x.id = context}
  <2>1. b \subseteq S
    BY EarliestAmong
  <2>2. ASSUME NEW x \in S PROVE b # {}
    <3>1. x \in ToSet(db.tenants)
      BY <1>2
    <3> QED BY <1>2, <3>1, EarliestExists
  <2> QED BY <2>1, <2>2 DEF Exists
<1>5. c \subseteq Tenants /\ d \subseteq Tenants
  BY DEF OwnersOf
<1>6. e \subseteq Tenants /\ e # {}
  BY ZenonT(30), <1>2, EarliestAmong, EarliestExists DEF TablesSound
<1> HIDE DEF a, b, c, d, e
<1>7. found = IF a # {} THEN a ELSE IF b # {} THEN b ELSE IF c # {} THEN c ELSE IF d # {} THEN d ELSE e
  BY FirstOf5
<1> HIDE DEF found, t
<1>8. t \in found
  BY <1>1, <1>6, <1>7
<1>9. t \in Tenants
  BY <1>3, <1>4, <1>5, <1>6, <1>7, <1>8 DEF TenantsOf
<1>10. TenantsOf(domain) # {} => t \in TenantsOf(domain)
  BY <1>3, <1>7, <1>8
<1>11. TenantsOf(domain) = {} /\ Exists(context) => t.id = context
  BY <1>3, <1>4, <1>7, <1>8
<1>12. TenantsOf(domain) = {} /\ ~Exists(context) /\ c # {} => t \in c
  BY <1>3, <1>4, <1>7, <1>8 DEF Exists
<1> QED BY <1>9, <1>10, <1>11, <1>12 DEF t, c

LEMMA DomainOf ==
  ASSUME TablesSound, NEW t \in Tenants
  PROVE  Domain(t.id) = t.domain
<1>1. \A s \in Tenants : s.id = t.id => s = t
  BY DEF TablesSound
<1>2. (CHOOSE s \in Tenants : s.id = t.id) = t
  BY <1>1
<1> QED BY <1>2 DEF Domain

(* A domain is that of one tenant.                                         *)
LEMMA DomainResolved ==
  ASSUME TablesSound, NEW t \in Tenants, NEW context, NEW destination, NEW user
  PROVE  resolveTenant(t.domain, context, destination, user) = t
<1>1. t \in TenantsOf(t.domain)
  BY DEF TenantsOf, TablesSound
<1>2. resolveTenant(t.domain, context, destination, user) \in TenantsOf(t.domain)
  BY <1>1, Resolved
<1> QED BY <1>2 DEF TenantsOf, TablesSound

(* The routes of a number.                                                 *)
LEMMA RouteInTenants ==
  ASSUME TablesSound, NEW number, NEW ids, NEW r \in findInboundRoute(number, ids)
  PROVE  r.tenantId \in ids /\ \A s \in findInboundRoute(number, ids) : s = r
<1> DEFINE chosen == {x \in ToSet(db.inbound) : x.enabled /\ x.didNumber = number /\ x.tenantId \in ids}
<1>1. db.inbound \in Seq(ToSet(db.inbound))
  BY DEF TablesSound, Fixed, Lists
<1>2. findInboundRoute(number, ids) = Earliest(db.inbound, chosen)
  BY DEF findInboundRoute
<1>3. r \in chosen
  BY <1>2, EarliestAmong
<1>4. \A s \in Earliest(db.inbound, chosen) : s = r
  <2> HIDE DEF chosen
  <2> QED BY <1>1, <1>2, EarliestOne
<1> QED BY <1>2, <1>3, <1>4

LEMMA RoutesKnown ==
  ASSUME TablesSound, NEW c, NEW r \in RouteOf(c)
  PROVE  Exists(r.tenantId) /\ \A s \in RouteOf(c) : s = r
<1> DEFINE resolved == resolveTenant(c.domain, c.context, c.destination, Nobody)
           ids == {t.id : t \in Tenants}
           anywhere == findInboundRoute(c.destination, ids)
           within == findInboundRoute(c.destination, {resolved.id})
<1>1. RouteOf(c) = IF c.destination = <<>> THEN {} ELSE FirstFound(<<anywhere, within>>)
  BY DEF RouteOf
<1>3. \A x \in anywhere : x.tenantId \in ids /\ \A y \in anywhere : x = y
  BY RouteInTenants
<1>4. resolved.id \in ids
  <2>1. resolved \in Tenants
    BY Resolved
  <2> QED BY <2>1
<1>5. \A x \in within : x.tenantId = resolved.id /\ \A y \in within : x = y
  BY RouteInTenants
<1>6. FirstFound(<<anywhere, within>>) = IF anywhere # {} THEN anywhere ELSE within
  <2> HIDE DEF anywhere, within
  <2> QED BY FirstOf2
<1>7. (r \in anywhere /\ RouteOf(c) = anywhere) \/ (r \in within /\ RouteOf(c) = within)
  BY <1>1, <1>6
<1>8. r.tenantId \in ids /\ \A s \in RouteOf(c) : s = r
  <2> HIDE DEF anywhere, within, ids
  <2> QED BY <1>3, <1>4, <1>5, <1>7
<1> QED BY <1>8 DEF Exists

(* The tenant of a request is a tenant.                                    *)
LEMMA TenantKnown ==
  ASSUME TablesSound, NEW c
  PROVE  /\ Exists(TenantOf(c))
         /\ \A r \in RouteOf(c) : r.tenantId = TenantOf(c)
         /\ RouteOf(c) = {} => TenantOf(c) = resolveTenant(c.domain, c.context, c.destination, Nobody).id
<1>1. CASE RouteOf(c) = {}
  <2>1. TenantOf(c) = resolveTenant(c.domain, c.context, c.destination, Nobody).id
    BY <1>1 DEF TenantOf
  <2>2. resolveTenant(c.domain, c.context, c.destination, Nobody) \in Tenants
    BY Resolved
  <2> QED BY <1>1, <2>1, <2>2 DEF Exists
<1>2. CASE RouteOf(c) # {}
  <2> DEFINE r == CHOOSE r \in RouteOf(c) : TRUE
  <2>1. r \in RouteOf(c) /\ TenantOf(c) = r.tenantId
    BY <1>2 DEF TenantOf
  <2> HIDE DEF r
  <2> QED BY <1>2, <2>1, RoutesKnown
<1> QED BY <1>1, <1>2

-----------------------------------------------------------------------------
(* Plans.                                                                  *)
IsPlan(p) ==
  p = [app |-> p.app, to |-> p.to, via |-> p.via, tenantId |-> p.tenantId,
       rule |-> p.rule, onAnswer |-> p.onAnswer]

LEMMA PlanIs ==
  ASSUME NEW app, NEW to, NEW via, NEW tenantId
  PROVE  LET p == Plan(app, to, via, tenantId)
         IN  /\ IsPlan(p) /\ p.app = app /\ p.to = to /\ p.via = via /\ p.tenantId = tenantId
             /\ p.rule = NoRule /\ p.onAnswer = <<>>
  BY DEF Plan, IsPlan

LEMMA RecordingKeeps ==
  ASSUME NEW p, IsPlan(p), NEW defer
  PROVE  LET q == buildRecordingActions(p, defer)
         IN  /\ IsPlan(q) /\ q.app = p.app /\ q.to = p.to /\ q.via = p.via
             /\ q.tenantId = p.tenantId /\ q.rule = p.rule
             /\ q.onAnswer = p.onAnswer \/ q.onAnswer = Append(p.onAnswer, "record_session")
  BY DEF buildRecordingActions, IsPlan

LEMMA RecordedPlan ==
  ASSUME NEW app, NEW to, NEW via, NEW tenantId, NEW defer
  PROVE  LET q == buildRecordingActions(Plan(app, to, via, tenantId), defer)
         IN  IsPlan(q) /\ q.app = app /\ q.tenantId = tenantId /\ q.rule = NoRule
<1> DEFINE p == Plan(app, to, via, tenantId)
<1>1. IsPlan(p) /\ p.app = app /\ p.tenantId = tenantId /\ p.rule = NoRule
  BY PlanIs
<1> HIDE DEF p
<1>2. LET q == buildRecordingActions(p, defer)
      IN  IsPlan(q) /\ q.app = p.app /\ q.tenantId = p.tenantId /\ q.rule = p.rule
  BY <1>1, RecordingKeeps
<1> QED BY <1>1, <1>2 DEF p

(* What a route leads to is no gateway.                                    *)
LEMMA InboundPlan ==
  ASSUME NEW r
  PROVE  LET p == handleInboundRoute(r)
         IN  IsPlan(p) /\ p.tenantId = r.tenantId /\ p.app # "gateway"
<1> DEFINE defer == RouteCfg(r.tenantId).recordInboundOnAnswer
           to == r.destinationValue
           none == ""
           p == handleInboundRoute(r)
<1>1. CASE r.destinationType = "ivr"
  <2>1. \/ p = Refuse("NORMAL_TEMPORARY_FAILURE", r.tenantId)
        \/ p = buildRecordingActions(Plan("ivr", to, none, r.tenantId), defer)
    BY <1>1 DEF handleInboundRoute
  <2>2. CASE p = Refuse("NORMAL_TEMPORARY_FAILURE", r.tenantId)
    BY <2>2, PlanIs DEF Refuse
  <2>3. CASE p = buildRecordingActions(Plan("ivr", to, none, r.tenantId), defer)
    <3> HIDE DEF p, to, defer, none
    <3>1. IsPlan(p) /\ p.app = "ivr" /\ p.tenantId = r.tenantId
      BY <2>3, RecordedPlan
    <3> QED BY <3>1 DEF p
  <2> QED BY <2>1, <2>2, <2>3
<1>2. CASE r.destinationType = "extension"
  <2>1. p = buildRecordingActions(Plan("user", to, Domain(r.tenantId), r.tenantId), defer)
    BY <1>2 DEF handleInboundRoute
  <2> HIDE DEF p, to, defer
  <2>2. IsPlan(p) /\ p.app = "user" /\ p.tenantId = r.tenantId
    BY <2>1, RecordedPlan
  <2> QED BY <2>2 DEF p
<1>3. CASE r.destinationType = "sip_uri"
  <2>1. p = buildRecordingActions(Plan("uri", to, none, r.tenantId), defer)
    BY <1>3 DEF handleInboundRoute
  <2> HIDE DEF p, to, defer, none
  <2>2. IsPlan(p) /\ p.app = "uri" /\ p.tenantId = r.tenantId
    BY <2>1, RecordedPlan
  <2> QED BY <2>2 DEF p
<1>4. CASE r.destinationType = "voicemail"
  <2>1. p = Plan("voicemail", to, Domain(r.tenantId), r.tenantId)
    BY <1>4 DEF handleInboundRoute
  <2> QED BY <2>1, PlanIs
<1>5. CASE r.destinationType \notin {"ivr", "extension", "sip_uri", "voicemail"}
  <2>1. p = Refuse("UNALLOCATED_NUMBER", r.tenantId)
    BY <1>5 DEF handleInboundRoute
  <2> QED BY <2>1, PlanIs DEF Refuse
<1> QED BY <1>1, <1>2, <1>3, <1>4, <1>5

LEMMA CustomRulePlan ==
  ASSUME NEW r, NEW tenantId
  PROVE  LET p == CustomPlan(r, tenantId)
         IN  IsPlan(p) /\ p.tenantId = tenantId /\ p.app = "actions"
<1> DEFINE cfg   == RouteCfg(tenantId)
           defer == IF r.kind = "external" THEN cfg.recordOutboundOnAnswer ELSE cfg.recordInternalOnAnswer
           none == ""
           plain == Plan("actions", r.actions, none, tenantId)
           p     == CustomPlan(r, tenantId)
<1>1. p = plain \/ p = buildRecordingActions(plain, defer)
  BY DEF CustomPlan
<1>2. CASE p = plain
  <2> HIDE DEF p, none
  <2>1. IsPlan(p) /\ p.app = "actions" /\ p.tenantId = tenantId
    BY <1>2, PlanIs
  <2> QED BY <2>1 DEF p
<1>3. CASE p = buildRecordingActions(plain, defer)
  <2> HIDE DEF p, defer, none
  <2>1. IsPlan(p) /\ p.app = "actions" /\ p.tenantId = tenantId
    BY <1>3, RecordedPlan
  <2> QED BY <2>1 DEF p
<1> QED BY <1>1, <1>2, <1>3

LEMMA LocalPlan ==
  ASSUME NEW tenantId, NEW domain, NEW destination, NEW p \in LocalPlans(tenantId, domain, destination)
  PROVE  /\ IsPlan(p) /\ p.tenantId = tenantId /\ p.app \in {"user", "mailbox"}
         /\ p.app = "user" /\ At(destination) = 0 => HasUser(p.to, tenantId) /\ p.via = domain
         /\ Len(destination) \in 2..6 /\ AllIn(destination, Digit) /\ HasUser(destination, tenantId) =>
              p.to = destination
<1> DEFINE cfg     == RouteCfg(tenantId)
           inside  == AfterPrefix(destination, cfg.internalPrefix)
           mailbox == AfterPrefix(destination, cfg.voicemailPrefix)
           at      == At(destination)
           short   == Len(destination) \in 2..6 /\ AllIn(destination, Digit) /\ HasUser(destination, tenantId)
           a == IF short THEN {Plan("user", destination, domain, tenantId)} ELSE {}
           b == IF inside # Nobody /\ HasUser(inside, tenantId) THEN {Plan("user", inside, domain, tenantId)} ELSE {}
           c == IF mailbox # Nobody /\ HasUser(mailbox, tenantId)
                  THEN {Plan("mailbox", mailbox, domain, tenantId)} ELSE {}
           d == IF at > 1 /\ at < Len(destination)
                  THEN {Plan("user", SubSeq(destination, 1, at - 1), destination[at + 1], tenantId)} ELSE {}
<1>1. LocalPlans(tenantId, domain, destination) = FirstFound(<<a, b, c, d>>)
  BY DEF LocalPlans
<1>2. FirstFound(<<a, b, c, d>>) = IF a # {} THEN a ELSE IF b # {} THEN b ELSE IF c # {} THEN c ELSE d
  <2> HIDE DEF a, b, c, d
  <2> QED BY FirstOf4
<1>3. p \in a \/ (a = {} /\ p \in b) \/ (a = {} /\ p \in c) \/ (a = {} /\ p \in d)
  <2> HIDE DEF a, b, c, d
  <2> QED BY <1>1, <1>2
<1>4. CASE p \in a
  <2>1. short /\ p = Plan("user", destination, domain, tenantId)
    BY <1>4
  <2> QED BY <2>1, PlanIs
<1>5. CASE a = {} /\ p \in b
  <2>1. ~short /\ HasUser(inside, tenantId) /\ p = Plan("user", inside, domain, tenantId)
    BY <1>5
  <2> HIDE DEF inside
  <2> QED BY <2>1, PlanIs
<1>6. CASE a = {} /\ p \in c
  <2>1. ~short /\ p = Plan("mailbox", mailbox, domain, tenantId)
    BY <1>6
  <2> HIDE DEF mailbox
  <2> QED BY <2>1, PlanIs
<1>7. CASE a = {} /\ p \in d
  <2>1. ~short /\ at > 1 /\ p = Plan("user", SubSeq(destination, 1, at - 1), destination[at + 1], tenantId)
    BY <1>7
  <2>2. at # 0
    BY <2>1
  <2> HIDE DEF at
  <2> DEFINE to == SubSeq(destination, 1, at - 1)
             via == destination[at + 1]
  <2>3. p = Plan("user", to, via, tenantId)
    BY <2>1
  <2> HIDE DEF to, via, short
  <2>4. IsPlan(p) /\ p.tenantId = tenantId /\ p.app = "user"
    BY <2>3, PlanIs
  <2> QED BY <2>1, <2>2, <2>4 DEF at, short
<1> QED BY <1>3, <1>4, <1>5, <1>6, <1>7

(* A rule sends a call to its own gateway or the tenant's, the default to  *)
(* the tenant's.                                                           *)
LEMMA RulePlan ==
  ASSUME NEW tenantId, NEW destination, NEW p \in RulePlans(tenantId, destination)
  PROVE  /\ IsPlan(p) /\ p.app = "gateway" /\ p.tenantId = tenantId /\ p.onAnswer = <<>>
         /\ \E r \in ToSet(db.outbound) :
              /\ r.tenantId = tenantId /\ p.rule = r.id
              /\ p.via = r.gateway \/ p.via = RouteCfg(tenantId).pstnGateway
<1>1. PICK r \in MatchedRule(tenantId, destination) :
        p = [Plan("gateway", DialNumber(r, destination),
                  IF r.gateway = "" THEN RouteCfg(tenantId).pstnGateway ELSE r.gateway, tenantId) EXCEPT !.rule = r.id]
  BY DEF RulePlans
<1>2. r \in ToSet(db.outbound) /\ r.tenantId = tenantId
  BY EarliestAmong DEF MatchedRule
<1> DEFINE to  == DialNumber(r, destination)
           via == IF r.gateway = "" THEN RouteCfg(tenantId).pstnGateway ELSE r.gateway
<1>3. p = [Plan("gateway", to, via, tenantId) EXCEPT !.rule = r.id]
  BY <1>1
<1> HIDE DEF to, via
<1>4. /\ IsPlan(p) /\ p.app = "gateway" /\ p.tenantId = tenantId /\ p.onAnswer = <<>>
      /\ p.via = via /\ p.rule = r.id
  BY <1>3 DEF Plan, IsPlan
<1> QED BY <1>2, <1>4 DEF via

LEMMA DefaultPlan ==
  ASSUME NEW tenantId, NEW destination, NEW p \in DefaultPlans(tenantId, destination)
  PROVE  /\ IsPlan(p) /\ p.app = "gateway" /\ p.tenantId = tenantId /\ p.onAnswer = <<>>
         /\ p.rule = NoRule /\ p.via = RouteCfg(tenantId).pstnGateway
<1>1. PICK n : p = Plan("gateway", n, RouteCfg(tenantId).pstnGateway, tenantId)
  BY DEF DefaultPlans
<1> QED BY <1>1, PlanIs

(* The plan of a request, by what there is (dialplanXML).                  *)
LEMMA PlanOfRequest ==
  ASSUME NEW c
  PROVE  LET p == RoutePlan(c)
             T == TenantOf(c)
         IN  /\ RouteOf(c) # {} => \E r \in RouteOf(c) : p = handleInboundRoute(r)
             /\ RouteOf(c) = {} /\ CustomOf(c) # {} => \E r : p = CustomPlan(r, T)
             /\ RouteOf(c) = {} /\ CustomOf(c) = {} /\ LocalOf(c) # {} => p \in LocalOf(c)
             /\ RouteOf(c) = {} /\ CustomOf(c) = {} /\ LocalOf(c) = {} =>
                  \/ p \in RulePlans(T, c.destination)
                  \/ p \in DefaultPlans(T, c.destination)
                  \/ p = Refuse("NO_ROUTE_DESTINATION", T)
<1> DEFINE p == RoutePlan(c)
           T == TenantOf(c)
           i == {handleInboundRoute(r) : r \in RouteOf(c)}
           custom == {CustomPlan(r, T) : r \in CustomOf(c)}
           local == LocalOf(c)
           rule == RulePlans(T, c.destination)
           default == DefaultPlans(T, c.destination)
           none == {Refuse("NO_ROUTE_DESTINATION", T)}
           found == FirstFound(<<i, custom, local, rule, default, none>>)
<1>1. p = CHOOSE x \in found : TRUE
  BY DEF RoutePlan, LocalOf, CustomOf
<1>2. none # {}
  OBVIOUS
<1>3. (i # {} <=> RouteOf(c) # {}) /\ (custom # {} <=> CustomOf(c) # {})
  OBVIOUS
<1>4. found = IF i # {} THEN i ELSE IF custom # {} THEN custom ELSE IF local # {} THEN local
              ELSE IF rule # {} THEN rule ELSE IF default # {} THEN default ELSE none
  <2> HIDE DEF i, custom, local, rule, default, none
  <2> QED BY FirstOf6
<1>5. p \in found
  <2> HIDE DEF i, custom, local, rule, default, none, found, p
  <2> QED BY <1>1, <1>2, <1>4
<1>6. /\ i # {} => p \in i
      /\ i = {} /\ custom # {} => p \in custom
      /\ i = {} /\ custom = {} /\ local # {} => p \in local
      /\ i = {} /\ custom = {} /\ local = {} => p \in rule \/ p \in default \/ p \in none
  <2> HIDE DEF i, custom, local, rule, default, none, found, p
  <2> QED BY <1>4, <1>5
<1> HIDE DEF p
<1>7. RouteOf(c) # {} => \E r \in RouteOf(c) : p = handleInboundRoute(r)
  BY <1>3, <1>6
<1>8. RouteOf(c) = {} /\ CustomOf(c) # {} => \E r : p = CustomPlan(r, T)
  BY <1>3, <1>6
<1>9. RouteOf(c) = {} /\ CustomOf(c) = {} => i = {} /\ custom = {}
  BY <1>3
<1> QED BY <1>6, <1>7, <1>8, <1>9 DEF p

-----------------------------------------------------------------------------
(* A change of the outbound rules changes nothing else: the tenant of a    *)
(* request, its routes, its custom rule and the users it may mean.         *)
FixedKept == \A table \in Fixed : db'[table] = db[table]

LEMMA TablesSame ==
  ASSUME FixedKept
  PROVE  /\ db'.tenants = db.tenants /\ db'.users = db.users /\ db'.inbound = db.inbound
         /\ db'.rules = db.rules /\ db'.routing = db.routing /\ db'.billing = db.billing
         /\ Tenants' = Tenants
<1>1. /\ db'.tenants = db.tenants /\ db'.users = db.users /\ db'.inbound = db.inbound
      /\ db'.rules = db.rules /\ db'.routing = db.routing /\ db'.billing = db.billing
  BY DEF FixedKept, Fixed
<1> QED BY <1>1 DEF Tenants

LEMMA UsersSame ==
  ASSUME FixedKept, NEW id, NEW tenantId
  PROVE  UsersCalled(id)' = UsersCalled(id) /\ HasUser(id, tenantId)' = HasUser(id, tenantId)
  BY TablesSame DEF UsersCalled, HasUser

LEMMA DomainSame ==
  ASSUME FixedKept, NEW id
  PROVE  Domain(id)' = Domain(id) /\ RouteCfg(id)' = RouteCfg(id)
<1>1. Domain(id)' = Domain(id)
  BY TablesSame DEF Domain
<1>2. RouteCfg(id)' = RouteCfg(id)
  BY TablesSame DEF RouteCfg
<1> QED BY <1>1, <1>2

LEMMA FoundSame ==
  ASSUME FixedKept, NEW destination
  PROVE  findUserForDestination(destination)' = findUserForDestination(destination)
<1> DEFINE digits     == DigitsOf(destination)
           candidates == <<destination, digits>> \o [i \in 1..Len(digits) |-> DropFirst(digits, i)]
           users      == [i \in DOMAIN candidates |->
             IF candidates[i] = Nobody THEN {} ELSE Earliest(db.users, UsersCalled(candidates[i]))]
<1>1. findUserForDestination(destination) = FirstFound(users)
  BY DEF findUserForDestination
<1>2. findUserForDestination(destination)' = FirstFound(users')
  BY DEF findUserForDestination
<1>3. \A id : Earliest(db.users, UsersCalled(id))' = Earliest(db.users, UsersCalled(id))
  BY TablesSame, UsersSame
<1>4. users' = users
  <2> HIDE DEF candidates
  <2> QED BY <1>3
<1> HIDE DEF users
<1> QED BY <1>1, <1>2, <1>4

LEMMA ResolvedSame ==
  ASSUME FixedKept, NEW domain, NEW context, NEW destination, NEW user
  PROVE  resolveTenant(domain, context, destination, user)' = resolveTenant(domain, context, destination, user)
<1>1. TenantsOf(domain)' = TenantsOf(domain)
  BY TablesSame DEF TenantsOf
<1>2. \A users : OwnersOf(users)' = OwnersOf(users)
  BY TablesSame DEF OwnersOf
<1>3. OwnersOf(findUserForDestination(destination))' = OwnersOf(findUserForDestination(destination))
  BY <1>2, FoundSame
<1>4. OwnersOf(Earliest(db.users, UsersCalled(user)))' = OwnersOf(Earliest(db.users, UsersCalled(user)))
  BY <1>2, TablesSame, UsersSame
<1>5. Earliest(db.tenants, {t \in Tenants : t.id = context})' = Earliest(db.tenants, {t \in Tenants : t.id = context})
  BY TablesSame
<1> QED BY <1>1, <1>3, <1>4, <1>5, TablesSame DEF resolveTenant

LEMMA RoutesSame ==
  ASSUME FixedKept, NEW c
  PROVE  RouteOf(c)' = RouteOf(c) /\ TenantOf(c)' = TenantOf(c)
<1>1. \A number, ids : findInboundRoute(number, ids)' = findInboundRoute(number, ids)
  BY TablesSame DEF findInboundRoute
<1>2. resolveTenant(c.domain, c.context, c.destination, Nobody)' = resolveTenant(c.domain, c.context, c.destination, Nobody)
  BY ResolvedSame
<1>3. {t.id : t \in Tenants}' = {t.id : t \in Tenants}
  BY TablesSame
<1>4. RouteOf(c)' = RouteOf(c)
  BY <1>1, <1>2, <1>3 DEF RouteOf
<1>5. TenantOf(c)' = TenantOf(c)
  BY <1>2, <1>4 DEF TenantOf
<1> QED BY <1>4, <1>5

LEMMA LocalSame ==
  ASSUME FixedKept, NEW c
  PROVE  CustomOf(c)' = CustomOf(c) /\ LocalOf(c)' = LocalOf(c)
<1>1. \A tenantId, destination, context :
        resolveForDestination(tenantId, destination, context)' = resolveForDestination(tenantId, destination, context)
  BY TablesSame DEF resolveForDestination
<1>2. CustomOf(c)' = CustomOf(c)
  BY <1>1, RoutesSame DEF CustomOf
<1>3. ASSUME NEW tenantId, NEW domain, NEW destination
      PROVE  LocalPlans(tenantId, domain, destination)' = LocalPlans(tenantId, domain, destination)
  <2> DEFINE cfg     == RouteCfg(tenantId)
             inside  == AfterPrefix(destination, cfg.internalPrefix)
             mailbox == AfterPrefix(destination, cfg.voicemailPrefix)
             at      == At(destination)
             p == IF Len(destination) \in 2..6 /\ AllIn(destination, Digit) /\ HasUser(destination, tenantId)
                    THEN {Plan("user", destination, domain, tenantId)} ELSE {}
             q == IF inside # Nobody /\ HasUser(inside, tenantId)
                    THEN {Plan("user", inside, domain, tenantId)} ELSE {}
             r == IF mailbox # Nobody /\ HasUser(mailbox, tenantId)
                    THEN {Plan("mailbox", mailbox, domain, tenantId)} ELSE {}
             s == IF at > 1 /\ at < Len(destination)
                    THEN {Plan("user", SubSeq(destination, 1, at - 1), destination[at + 1], tenantId)} ELSE {}
  <2>1. cfg' = cfg
    BY DomainSame
  <2>2. \A id : HasUser(id, tenantId)' = HasUser(id, tenantId)
    BY UsersSame
  <2>3. inside' = inside /\ mailbox' = mailbox
    BY <2>1
  <2>4. p' = p
    BY <2>2
  <2>5. q' = q
    <3> HIDE DEF inside
    <3> QED BY <2>2, <2>3
  <2>6. r' = r
    <3> HIDE DEF mailbox
    <3> QED BY <2>2, <2>3
  <2>7. s' = s
    OBVIOUS
  <2>8. LocalPlans(tenantId, domain, destination) = FirstFound(<<p, q, r, s>>)
    BY DEF LocalPlans
  <2>9. LocalPlans(tenantId, domain, destination)' = FirstFound(<<p', q', r', s'>>)
    BY DEF LocalPlans
  <2> HIDE DEF p, q, r, s
  <2> QED BY <2>4, <2>5, <2>6, <2>7, <2>8, <2>9
<1>4. LocalOf(c)' = LocalOf(c)
  BY <1>3, DomainSame, RoutesSame DEF LocalOf
<1> QED BY <1>2, <1>4

LEMMA PlanSame ==
  ASSUME db' = db, NEW c
  PROVE  RoutePlan(c)' = RoutePlan(c)
<1>1. FixedKept
  BY DEF FixedKept
<1>2. \A t : RouteCfg(t)' = RouteCfg(t) /\ Domain(t)' = Domain(t)
  BY <1>1, DomainSame
<1>3. \A r : handleInboundRoute(r)' = handleInboundRoute(r)
  BY <1>2 DEF handleInboundRoute
<1>4. \A r, t : CustomPlan(r, t)' = CustomPlan(r, t)
  BY <1>2 DEF CustomPlan
<1>5. \A t, destination : MatchedRule(t, destination)' = MatchedRule(t, destination)
  BY DEF MatchedRule
<1>6. \A t, destination : RulePlans(t, destination)' = RulePlans(t, destination)
  BY <1>2, <1>5 DEF RulePlans
<1>7. \A t, destination : DefaultPlans(t, destination)' = DefaultPlans(t, destination)
  BY ZenonT(30), <1>2 DEF DefaultPlans
<1>8. RouteOf(c)' = RouteOf(c) /\ TenantOf(c)' = TenantOf(c)
  BY <1>1, RoutesSame
<1>9. CustomOf(c)' = CustomOf(c) /\ LocalOf(c)' = LocalOf(c)
  BY <1>1, LocalSame
<1> DEFINE T == TenantOf(c)
           i == {handleInboundRoute(r) : r \in RouteOf(c)}
           custom == {CustomPlan(r, T) : r \in CustomOf(c)}
           local == LocalOf(c)
           rule == RulePlans(T, c.destination)
           default == DefaultPlans(T, c.destination)
           none == {Refuse("NO_ROUTE_DESTINATION", T)}
<1>10. i' = i
  BY <1>3, <1>8
<1>11. custom' = custom
  BY <1>4, <1>8, <1>9
<1>12. rule' = rule /\ default' = default /\ none' = none /\ local' = local
  BY <1>6, <1>7, <1>8, <1>9
<1>13. RoutePlan(c) = CHOOSE p \in FirstFound(<<i, custom, local, rule, default, none>>) : TRUE
  BY DEF RoutePlan, CustomOf, LocalOf
<1>14. RoutePlan(c)' = CHOOSE p \in FirstFound(<<i', custom', local', rule', default', none'>>) : TRUE
  BY DEF RoutePlan, CustomOf, LocalOf
<1> HIDE DEF i, custom, local, rule, default, none
<1> QED BY <1>10, <1>11, <1>12, <1>13, <1>14

LEMMA ReadsSame ==
  ASSUME db' = db, NEW p
  PROVE  Reads(p)' = Reads(p)
  BY DEF Reads, Rule

-----------------------------------------------------------------------------
(* What a request is answered.                                             *)
LEMMA RequestPlan ==
  ASSUME TablesSound, NEW c
  PROVE  LET p == RoutePlan(c)
         IN  /\ IsPlan(p) /\ p.tenantId = TenantOf(c)
             /\ p.app = "ivr" => RouteOf(c) # {}
             /\ p.app = "gateway" =>
                  /\ RouteOf(c) = {} /\ p.onAnswer = <<>>
                  /\ p \in RulePlans(TenantOf(c), c.destination) \/ p \in DefaultPlans(TenantOf(c), c.destination)
             /\ RouteOf(c) = {} =>
                  \/ CustomOf(c) = {} /\ p \in LocalOf(c)
                  \/ (CustomOf(c) # {} \/ LocalOf(c) = {}) /\ p.app # "user"
<1> DEFINE p == RoutePlan(c)
           T == TenantOf(c)
<1> HIDE DEF p
<1>1. CASE RouteOf(c) # {}
  <2>1. PICK r \in RouteOf(c) : p = handleInboundRoute(r)
    BY <1>1, PlanOfRequest DEF p
  <2>2. IsPlan(p) /\ p.tenantId = T /\ p.app # "gateway"
    BY <2>1, InboundPlan, TenantKnown
  <2> QED BY <1>1, <2>2 DEF p
<1>2. CASE RouteOf(c) = {} /\ CustomOf(c) # {}
  <2>1. PICK r : p = CustomPlan(r, T)
    BY <1>2, PlanOfRequest DEF p
  <2>2. IsPlan(p) /\ p.tenantId = T /\ p.app = "actions"
    BY <2>1, CustomRulePlan
  <2> QED BY <1>2, <2>2 DEF p
<1>3. CASE RouteOf(c) = {} /\ CustomOf(c) = {} /\ LocalOf(c) # {}
  <2>1. p \in LocalOf(c)
    BY <1>3, PlanOfRequest DEF p
  <2>2. IsPlan(p) /\ p.tenantId = T /\ p.app \in {"user", "mailbox"}
    BY <2>1, LocalPlan DEF LocalOf
  <2> QED BY <1>3, <2>1, <2>2 DEF p
<1>4. CASE RouteOf(c) = {} /\ CustomOf(c) = {} /\ LocalOf(c) = {}
  <2>1. p \in RulePlans(T, c.destination) \/ p \in DefaultPlans(T, c.destination)
        \/ p = Refuse("NO_ROUTE_DESTINATION", T)
    BY <1>4, PlanOfRequest DEF p
  <2>2. CASE p \in RulePlans(T, c.destination) \/ p \in DefaultPlans(T, c.destination)
    <3>1. IsPlan(p) /\ p.tenantId = T /\ p.app = "gateway" /\ p.onAnswer = <<>>
      <4>1. CASE p \in RulePlans(T, c.destination)
        BY <4>1, RulePlan
      <4>2. CASE p \in DefaultPlans(T, c.destination)
        BY <4>2, DefaultPlan
      <4> QED BY <2>2, <4>1, <4>2
    <3> QED BY <1>4, <2>2, <3>1 DEF p
  <2>3. CASE p = Refuse("NO_ROUTE_DESTINATION", T)
    <3>1. IsPlan(p) /\ p.tenantId = T /\ p.app = "hangup"
      BY <2>3, PlanIs DEF Refuse
    <3> QED BY <1>4, <3>1 DEF p
  <2> QED BY <2>1, <2>2, <2>3
<1> QED BY <1>1, <1>2, <1>3, <1>4

(* A bridge adds what is done on answer to a plan, and nothing else.       *)
LEMMA BridgeKeeps ==
  ASSUME NEW p, IsPlan(p), NEW limited \in BOOLEAN
  PROVE  LET b == BridgePlan(p, limited)
         IN  /\ IsPlan(b) /\ b.app = p.app /\ b.to = p.to /\ b.via = p.via
             /\ b.tenantId = p.tenantId /\ b.rule = p.rule
             /\ p.app = "gateway" /\ p.onAnswer = <<>> /\ limited => "sched_hangup" \in ToSet(b.onAnswer)
<1> DEFINE cfg     == RouteCfg(p.tenantId)
           dialled == IF p.app = "gateway" /\ limited
                        THEN [p EXCEPT !.onAnswer = Append(@, "sched_hangup")] ELSE p
           defer   == IF p.app = "gateway" THEN cfg.recordOutboundOnAnswer ELSE cfg.recordInternalOnAnswer
           b       == BridgePlan(p, limited)
<1>1. /\ IsPlan(dialled) /\ dialled.app = p.app /\ dialled.to = p.to /\ dialled.via = p.via
      /\ dialled.tenantId = p.tenantId /\ dialled.rule = p.rule
  BY DEF IsPlan
<1>2. p.app = "gateway" /\ p.onAnswer = <<>> /\ limited => dialled.onAnswer = <<"sched_hangup">>
  BY DEF IsPlan
<1>3. (b = p /\ p.app # "gateway") \/ b = buildRecordingActions(dialled, defer)
  BY DEF BridgePlan
<1> HIDE DEF dialled, defer, b
<1>4. CASE b = p /\ p.app # "gateway"
  BY <1>4 DEF b
<1>5. CASE b = buildRecordingActions(dialled, defer)
  <2>1. /\ IsPlan(b) /\ b.app = p.app /\ b.to = p.to /\ b.via = p.via
        /\ b.tenantId = p.tenantId /\ b.rule = p.rule
        /\ b.onAnswer = dialled.onAnswer \/ b.onAnswer = Append(dialled.onAnswer, "record_session")
    BY <1>1, <1>5, RecordingKeeps
  <2>2. ASSUME p.app = "gateway", p.onAnswer = <<>>, limited PROVE "sched_hangup" \in ToSet(b.onAnswer)
    <3>1. b.onAnswer = <<"sched_hangup">> \/ b.onAnswer = <<"sched_hangup", "record_session">>
      BY SMTT(30), <1>2, <2>1, <2>2
    <3>2. 1 \in DOMAIN b.onAnswer /\ b.onAnswer[1] = "sched_hangup"
      BY <3>1
    <3> QED BY <3>2 DEF ToSet
  <2> QED BY <2>1, <2>2 DEF b
<1> QED BY <1>3, <1>4, <1>5

(* What is read of the tariff and the balance for a plan, and of the rule  *)
(* that it is made by.                                                     *)
LEMMA RuleRead ==
  ASSUME NEW w \in Worlds, TablesKept(w), db = w.db, NEW c
  PROVE  LET p    == RoutePlan(c)
             read == Reads(p)
         IN  /\ read.config = db.billing[p.tenantId].tariff
             /\ read.config \in Tariff /\ read.balance \in Int
             /\ p.app = "gateway" =>
                  /\ read.route \in BillingOf
                  /\ p.rule = NoRule => ~read.route.billingEnabled
                  /\ \A r \in Rule(p.rule) : r.tenantId = p.tenantId /\ r.billing = read.route
                  /\ p.via \in GatewaysOf(w.db) \cup {""}
<1> DEFINE p == RoutePlan(c)
           read == Reads(p)
           T == TenantOf(c)
           default == db.billing[p.tenantId].tariff
           free == [billingEnabled |-> FALSE, tariff |-> default]
<1>1. TablesSound
  BY WorldsSound
<1>2. p.tenantId = T /\ (p.app = "gateway" =>
        p \in RulePlans(T, c.destination) \/ p \in DefaultPlans(T, c.destination))
  BY <1>1, RequestPlan
<1>3. PICK t \in Tenants : t.id = T
  BY <1>1, TenantKnown DEF Exists
<1>4. default \in Tariff /\ db.billing[T].balance \in Int
  BY <1>1, <1>2, <1>3 DEF TablesSound
<1>5. /\ read.config = default /\ read.balance = db.billing[p.tenantId].balance
      /\ read.route = OrElse({r.billing : r \in Rule(p.rule)}, free)
  BY DEF Reads
<1>6. /\ \A r \in ToSet(db.outbound) : r \in OutboundRow
      /\ \A i, j \in DOMAIN db.outbound : db.outbound[i].id = db.outbound[j].id => i = j
  BY WorldsAssumption DEF KeysKept
<1>7. RouteCfg(T).pstnGateway \in GatewaysOf(w.db) \cup {""}
  BY DEF RouteCfg, GatewaysOf
<1> HIDE DEF p, read, default, free
<1>8. ASSUME p.app = "gateway"
      PROVE  /\ read.route \in BillingOf
             /\ p.rule = NoRule => ~read.route.billingEnabled
             /\ \A r \in Rule(p.rule) : r.tenantId = p.tenantId /\ r.billing = read.route
             /\ p.via \in GatewaysOf(w.db) \cup {""}
  <2>1. CASE p \in RulePlans(T, c.destination)
    <3>1. PICK m \in ToSet(db.outbound) :
            m.tenantId = T /\ p.rule = m.id /\ (p.via = m.gateway \/ p.via = RouteCfg(T).pstnGateway)
      BY <2>1, RulePlan
    <3>2. Rule(p.rule) = {m}
      <4>1. \A r \in ToSet(db.outbound) : r.id = m.id => r = m
        BY <1>6, <3>1 DEF ToSet
      <4> QED BY <3>1, <4>1 DEF Rule
    <3>3. {r.billing : r \in Rule(p.rule)} = {m.billing}
      BY <3>2
    <3>4. read.route = m.billing
      BY <1>5, <3>3 DEF OrElse
    <3>5. m.billing \in BillingOf /\ m.id # NoRule
      BY <1>6, <3>1 DEF OutboundRow
    <3>6. m.gateway \in GatewaysOf(w.db) \cup {""}
      BY <3>1 DEF GatewaysOf
    <3> QED BY <1>2, <1>7, <3>1, <3>2, <3>4, <3>5, <3>6
  <2>2. CASE p \in DefaultPlans(T, c.destination)
    <3>1. p.rule = NoRule /\ p.via = RouteCfg(T).pstnGateway
      BY <2>2, DefaultPlan
    <3>2. Rule(p.rule) = {}
      BY <1>6, <3>1 DEF Rule, OutboundRow
    <3>3. {r.billing : r \in Rule(p.rule)} = {}
      BY <3>2
    <3>4. read.route = free
      BY <1>5, <3>3 DEF OrElse
    <3>5. read.route \in BillingOf /\ ~read.route.billingEnabled
      BY <1>4, <3>4 DEF free, BillingOf
    <3> QED BY <1>7, <3>1, <3>2, <3>5
  <2> QED BY <1>2, <1>8, <2>1, <2>2
<1> QED BY <1>2, <1>4, <1>5, <1>8 DEF p, read, default

LEMMA DirectorySame ==
  ASSUME FixedKept, NEW user, NEW domain
  PROVE  directoryXML(user, domain)' = directoryXML(user, domain)
<1> DEFINE t == resolveTenant(domain, "", Nobody, user)
<1>1. t' = t
  BY ResolvedSame
<1>2. directoryXML(user, domain) = [realm |-> t.domain, context |-> t.id, known |-> HasUser(user, t.id)]
  BY DEF directoryXML
<1>3. directoryXML(user, domain)' = [realm |-> t'.domain, context |-> t'.id, known |-> HasUser(user, t.id)']
  BY DEF directoryXML
<1>4. HasUser(user, t.id)' = HasUser(user, t.id)
  <2> HIDE DEF t
  <2> QED BY <1>1, UsersSame
<1> HIDE DEF t
<1> QED BY <1>1, <1>2, <1>3, <1>4

-----------------------------------------------------------------------------
(* Steps.  The caller of a world stays who he is.                          *)
CallOf(w, c) ==
  /\ c.domain = w.caller.domain
  /\ DOMAIN c = {"destination", "caller", "domain", "context"}
  /\ IF w.caller.user = Nobody THEN c.context = w.caller.context
     ELSE c.context = directoryXML(w.caller.user, w.caller.domain).context

LEMMA CallerStays ==
  ASSUME NEW w \in Worlds, FixedKept, CallOf(w, call'), phase' # "dialled"
  PROVE  CallerKept(w)'
  BY DirectorySame DEF CallOf, CallerKept

LEMMA RequestMade ==
  ASSUME NEW w \in Worlds, TablesKept(w), phase \in Early, Waiting, NEW c, CallOf(w, c),
         Request(c), UNCHANGED <<db, plan>>
  PROVE  TablesKept(w)' /\ CallerKept(w)' /\ Waiting' /\ Answered' /\ Admitted' /\ seconds' \in Nat
<1>1. /\ call' = c /\ phase' = "asked" /\ db' = db /\ plan' = plan
      /\ UNCHANGED <<allowance, seconds, state>>
      /\ config' = Reads(RoutePlan(c)).config /\ balance' = Reads(RoutePlan(c)).balance
      /\ route' = Reads(RoutePlan(c)).route
  BY DEF Request, Fetch
<1>2. FixedKept /\ db = w.db
  BY <1>1 DEF FixedKept, TablesKept
<1>3. TablesKept(w)'
  BY <1>1, <1>2 DEF TablesKept
<1>4. CallerKept(w)'
  BY <1>1, <1>2, CallerStays
<1>5. RoutePlan(call)' = RoutePlan(c)
  BY <1>1, PlanSame
<1>6. Reads(RoutePlan(call))' = Reads(RoutePlan(c))
  BY <1>1, <1>5, ReadsSame
<1>7. Reads(RoutePlan(c)) = [config |-> config', balance |-> balance', route |-> route']
  BY <1>1 DEF Reads
<1>8. Waiting'
  BY <1>1, <1>6, <1>7 DEF Waiting, Early, NoAllowance
<1>9. Answered'
  BY <1>1 DEF Answered
<1>10. allowance'.type = "insufficient" /\ seconds' = 0
  BY <1>1 DEF Waiting, NoAllowance
<1> QED BY <1>3, <1>4, <1>8, <1>9, <1>10 DEF Admitted

LEMMA FlowStart == CallInit => FlowInv
<1> SUFFICES ASSUME CallInit PROVE FlowInv
  OBVIOUS
<1>1. PICK w \in Worlds : db = w.db /\ call = [caller |-> w.caller, destination |-> w.destination]
  BY DEF CallInit
<1>2. /\ phase = "dialled" /\ state = "asked" /\ seconds = 0 /\ plan = NoPlan
      /\ allowance = NoAllowance("insufficient")
  BY DEF CallInit
<1>3. TablesKept(w)
  <2>1. w.db.outbound \in Seq(ToSet(w.db.outbound)) /\ ToSet(w.db.outbound) \subseteq OutboundRow
    BY WorldsAssumption DEF KeysKept, Lists
  <2>2. w.db.outbound \in Seq(OutboundRow)
    BY <2>1
  <2> QED BY <1>1, <2>2, WorldsAssumption DEF TablesKept, KeysKept, Fixed, Lists
<1>4. CallerKept(w)
  BY <1>1, <1>2 DEF CallerKept
<1>5. plan.app = "none" /\ allowance.type = "insufficient"
  BY <1>2 DEF NoPlan, Plan, NoAllowance
<1>6. Waiting
  BY <1>2, <1>5 DEF Waiting
<1> QED BY <1>2, <1>3, <1>4, <1>5, <1>6 DEF FlowInv, Answered, Admitted, Recorded

LEMMA DialStep ==
  ASSUME FlowInv, Dial
  PROVE  FlowInv'
<1>1. PICK w \in Worlds : TablesKept(w) /\ CallerKept(w)
  BY DEF FlowInv
<1> DEFINE c == handleRequest(call.caller, call.destination)
<1>2. phase = "dialled" /\ Request(c) /\ UNCHANGED <<db, plan>>
  BY DEF Dial
<1>3. call = [caller |-> w.caller, destination |-> w.destination]
  BY <1>1, <1>2 DEF CallerKept
<1>4. CallOf(w, c)
  BY <1>3 DEF CallOf, handleRequest
<1>5. phase \in Early /\ Waiting
  BY <1>2 DEF Early, FlowInv
<1> HIDE DEF c
<1>6. TablesKept(w)' /\ CallerKept(w)' /\ Waiting' /\ Answered' /\ Admitted' /\ seconds' \in Nat
  BY <1>1, <1>2, <1>4, <1>5, RequestMade
<1>7. Recorded'
  BY <1>2 DEF Request, Recorded
<1> QED BY <1>6, <1>7 DEF FlowInv

(* The parts that a step keeps which leaves the call and its plan alone.   *)
LEMMA AnsweredStays ==
  ASSUME Answered, FixedKept, UNCHANGED <<call, plan>>, phase \notin {"dialled", "asked"},
         phase' = "menu" => phase = "menu"
  PROVE  Answered'
<1> DEFINE c == call
<1>1. call' = c /\ call = c
  OBVIOUS
<1> HIDE DEF c
<1>2. RouteOf(call)' = RouteOf(call) /\ TenantOf(call)' = TenantOf(call)
  BY <1>1, RoutesSame
<1>3. CustomOf(call)' = CustomOf(call) /\ LocalOf(call)' = LocalOf(call)
  BY <1>1, LocalSame
<1> QED BY <1>2, <1>3 DEF Answered

LEMMA TablesStay ==
  ASSUME NEW w \in Worlds, TablesKept(w), CallerKept(w), UNCHANGED <<db, call, plan>>,
         phase' # "dialled", phase # "dialled", phase' \in Early => phase \in Early
  PROVE  TablesKept(w)' /\ CallerKept(w)' /\ FixedKept
<1>1. FixedKept
  BY DEF FixedKept
<1>2. TablesKept(w)'
  BY DEF TablesKept
<1>3. CallOf(w, call')
  BY DEF CallerKept, CallOf
<1> QED BY <1>1, <1>2, <1>3, CallerStays

(* The dialplan admits a call through a gateway, or answers as it would    *)
(* anyone.                                                                 *)
LEMMA AskStep ==
  ASSUME FlowInv, Ask
  PROVE  FlowInv'
<1>1. PICK w \in Worlds : TablesKept(w) /\ CallerKept(w)
  BY DEF FlowInv
<1> DEFINE p == RoutePlan(call)
           a == calculatePrepaidAllowance(balance, Applied)
<1>2. phase = "asked" /\ Admit(p) /\ UNCHANGED <<db, call>>
  BY DEF Ask
<1>3. db = w.db /\ TablesSound /\ FixedKept
  BY <1>1, <1>2, WorldsSound DEF TablesKept, Early, FixedKept
<1>4. /\ seconds = 0 /\ allowance.type = "insufficient"
      /\ Reads(p) = [config |-> config, balance |-> balance, route |-> route]
  BY <1>2 DEF FlowInv, Waiting, Early, NoAllowance
<1>5. /\ config = Reads(p).config /\ balance = Reads(p).balance /\ route = Reads(p).route
  BY <1>4
<1>6. /\ config = db.billing[p.tenantId].tariff /\ config \in Tariff /\ balance \in Int
      /\ p.app = "gateway" =>
           /\ route \in BillingOf
           /\ p.rule = NoRule => ~route.billingEnabled
           /\ \A r \in Rule(p.rule) : r.tenantId = p.tenantId /\ r.billing = route
           /\ p.via \in GatewaysOf(w.db) \cup {""}
  <2> DEFINE c == call
  <2> HIDE DEF c
  <2>1. LET q    == RoutePlan(c)
            read == Reads(q)
        IN  /\ read.config = db.billing[q.tenantId].tariff
            /\ read.config \in Tariff /\ read.balance \in Int
            /\ q.app = "gateway" =>
                 /\ read.route \in BillingOf
                 /\ q.rule = NoRule => ~read.route.billingEnabled
                 /\ \A r \in Rule(q.rule) : r.tenantId = q.tenantId /\ r.billing = read.route
                 /\ q.via \in GatewaysOf(w.db) \cup {""}
    BY <1>1, <1>3, RuleRead
  <2> QED BY <1>5, <2>1 DEF c
<1>7. /\ IsPlan(p) /\ p.tenantId = TenantOf(call)
      /\ p.app = "ivr" => RouteOf(call) # {}
      /\ p.app = "gateway" => RouteOf(call) = {} /\ p.onAnswer = <<>>
      /\ RouteOf(call) = {} =>
           \/ CustomOf(call) = {} /\ p \in LocalOf(call)
           \/ (CustomOf(call) # {} \/ LocalOf(call) = {}) /\ p.app # "user"
  BY <1>3, RequestPlan
<1>8. \A q \in LocalOf(call) : q.app \in {"user", "mailbox"}
  BY LocalPlan DEF LocalOf
<1> HIDE DEF p
<1>9. /\ phase' = PhaseAfter(plan') /\ phase' \in {"menu", "ended", "talking"}
      /\ phase' = "menu" => plan'.app = "ivr"
      /\ plan'.app = "gateway" => phase' = "talking"
  BY <1>2 DEF Admit, Answer, PhaseAfter
<1>10. \/ /\ p.app = "gateway" /\ plan' = Refuse("NO_CREDIT", p.tenantId)
          /\ allowance' = a /\ a.type = "insufficient"
       \/ /\ p.app = "gateway" /\ plan' = BridgePlan(p, a.type = "limited")
          /\ allowance' = a /\ a.type # "insufficient"
       \/ plan' = BridgePlan(p, FALSE) /\ UNCHANGED vars
  BY <1>2 DEF Admit, Answer, dialplanXML
<1>11. UNCHANGED <<config, route, balance, seconds>>
  BY <1>2, <1>10 DEF Admit, dialplanXML, vars
<1>12. \/ /\ p.app = "gateway" /\ plan'.app = "hangup" /\ plan'.tenantId = p.tenantId
       \/ /\ plan'.app = p.app /\ plan'.to = p.to /\ plan'.via = p.via
          /\ plan'.tenantId = p.tenantId /\ plan'.rule = p.rule
  <2>1. CASE plan' = Refuse("NO_CREDIT", p.tenantId) /\ p.app = "gateway"
    BY <2>1, PlanIs DEF Refuse
  <2>2. CASE plan' = BridgePlan(p, a.type = "limited")
    <3> DEFINE limited == a.type = "limited"
    <3>1. limited \in BOOLEAN
      OBVIOUS
    <3> HIDE DEF limited
    <3>2. plan' = BridgePlan(p, limited)
      BY <2>2 DEF limited
    <3> QED BY <1>7, <3>1, <3>2, BridgeKeeps
  <2>3. CASE plan' = BridgePlan(p, FALSE)
    BY <1>7, <2>3, BridgeKeeps
  <2> QED BY <1>10, <2>1, <2>2, <2>3
<1>13. TablesKept(w)' /\ CallerKept(w)'
  <2>1. CallOf(w, call')
    BY <1>1, <1>2 DEF CallerKept, CallOf
  <2>2. CallerKept(w)'
    BY <1>3, <1>9, <2>1, CallerStays
  <2> QED BY <1>1, <1>2, <1>3, <2>2 DEF TablesKept
<1>14. Waiting'
  <2>1. CASE phase' = "menu"
    <3>1. plan'.app = "ivr" /\ p.app # "gateway"
      BY <1>9, <1>12, <2>1
    <3>2. UNCHANGED <<state, allowance, seconds>>
      BY <1>10, <3>1 DEF vars
    <3> QED BY <1>2, <2>1, <3>1, <3>2 DEF FlowInv, Waiting, Early, NoAllowance
  <2>2. CASE phase' # "menu"
    BY <1>9, <2>2 DEF Waiting, Early
  <2> QED BY <2>1, <2>2
<1>15. Answered'
  <2> DEFINE c == call
  <2>1. call' = c /\ call = c
    BY <1>2
  <2> HIDE DEF c
  <2>2. RouteOf(call)' = RouteOf(call) /\ TenantOf(call)' = TenantOf(call)
    BY <1>3, <2>1, RoutesSame
  <2>3. CustomOf(call)' = CustomOf(call) /\ LocalOf(call)' = LocalOf(call)
    BY <1>3, <2>1, LocalSame
  <2>4. plan'.tenantId = TenantOf(call) /\ (phase' = "menu" => RouteOf(call) # {})
    BY <1>7, <1>9, <1>12
  <2>5. RouteOf(call) = {} =>
          \/ CustomOf(call) = {} /\ \E q \in LocalOf(call) : plan'.app = q.app /\ plan'.to = q.to /\ plan'.via = q.via
          \/ (CustomOf(call) # {} \/ LocalOf(call) = {}) /\ plan'.app # "user"
    BY <1>7, <1>8, <1>12
  <2> QED BY <2>2, <2>3, <2>4, <2>5 DEF Answered
<1>16. Admitted'
  <2> SUFFICES ASSUME allowance'.type # "insufficient" PROVE Admitted'
    BY DEF Admitted
  <2>1. /\ p.app = "gateway" /\ plan' = BridgePlan(p, a.type = "limited")
        /\ allowance' = a /\ a.type # "insufficient"
    BY <1>4, <1>10 DEF vars
  <2> DEFINE limited == a.type = "limited"
  <2>2. limited \in BOOLEAN
    OBVIOUS
  <2>3. /\ plan'.app = p.app /\ plan'.via = p.via /\ plan'.tenantId = p.tenantId /\ plan'.rule = p.rule
        /\ limited => "sched_hangup" \in ToSet(plan'.onAnswer)
    <3> HIDE DEF limited
    <3>1. plan' = BridgePlan(p, limited)
      BY <2>1 DEF limited
    <3> QED BY <1>7, <2>1, <2>2, <3>1, BridgeKeeps
  <2>4. Applied \in Tariff /\ Applied' = Applied
    BY <1>6, <1>11, <2>1 DEF Applied, BillingOf
  <2>5. allowance' = calculatePrepaidAllowance(balance', Applied')
    BY <1>11, <2>1, <2>4
  <2>6. 0 <= hangupSeconds(a) + 1 /\ seconds' = 0
    <3>1. a.seconds \in Nat
      <4> HIDE DEF a
      <4>1. a \in [type : Outcome, seconds : Nat]
        BY <1>6, <2>4, AllowanceType DEF a
      <4> QED BY <4>1
    <3> HIDE DEF a
    <3> QED BY <1>4, <1>11, <3>1 DEF hangupSeconds, Larger
  <2>7. seconds' <= hangupSeconds(allowance') + 1
    <3> HIDE DEF a
    <3> QED BY <2>1, <2>6
  <2>8. RouteOf(call)' = {}
    <3> DEFINE c == call
    <3>1. call' = c /\ call = c
      BY <1>2
    <3> HIDE DEF c
    <3> QED BY <1>3, <1>7, <2>1, <3>1, RoutesSame
  <2>9. RuleKept'
    <3>1. Rule(plan.rule)' = Rule(p.rule)
      BY <1>2, <2>3 DEF Rule
    <3> QED BY <1>6, <1>11, <2>1, <2>3, <3>1 DEF RuleKept
  <2>10. \E w2 \in Worlds : db'.tenants = w2.db.tenants /\ plan'.via \in GatewaysOf(w2.db) \cup {""}
    BY <1>2, <1>3, <1>6, <2>1, <2>3
  <2>11. phase' \notin Early /\ plan'.app = "gateway"
    BY <1>9, <2>1, <2>3 DEF Early
  <2>12. config' = db'.billing[plan'.tenantId].tariff /\ config' \in Tariff /\ route' \in BillingOf /\ balance' \in Int
    BY <1>2, <1>6, <1>11, <2>1, <2>3
  <2>13. allowance'.type = "limited" => "sched_hangup" \in ToSet(plan'.onAnswer)
    BY <2>1, <2>3
  <2> HIDE DEF a, limited
  <2> QED BY <2>5, <2>7, <2>8, <2>9, <2>10, <2>11, <2>12, <2>13 DEF Admitted
<1>17. Recorded' /\ seconds' \in Nat
  BY <1>4, <1>9, <1>11 DEF Recorded
<1> QED BY <1>13, <1>14, <1>15, <1>16, <1>17 DEF FlowInv

(* The choice of a menu.                                                   *)
LEMMA ChooseStep ==
  ASSUME FlowInv, Choose
  PROVE  FlowInv'
<1>1. PICK w \in Worlds : TablesKept(w) /\ CallerKept(w)
  BY DEF FlowInv
<1>2. PICK key \in Keys :
        LET choice == buildIvrDialplan(db.menus[plan.to], key)
            to     == choice.actionValue
        IN  /\ phase = "menu"
            /\ IF choice.actionType = "extension"
                 THEN /\ transfers < MaxTransfers /\ transfers' = transfers + 1
                      /\ Request([call EXCEPT !.destination = to])
                      /\ UNCHANGED <<plan, began>>
                 ELSE /\ Answer(IF choice.actionType = "hangup" THEN Refuse("NORMAL_CLEARING", plan.tenantId)
                                ELSE Plan(choice.actionType, to, Domain(plan.tenantId), plan.tenantId))
                      /\ UNCHANGED <<vars, call, transfers>>
            /\ UNCHANGED <<db, shown, record>>
  BY DEF Choose
<1> DEFINE choice == buildIvrDialplan(db.menus[plan.to], key)
           type   == choice.actionType
           to     == choice.actionValue
           c      == [call EXCEPT !.destination = to]
<1>3. phase = "menu" /\ UNCHANGED <<db, record>>
  BY <1>2
<1>4. CallOf(w, call) /\ CallOf(w, c)
  BY <1>1, <1>3 DEF CallerKept, CallOf
<1>5. \/ Request(c) /\ UNCHANGED plan
      \/ /\ Answer(IF type = "hangup" THEN Refuse("NORMAL_CLEARING", plan.tenantId)
                   ELSE Plan(type, to, Domain(plan.tenantId), plan.tenantId))
         /\ UNCHANGED <<vars, call>>
  BY <1>2
<1> HIDE DEF c, type, to
<1>6. CASE Request(c) /\ UNCHANGED plan
  <2>1. phase \in Early /\ Waiting
    BY <1>3 DEF Early, FlowInv
  <2>2. TablesKept(w)' /\ CallerKept(w)' /\ Waiting' /\ Answered' /\ Admitted' /\ seconds' \in Nat
    BY <1>1, <1>3, <1>4, <1>6, <2>1, RequestMade
  <2>3. Recorded'
    BY <1>6 DEF Request, Recorded
  <2> QED BY <2>2, <2>3 DEF FlowInv
<1>7. CASE /\ Answer(IF type = "hangup" THEN Refuse("NORMAL_CLEARING", plan.tenantId)
                     ELSE Plan(type, to, Domain(plan.tenantId), plan.tenantId))
           /\ UNCHANGED <<vars, call>>
  <2>1. /\ \/ plan' = Refuse("NORMAL_CLEARING", plan.tenantId)
           \/ plan' = Plan(type, to, Domain(plan.tenantId), plan.tenantId)
        /\ phase' = PhaseAfter(plan')
    BY <1>7 DEF Answer
  <2>2. plan'.tenantId = plan.tenantId
    <3>1. CASE plan' = Refuse("NORMAL_CLEARING", plan.tenantId)
      BY <3>1, PlanIs DEF Refuse
    <3>2. CASE plan' = Plan(type, to, Domain(plan.tenantId), plan.tenantId)
      BY <3>2, PlanIs
    <3> QED BY <2>1, <3>1, <3>2
  <2>3. phase' \in {"menu", "ended", "talking"} /\ (phase' = "menu" => plan'.app = "ivr")
    BY <2>1 DEF PhaseAfter
  <2>4. FixedKept /\ UNCHANGED <<allowance, seconds, state>>
    BY <1>3, <1>7 DEF FixedKept, vars
  <2>5. TablesKept(w)' /\ CallerKept(w)'
    <3>1. CallOf(w, call')
      BY <1>4, <1>7
    <3>2. CallerKept(w)'
      BY <2>3, <2>4, <3>1, CallerStays
    <3> QED BY <1>1, <1>3, <3>2 DEF TablesKept, Early
  <2>6. state = "asked" /\ allowance = NoAllowance("insufficient") /\ seconds = 0
    BY <1>3 DEF FlowInv, Waiting, Early
  <2>7. Waiting'
    BY <2>3, <2>4, <2>6 DEF Waiting, Early, NoAllowance
  <2>8. Answered'
    <3> DEFINE d == call
    <3>1. call' = d /\ call = d
      BY <1>7
    <3> HIDE DEF d
    <3>2. RouteOf(call)' = RouteOf(call) /\ TenantOf(call)' = TenantOf(call)
      BY <2>4, <3>1, RoutesSame
    <3>3. plan.tenantId = TenantOf(call) /\ RouteOf(call) # {}
      BY <1>3 DEF FlowInv, Answered
    <3> QED BY <2>2, <3>2, <3>3 DEF Answered
  <2>9. allowance'.type = "insufficient" /\ seconds' \in Nat /\ phase' # "recorded"
    BY <2>3, <2>4, <2>6 DEF NoAllowance
  <2> QED BY <2>5, <2>7, <2>8, <2>9 DEF FlowInv, Admitted, Recorded
<1> QED BY <1>5, <1>6, <1>7

(* What was admitted stays so while nothing but the time goes on.          *)
LEMMA AdmittedStays ==
  ASSUME Admitted, FixedKept, UNCHANGED <<db, call, plan, config, route, balance, allowance>>,
         phase' \notin Early, phase' = "talking" => phase = "talking",
         allowance.type = "limited" => seconds' <= hangupSeconds(allowance) + 1
  PROVE  Admitted'
<1> SUFFICES ASSUME allowance.type # "insufficient" PROVE Admitted'
  BY DEF Admitted
<1> DEFINE c == call
<1>1. call' = c /\ call = c
  OBVIOUS
<1> HIDE DEF c
<1>2. RouteOf(call)' = {}
  BY <1>1, RoutesSame DEF Admitted
<1>3. allowance' = calculatePrepaidAllowance(balance', Applied')
  BY DEF Admitted, Applied
<1>4. RuleKept'
  <2>1. Rule(plan.rule)' = Rule(plan.rule)
    BY DEF Rule
  <2> QED BY <2>1 DEF Admitted, RuleKept
<1>5. \E w \in Worlds : db'.tenants = w.db.tenants /\ plan'.via \in GatewaysOf(w.db) \cup {""}
  BY DEF Admitted
<1> QED BY <1>2, <1>3, <1>4, <1>5 DEF Admitted

LEMMA ContinueStep ==
  ASSUME FlowInv, Continue
  PROVE  FlowInv'
<1>1. PICK w \in Worlds : TablesKept(w) /\ CallerKept(w)
  BY DEF FlowInv
<1>2. /\ phase = "talking" /\ UNCHANGED <<db, call, plan, phase, config, route, balance, allowance>>
      /\ seconds' = seconds + 1 /\ seconds \in Nat
      /\ \/ "sched_hangup" \in ToSet(plan.onAnswer) /\ Talk
         \/ "sched_hangup" \notin ToSet(plan.onAnswer)
  BY DEF Continue, Talk, tables, FlowInv
<1>3. TablesKept(w)' /\ CallerKept(w)' /\ FixedKept
  BY <1>1, <1>2, TablesStay
<1>4. Answered'
  BY <1>2, <1>3, AnsweredStays DEF FlowInv
<1>5. ASSUME allowance.type = "limited" PROVE seconds' <= hangupSeconds(allowance) + 1
  <2>1. Talk
    BY <1>2, <1>5 DEF FlowInv, Admitted
  <2>2. seconds < hangupSeconds(allowance) + 1
    BY <1>5, <2>1 DEF Talk
  <2>3. hangupSeconds(allowance) \in Int
    <3>1. allowance = calculatePrepaidAllowance(balance, Applied) /\ Applied \in Tariff /\ balance \in Int
      BY <1>5 DEF FlowInv, Admitted, Applied, BillingOf
    <3>2. allowance \in [type : Outcome, seconds : Nat]
      BY <3>1, AllowanceType
    <3> QED BY <3>2 DEF hangupSeconds, Larger
  <2> QED BY <1>2, <2>2, <2>3
<1>6. Admitted'
  BY <1>2, <1>3, <1>5, AdmittedStays DEF FlowInv, Early
<1> QED BY <1>2, <1>3, <1>4, <1>6 DEF FlowInv, Waiting, Recorded, Early

LEMMA EndStep ==
  ASSUME FlowInv, EndCall
  PROVE  FlowInv'
<1>1. PICK w \in Worlds : TablesKept(w) /\ CallerKept(w)
  BY DEF FlowInv
<1>2. /\ phase = "talking" /\ phase' = "ended"
      /\ UNCHANGED <<db, call, plan, config, route, balance, allowance, seconds>>
  BY DEF EndCall, HangUp, vars
<1>3. TablesKept(w)' /\ CallerKept(w)' /\ FixedKept
  BY <1>1, <1>2, TablesStay DEF Early
<1>4. Answered'
  BY <1>2, <1>3, AnsweredStays DEF FlowInv
<1>5. Admitted'
  <2>1. allowance.type = "limited" => seconds' <= hangupSeconds(allowance) + 1
    BY <1>2 DEF FlowInv, Admitted
  <2> QED BY <1>2, <1>3, <2>1, AdmittedStays DEF FlowInv, Early
<1> QED BY <1>2, <1>3, <1>4, <1>5 DEF FlowInv, Waiting, Recorded, Early

RecordIs(leg, v, r) ==
  record' = Charged(leg, v, r)

LEMMA RecordPosted ==
  ASSUME ingestCdr
  PROVE  \E leg \in {"A", "B"}, cause \in Causes, answered \in BOOLEAN, address \in {plan.via, ""} :
           \E r \in mapPayload(Posted(leg, cause, answered, address)) : RecordIs(leg, Posted(leg, cause, answered, address), r)
BY DEF ingestCdr, RecordIs

LEMMA RecordStep ==
  ASSUME FlowInv, ingestCdr
  PROVE  FlowInv'
<1>1. PICK w \in Worlds : TablesKept(w) /\ CallerKept(w)
  BY DEF FlowInv
<1>2. /\ phase = "ended" /\ phase' = "recorded"
      /\ UNCHANGED <<db, call, plan, config, route, balance, allowance, seconds>>
  BY DEF ingestCdr, vars
<1>3. TablesKept(w)' /\ CallerKept(w)' /\ FixedKept
  BY <1>1, <1>2, TablesStay DEF Early
<1>4. Answered'
  BY <1>2, <1>3, AnsweredStays DEF FlowInv
<1>5. Admitted'
  <2>1. allowance.type = "limited" => seconds' <= hangupSeconds(allowance) + 1
    BY <1>2 DEF FlowInv, Admitted
  <2> QED BY <1>2, <1>3, <2>1, AdmittedStays DEF FlowInv, Early
<1>6. Recorded'
  <2>1. PICK leg \in {"A", "B"}, cause \in Causes, answered \in BOOLEAN, address \in {plan.via, ""} :
          \E r \in mapPayload(Posted(leg, cause, answered, address)) : RecordIs(leg, Posted(leg, cause, answered, address), r)
    BY RecordPosted
  <2>0. PICK r \in mapPayload(Posted(leg, cause, answered, address)) : RecordIs(leg, Posted(leg, cause, answered, address), r)
    BY <2>1
  <2> DEFINE v == Posted(leg, cause, answered, address)
  <2>2. /\ v.direction = (IF leg = "A" THEN "inbound" ELSE "outbound")
        /\ v.billSeconds = seconds /\ v.answered = answered
    BY DEF Posted
  <2>9. r \in mapPayload(v)
    BY <2>0
  <2> HIDE DEF v
  <2>10. PICK a \in resolveAgentContext(v) :
           r = [leg |-> resolveLeg(v), direction |-> resolveCallDirection(v), tenantId |-> RecordTenant(v),
                fromNumber |-> fromNumber(v), toNumber |-> toNumber(v), agentId |-> a,
                billSeconds |-> v.billSeconds, answered |-> v.answered, cause |-> v.cause]
    BY Zenon, <2>9 DEF mapPayload
  <2>3. r.leg = resolveLeg(v) /\ r.billSeconds = v.billSeconds /\ r.answered = v.answered
    BY <2>10
  <2>7. r.tenantId = RecordTenant(v) /\ r.agentId \in resolveAgentContext(v)
    BY <2>10
  <2>8. RecordTenant(v) = "" => resolveAgentContext(v) = {""}
    BY DEF resolveAgentContext
  <2>4. r.leg = leg
    BY <2>2, <2>3 DEF resolveLeg
  <2>5. record'.entity = r /\ record'.leg = leg
    BY <2>0 DEF RecordIs, Charged
  <2>6. seconds \in Nat
    BY DEF FlowInv
  <2> QED BY <2>2, <2>3, <2>4, <2>5, <2>6, <2>7, <2>8 DEF Recorded
<1> QED BY <1>2, <1>3, <1>4, <1>5, <1>6 DEF FlowInv, Waiting, Early

(* A rule that is deleted, or bills no longer, leaves the tables as sound  *)
(* as they were and no rule with another tariff.                           *)
LEMMA RuleChanged ==
  ASSUME NEW w \in Worlds, TablesKept(w), ChangeRule
  PROVE  /\ FixedKept /\ {"outbound"} \cup Fixed \subseteq DOMAIN db' /\ db'.outbound \in Seq(OutboundRow)
         /\ \A r \in ToSet(db'.outbound) : \E s \in ToSet(db.outbound) :
              /\ r.id = s.id /\ r.tenantId = s.tenantId /\ r.billing.tariff = s.billing.tariff
              /\ r.billing.billingEnabled => s.billing.billingEnabled
<1> DEFINE out == db.outbound
<1>1. out \in Seq(OutboundRow) /\ {"outbound"} \cup Fixed \subseteq DOMAIN db
  BY DEF TablesKept
<1>2. PICK i \in DOMAIN out :
        \/ db' = [db EXCEPT !.outbound = RemoveAt(out, i)]
        \/ db' = [db EXCEPT !.outbound = [out EXCEPT ![i].billing.billingEnabled = FALSE]]
  BY DEF ChangeRule
<1>3. FixedKept /\ DOMAIN db' = DOMAIN db
  BY <1>1, <1>2 DEF FixedKept, Fixed
<1>4. i \in 1 .. Len(out) /\ Len(out) \in Nat /\ DOMAIN out = 1 .. Len(out)
  BY <1>1
<1>5. CASE db' = [db EXCEPT !.outbound = RemoveAt(out, i)]
  <2>1. db'.outbound = SubSeq(out, 1, i - 1) \o SubSeq(out, i + 1, Len(out))
    BY <1>1, <1>5 DEF RemoveAt
  <2> HIDE DEF out
  <2>2. SubSeq(out, 1, i - 1) \in Seq(OutboundRow) /\ SubSeq(out, i + 1, Len(out)) \in Seq(OutboundRow)
    BY <1>1, <1>4
  <2>3. db'.outbound \in Seq(OutboundRow)
    BY <2>1, <2>2
  <2>4. \A j \in DOMAIN db'.outbound : \E k \in DOMAIN out : db'.outbound[j] = out[k]
    <3> SUFFICES ASSUME NEW j \in DOMAIN db'.outbound
                 PROVE  \E k \in DOMAIN out : db'.outbound[j] = out[k]
      OBVIOUS
    <3>1. Len(SubSeq(out, 1, i - 1)) = i - 1 /\ Len(SubSeq(out, i + 1, Len(out))) = Len(out) - i
      BY <1>1, <1>4
    <3>2. j \in 1 .. Len(out) - 1
      BY <1>1, <1>4, <2>1, <2>2, <3>1
    <3>3. CASE j < i
      BY SMTT(30), <1>1, <1>4, <2>1, <2>2, <3>1, <3>2, <3>3
    <3>4. CASE j >= i
      <4> DEFINE before == SubSeq(out, 1, i - 1)
                 after  == SubSeq(out, i + 1, Len(out))
      <4>1. after[j - (i - 1)] = out[j + 1]
        BY <1>1, <1>4, <3>1, <3>2, <3>4
      <4>2. (before \o after)[j] = after[j - Len(before)]
        <5> HIDE DEF before, after
        <5> QED BY SMTT(30), <1>4, <2>2, <3>1, <3>2, <3>4 DEF before, after
      <4>3. Len(before) = i - 1 /\ db'.outbound = before \o after
        BY <2>1, <3>1
      <4> HIDE DEF before, after
      <4>4. db'.outbound[j] = out[j + 1]
        BY <4>1, <4>2, <4>3
      <4>5. j + 1 \in DOMAIN out
        BY <1>4, <3>2, <3>4
      <4> QED BY <4>4, <4>5
    <3> QED BY <1>4, <3>2, <3>3, <3>4
  <2>5. \A r \in ToSet(db'.outbound) : r \in ToSet(out)
    BY <2>4 DEF ToSet
  <2> QED BY <1>1, <1>3, <2>3, <2>5 DEF out
<1>6. CASE db' = [db EXCEPT !.outbound = [out EXCEPT ![i].billing.billingEnabled = FALSE]]
  <2> DEFINE row == [out[i] EXCEPT !.billing = [out[i].billing EXCEPT !.billingEnabled = FALSE]]
  <2>1. db'.outbound = [out EXCEPT ![i] = row]
    BY <1>1, <1>6
  <2>2. out[i] \in OutboundRow /\ out[i].billing \in BillingOf
    <3> HIDE DEF out
    <3>1. out[i] \in OutboundRow
      BY <1>1, <1>4
    <3> QED BY <3>1 DEF OutboundRow
  <2>3. /\ row \in OutboundRow
        /\ row.id = out[i].id /\ row.tenantId = out[i].tenantId
        /\ row.billing.tariff = out[i].billing.tariff /\ row.billing.billingEnabled = FALSE
    BY <2>2 DEF OutboundRow, BillingOf
  <2> HIDE DEF row, out
  <2>4. db'.outbound \in Seq(OutboundRow)
    BY <1>1, <1>4, <2>1, <2>3
  <2>5. \A j \in DOMAIN db'.outbound : j \in DOMAIN out /\ (db'.outbound[j] = out[j] \/ (j = i /\ db'.outbound[j] = row))
    BY <1>1, <1>4, <2>1
  <2>6. ASSUME NEW r \in ToSet(db'.outbound)
        PROVE  \E s \in ToSet(out) :
                 /\ r.id = s.id /\ r.tenantId = s.tenantId /\ r.billing.tariff = s.billing.tariff
                 /\ r.billing.billingEnabled => s.billing.billingEnabled
    <3>1. PICK j \in DOMAIN db'.outbound : r = db'.outbound[j]
      BY DEF ToSet
    <3>2. out[j] \in ToSet(out) /\ out[i] \in ToSet(out)
      BY <1>4, <2>5 DEF ToSet
    <3> QED BY <2>3, <2>5, <3>1, <3>2
  <2> QED BY <1>1, <1>3, <2>4, <2>6 DEF out
<1> QED BY <1>2, <1>5, <1>6

LEMMA ChangeStep ==
  ASSUME FlowInv, ChangeRule
  PROVE  FlowInv'
<1>1. PICK w \in Worlds : TablesKept(w) /\ CallerKept(w)
  BY DEF FlowInv
<1>2. /\ phase = "talking" /\ UNCHANGED <<call, plan, phase, config, route, balance, allowance, seconds>>
  BY DEF ChangeRule, vars
<1>3. /\ FixedKept /\ {"outbound"} \cup Fixed \subseteq DOMAIN db' /\ db'.outbound \in Seq(OutboundRow)
      /\ \A r \in ToSet(db'.outbound) : \E s \in ToSet(db.outbound) :
           /\ r.id = s.id /\ r.tenantId = s.tenantId /\ r.billing.tariff = s.billing.tariff
           /\ r.billing.billingEnabled => s.billing.billingEnabled
  BY <1>1, RuleChanged
<1>4. TablesKept(w)'
  BY <1>1, <1>2, <1>3 DEF TablesKept, FixedKept, Early
<1>5. CallerKept(w)'
  <2>1. CallOf(w, call')
    BY <1>1, <1>2 DEF CallerKept, CallOf
  <2> QED BY <1>2, <1>3, <2>1, CallerStays
<1>6. Answered'
  BY <1>2, <1>3, AnsweredStays DEF FlowInv
<1>7. Admitted'
  <2> SUFFICES ASSUME allowance.type # "insufficient" PROVE Admitted'
    BY <1>2 DEF Admitted
  <2> DEFINE c == call
  <2>1. call' = c /\ call = c
    BY <1>2
  <2> HIDE DEF c
  <2>2. RouteOf(call)' = {}
    BY <1>3, <2>1, RoutesSame DEF FlowInv, Admitted
  <2>3. allowance' = calculatePrepaidAllowance(balance', Applied')
    BY <1>2 DEF FlowInv, Admitted, Applied
  <2>4. RuleKept'
    <3>1. \A r \in Rule(plan.rule)' : \E s \in Rule(plan.rule) :
            /\ r.tenantId = s.tenantId /\ r.billing.tariff = s.billing.tariff
            /\ r.billing.billingEnabled => s.billing.billingEnabled
      BY <1>2, <1>3 DEF Rule
    <3> QED BY <1>2, <3>1 DEF FlowInv, Admitted, RuleKept
  <2>5. db'.billing = db.billing /\ db'.tenants = db.tenants
    BY <1>3, TablesSame
  <2>6. config' = db'.billing[plan'.tenantId].tariff
    BY <1>2, <2>5 DEF FlowInv, Admitted
  <2>7. \E u \in Worlds : db'.tenants = u.db.tenants /\ plan'.via \in GatewaysOf(u.db) \cup {""}
    BY <1>2, <2>5 DEF FlowInv, Admitted
  <2>8. phase' \notin Early /\ plan'.app = "gateway" /\ config' \in Tariff /\ route' \in BillingOf /\ balance' \in Int
    BY <1>2 DEF FlowInv, Admitted, Early
  <2>9. allowance'.type = "limited" =>
          /\ seconds' <= hangupSeconds(allowance') + 1
          /\ phase' = "talking" => "sched_hangup" \in ToSet(plan'.onAnswer)
    BY <1>2 DEF FlowInv, Admitted
  <2> QED BY <2>2, <2>3, <2>4, <2>6, <2>7, <2>8, <2>9 DEF Admitted
<1> QED BY <1>2, <1>4, <1>5, <1>6, <1>7 DEF FlowInv, Waiting, Recorded, Early

LEMMA FlowStep ==
  ASSUME FlowInv, [CallNext]_callVars
  PROVE  FlowInv'
<1>1. CASE Dial
  BY <1>1, DialStep
<1>2. CASE Ask
  BY <1>2, AskStep
<1>3. CASE Choose
  BY <1>3, ChooseStep
<1>4. CASE Continue
  BY <1>4, ContinueStep
<1>5. CASE EndCall
  BY <1>5, EndStep
<1>6. CASE ChangeRule
  BY <1>6, ChangeStep
<1>7. CASE ingestCdr
  BY <1>7, RecordStep
<1>8. CASE UNCHANGED callVars
  <2>1. UNCHANGED <<config, route, balance, allowance, seconds, state, db, call, plan, phase, record>>
    BY <1>8 DEF callVars, vars
  <2>2. PICK w \in Worlds : TablesKept(w) /\ CallerKept(w)
    BY DEF FlowInv
  <2>3. TablesKept(w)'
    BY <2>1, <2>2 DEF TablesKept
  <2>4. FixedKept
    BY <2>1 DEF FixedKept
  <2>5. CASE phase = "dialled"
    <3>1. CallerKept(w)'
      BY <2>1, <2>2, <2>5 DEF CallerKept
    <3> QED BY <2>1, <2>3, <2>5, <3>1 DEF FlowInv, Waiting, Answered, Admitted, Recorded, Early
  <2>6. CASE phase # "dialled"
    <3>1. CallOf(w, call')
      BY <2>1, <2>2, <2>6 DEF CallerKept, CallOf
    <3>2. CallerKept(w)'
      BY <2>1, <2>4, <2>6, <3>1, CallerStays
    <3>3. CASE phase = "asked"
      <4> DEFINE c == call
      <4>1. call' = c /\ call = c
        BY <2>1
      <4> HIDE DEF c
      <4>2. RoutePlan(call)' = RoutePlan(call)
        BY <2>1, <4>1, PlanSame
      <4> DEFINE p == RoutePlan(call)
      <4>3. Reads(RoutePlan(call))' = Reads(RoutePlan(call))
        <5>1. RoutePlan(call)' = p /\ RoutePlan(call) = p
          BY <4>2
        <5> HIDE DEF p
        <5> QED BY <2>1, <5>1, ReadsSame
      <4> QED BY <2>1, <2>3, <3>2, <3>3, <4>3 DEF FlowInv, Waiting, Answered, Admitted, Recorded, Early
    <3>4. CASE phase # "asked"
      <4>1. Answered'
        BY <2>1, <2>4, <2>6, <3>4, AnsweredStays DEF FlowInv
      <4>2. Admitted'
        <5>1. CASE allowance.type = "insufficient"
          BY <2>1, <5>1 DEF Admitted
        <5>2. CASE allowance.type # "insufficient"
          <6>1. phase' \notin Early /\ (allowance.type = "limited" => seconds' <= hangupSeconds(allowance) + 1)
            BY <2>1, <5>2 DEF FlowInv, Admitted
          <6> QED BY <2>1, <2>4, <6>1, AdmittedStays DEF FlowInv
        <5> QED BY <5>1, <5>2
      <4> QED BY <2>1, <2>3, <3>2, <3>4, <4>1, <4>2 DEF FlowInv, Waiting, Recorded
    <3> QED BY <3>3, <3>4
  <2> QED BY <2>5, <2>6
<1> QED BY <1>1, <1>2, <1>3, <1>4, <1>5, <1>6, <1>7, <1>8 DEF CallNext

LEMMA FlowAlways == CallSpec => []FlowInv
<1>1. FlowInv /\ [CallNext]_callVars => FlowInv'
  BY FlowStep
<1> QED BY FlowStart, <1>1, PTL DEF CallSpec

-----------------------------------------------------------------------------
(* Money.  A tariff that differs in nothing but the mode from the one that *)
(* the allowance was computed from.                                        *)
SameRates(t, u) == t.rate = u.rate /\ t.increment = u.increment /\ t.fee = u.fee

LEMMA AllowanceCoversRates ==
  ASSUME NEW b \in Int, NEW t \in Tariff, NEW u \in Tariff, SameRates(t, u), NEW s \in Nat,
         NEW a, a = calculatePrepaidAllowance(b, t), a.type # "insufficient",
         a.type = "limited" => a.seconds > 1 /\ s <= hangupSeconds(a) + 1
  PROVE  Subtotal(u, s) <= Minute * b
<1>1. a = calculatePrepaidAllowance(b, u)
  BY DEF SameRates, calculatePrepaidAllowance
<1>2. a \in [type : Outcome, seconds : Nat]
  BY <1>1, AllowanceType
<1>3. CASE a.type = "limited"
  <2>1. s <= a.seconds /\ a.seconds \in Nat
    BY <1>2, <1>3 DEF hangupSeconds, Larger
  <2>2. PICK n \in Nat \ {0} :
          a.seconds = n * u.increment /\ u.fee * Minute + n * (u.rate * u.increment) <= Minute * b
    BY <1>1, <1>3, LimitedAllowance
  <2>3. Subtotal(u, s) <= u.fee * Minute + n * (u.rate * u.increment)
    BY <2>1, <2>2, SubtotalOfUnits
  <2>4. u.fee * Minute + n * (u.rate * u.increment) \in Int
    BY UnitCostType
  <2>5. Subtotal(u, s) \in Int /\ Minute * b \in Int
    BY SubtotalType, TariffAssumption
  <2> QED BY <2>2, <2>3, <2>4, <2>5
<1>4. CASE a.type = "unlimited"
  BY <1>1, <1>4, UnlimitedCost
<1> QED BY <1>2, <1>3, <1>4 DEF Outcome

LEMMA FirstFoundWithin ==
  ASSUME NEW alts, DOMAIN alts \subseteq Nat, NEW S, \A i \in DOMAIN alts : alts[i] \subseteq S
  PROVE  FirstFound(alts) \subseteq S
<1> DEFINE found == {i \in DOMAIN alts : alts[i] # {}}
<1>1. CASE found = {}
  BY <1>1 DEF FirstFound
<1>2. CASE found # {}
  <2> DEFINE k == CHOOSE i \in found : \A j \in found : i <= j
  <2>1. FirstFound(alts) = alts[k]
    BY <1>2 DEF FirstFound
  <2>2. found \subseteq Nat
    OBVIOUS
  <2>3. \E i \in found : \A j \in found : i <= j
    <3> HIDE DEF found
    <3> QED BY <1>2, <2>2, Least
  <2>4. k \in found
    <3> HIDE DEF found
    <3> QED BY <2>3
  <2>5. k \in DOMAIN alts
    BY <2>4
  <2> HIDE DEF k, found
  <2> QED BY <2>1, <2>5
<1> QED BY <1>1, <1>2

LEMMA NamedTenants ==
  ASSUME NEW names, DOMAIN names \subseteq Nat, NEW S,
         \A i \in DOMAIN names : names[i] # "" => lookupTenant(names[i]) \subseteq S
  PROVE  resolveTenantFromCandidates(names) \subseteq S
<1> DEFINE alts == [i \in DOMAIN names |-> IF names[i] = "" THEN {} ELSE lookupTenant(names[i])]
<1>1. resolveTenantFromCandidates(names) = FirstFound(alts)
  BY DEF resolveTenantFromCandidates
<1>2. DOMAIN alts \subseteq Nat /\ \A i \in DOMAIN alts : alts[i] \subseteq S
  OBVIOUS
<1> HIDE DEF alts
<1> QED BY <1>1, <1>2, FirstFoundWithin

LEMMA Triple ==
  ASSUME NEW x, NEW y, NEW z
  PROVE  DOMAIN <<x, y, z>> \subseteq Nat /\ \A i \in DOMAIN <<x, y, z>> : <<x, y, z>>[i] \in {x, y, z}
<1> DEFINE names == <<x, y, z>>
<1>1. DOMAIN names = 1 .. 3 /\ names[1] = x /\ names[2] = y /\ names[3] = z
  OBVIOUS
<1> HIDE DEF names
<1>2. DOMAIN names \subseteq Nat /\ \A i \in DOMAIN names : names[i] \in {x, y, z}
  BY <1>1
<1> QED BY <1>2 DEF names

LEMMA ThreeNames ==
  ASSUME NEW none, none = "", NEW S, NEW x, NEW y, NEW z,
         \A n \in {x, y, z} : n = none \/ lookupTenant(n) \subseteq S
  PROVE  resolveTenantFromCandidates(<<x, y, z>>) \subseteq S
<1> DEFINE names == <<x, y, z>>
<1>1. DOMAIN names \subseteq Nat /\ \A i \in DOMAIN names : names[i] \in {x, y, z}
  BY Zenon, Triple
<1>2. \A i \in DOMAIN names : names[i] = none \/ lookupTenant(names[i]) \subseteq S
  <2> HIDE DEF names
  <2> QED BY <1>1
<1> HIDE DEF names
<1>3. \A i \in DOMAIN names : names[i] # "" => lookupTenant(names[i]) \subseteq S
  BY <1>2
<1>4. resolveTenantFromCandidates(names) \subseteq S
  BY <1>1, <1>3, NamedTenants
<1> QED BY <1>4 DEF names

(* What a record says of an admitted call.                                 *)
LEMMA PostedSays ==
  ASSUME NEW leg \in {"A", "B"}, NEW cause, NEW answered, NEW address \in {plan.via, ""}
  PROVE  LET v == Posted(leg, cause, answered, address)
         IN  /\ TenantNames(v) = IF leg = "A" THEN <<call.domain, call.domain, "">> ELSE <<"", "", address>>
             /\ v.routeId = plan.rule /\ v.tariff = route.tariff
             /\ v.billed = (plan.rule # NoRule /\ route.billingEnabled)
  BY DEF Posted, TenantNames

(* Nobody but the tenant who was given the allowance pays.                 *)
LEMMA PayerFound ==
  ASSUME NamesApart, FlowInv, allowance.type # "insufficient",
         NEW leg \in {"A", "B"}, NEW cause, NEW answered, NEW address \in {plan.via, ""}
  PROVE  PayingTenant(Posted(leg, cause, answered, address)) \subseteq {plan.tenantId}
<1> DEFINE v == Posted(leg, cause, answered, address)
           S == {plan.tenantId}
<1>1. PICK w \in Worlds : TablesKept(w) /\ CallerKept(w)
  BY DEF FlowInv
<1>2. TablesSound /\ db.tenants = w.db.tenants
  BY <1>1, WorldsSound DEF TablesKept, Fixed
<1>3. /\ phase \notin Early /\ RouteOf(call) = {} /\ RuleKept
      /\ \E w2 \in Worlds : db.tenants = w2.db.tenants /\ plan.via \in GatewaysOf(w2.db) \cup {""}
  BY DEF FlowInv, Admitted
<1>4. plan.tenantId = resolveTenant(call.domain, call.context, call.destination, Nobody).id
  BY <1>2, <1>3, TenantKnown DEF FlowInv, Answered, Early
<1>5. call.domain = w.caller.domain
  BY <1>1, <1>3 DEF CallerKept, Early
<1>6. lookupTenant(call.domain) \subseteq S
  <2> SUFFICES ASSUME NEW x \in Tenants, call.domain \in {x.id, x.domain} PROVE x.id = plan.tenantId
    BY DEF lookupTenant
  <2>1. x.domain = call.domain
    BY <1>2, <1>5 DEF NamesApart, Tenants
  <2>2. resolveTenant(x.domain, call.context, call.destination, Nobody) = x
    BY <1>2, DomainResolved
  <2> QED BY <1>4, <2>1, <2>2
<1>7. plan.via # "" => lookupTenant(plan.via) \subseteq S
  <2> SUFFICES ASSUME plan.via # "", NEW x \in Tenants, plan.via \in {x.id, x.domain} PROVE FALSE
    BY DEF lookupTenant
  <2> QED BY <1>3 DEF NamesApart, Tenants
<1>8. /\ TenantNames(v) = IF leg = "A" THEN <<call.domain, call.domain, "">> ELSE <<"", "", address>>
      /\ v.routeId = plan.rule
  BY PostedSays
<1> DEFINE names == TenantNames(v)
           none  == ""
           named == resolveTenantFromCandidates(names)
           ruled == {r.tenantId : r \in Rule(v.routeId)}
<1>9. /\ leg = "A" => names = <<call.domain, call.domain, none>>
      /\ leg = "B" => names = <<none, none, address>>
  BY <1>8
<1>10. none = "" /\ (address = none \/ lookupTenant(address) \subseteq S)
  BY <1>7
<1>11. named \subseteq S
  <2> DEFINE d == call.domain
             via == address
  <2> HIDE DEF names, S, none, d, via
  <2>1. CASE leg = "A"
    <3>1. \A n \in {d, d, none} : n = none \/ lookupTenant(n) \subseteq S
      BY <1>6, <2>1 DEF d
    <3>2. resolveTenantFromCandidates(<<d, d, none>>) \subseteq S
      BY Zenon, <1>10, <3>1, ThreeNames
    <3> QED BY Zenon, <1>9, <2>1, <3>2 DEF d
  <2>2. CASE leg = "B"
    <3>1. \A n \in {none, none, via} : n = none \/ lookupTenant(n) \subseteq S
      BY <1>10 DEF via
    <3>2. resolveTenantFromCandidates(<<none, none, via>>) \subseteq S
      BY Zenon, <1>10, <3>1, ThreeNames
    <3> QED BY Zenon, <1>9, <2>2, <3>2 DEF via
  <2> QED BY <2>1, <2>2
<1>12. ruled \subseteq S
  BY <1>3, <1>8 DEF RuleKept
<1>13. PayingTenant(v) = FirstFound(<<named, ruled>>)
  BY DEF PayingTenant
<1>14. FirstFound(<<named, ruled>>) = IF named # {} THEN named ELSE ruled
  <2> HIDE DEF named, ruled
  <2> QED BY FirstOf2
<1> HIDE DEF named, ruled, v
<1> QED BY <1>11, <1>12, <1>13, <1>14 DEF v

(* Whatever became of the rule, the tariff that the record is charged by   *)
(* has the rates of the one the allowance was computed from.               *)
LEMMA TariffFound ==
  ASSUME FlowInv, allowance.type # "insufficient",
         NEW leg \in {"A", "B"}, NEW cause, NEW answered, NEW address \in {plan.via, ""}
  PROVE  LET t == computeBillingContext(Posted(leg, cause, answered, address), plan.tenantId)
         IN  t \in Tariff /\ SameRates(Applied, t)
<1> DEFINE v == Posted(leg, cause, answered, address)
           default == db.billing[plan.tenantId].tariff
           t == computeBillingContext(v, plan.tenantId)
<1>1. /\ RuleKept /\ config = default /\ config \in Tariff /\ route \in BillingOf
  BY DEF FlowInv, Admitted
<1>2. /\ v.routeId = plan.rule /\ v.tariff = route.tariff
      /\ v.billed = (plan.rule # NoRule /\ route.billingEnabled)
  BY PostedSays
<1> HIDE DEF v
<1>3. route.tariff \in Tariff /\ default.mode \in Modes
  BY <1>1 DEF BillingOf, Tariff
<1>4. CASE \E r \in Rule(plan.rule) : r.billing.billingEnabled
  <2> DEFINE first == CHOOSE r \in Rule(plan.rule) : TRUE
  <2>1. t = first.billing.tariff
    BY <1>2, <1>4 DEF computeBillingContext
  <2>2. first \in Rule(plan.rule)
    BY <1>4
  <2> HIDE DEF first
  <2>3. t = route.tariff /\ route.billingEnabled
    BY <1>1, <1>4, <2>1, <2>2 DEF RuleKept
  <2> HIDE DEF t
  <2> QED BY <1>3, <2>3 DEF Applied, SameRates, t, v
<1>5. CASE ~(\E r \in Rule(plan.rule) : r.billing.billingEnabled) /\ plan.rule # NoRule /\ route.billingEnabled
  <2>1. t = [route.tariff EXCEPT !.mode = default.mode]
    BY <1>2, <1>5 DEF computeBillingContext
  <2>2. Applied = route.tariff
    BY <1>5 DEF Applied
  <2> HIDE DEF t, default
  <2>3. t \in Tariff /\ SameRates(Applied, t)
    BY <1>3, <2>1, <2>2 DEF SameRates, Tariff
  <2> QED BY <2>3 DEF t, v
<1>6. CASE ~(\E r \in Rule(plan.rule) : r.billing.billingEnabled) /\ ~(plan.rule # NoRule /\ route.billingEnabled)
  <2>1. t = default
    BY <1>2, <1>6 DEF computeBillingContext
  <2>2. Applied = config
    BY <1>1, <1>6 DEF Applied, RuleKept
  <2> HIDE DEF t, default
  <2> QED BY <1>1, <2>1, <2>2 DEF SameRates, t, v
<1> QED BY <1>4, <1>5, <1>6

(* A record is made in one step.                                           *)
LEMMA LastStep ==
  ASSUME [CallNext]_callVars, phase' = "recorded"
  PROVE  ingestCdr \/ UNCHANGED callVars
<1>1. \A p : Answer(p) => phase' \in {"menu", "ended", "talking"}
  BY DEF Answer, PhaseAfter
<1>2. ~Ask
  BY <1>1 DEF Ask, Admit
<1>3. ~Choose
  BY <1>1 DEF Choose, Request
<1> QED BY <1>2, <1>3 DEF CallNext, Dial, Request, Continue, EndCall, ChangeRule

(* What the record of a prepaid call is charged was in the balance of the  *)
(* tenant who pays when the dialplan admitted the call, whatever became of *)
(* the rule since (dialplanXML, computeBillingContext).                    *)
THEOREM RecordsCovered == NamesApart => (CallSpec => []RecordCovered)
<1> SUFFICES ASSUME NamesApart PROVE CallSpec => []RecordCovered
  OBVIOUS
<1>1. CallInit => RecordCovered
  BY DEF CallInit, RecordCovered
<1>2. FlowInv /\ RecordCovered /\ [CallNext]_callVars => RecordCovered'
  <2> SUFFICES ASSUME FlowInv, RecordCovered, [CallNext]_callVars, phase' = "recorded",
                      allowance'.type # "insufficient",
                      allowance'.type = "limited" => allowance'.seconds > 1
               PROVE  /\ record'.payer \subseteq {plan'.tenantId}
                      /\ \A t \in record'.tariff : Subtotal(t, seconds') <= Minute * balance'
    BY DEF RecordCovered
  <2>1. CASE UNCHANGED callVars
    BY <2>1 DEF callVars, vars, RecordCovered
  <2>2. CASE ingestCdr
    <3>1. PICK leg \in {"A", "B"}, cause \in Causes, answered \in BOOLEAN, address \in {plan.via, ""} :
            \E r \in mapPayload(Posted(leg, cause, answered, address)) : RecordIs(leg, Posted(leg, cause, answered, address), r)
      BY <2>2, RecordPosted
    <3> DEFINE v == Posted(leg, cause, answered, address)
    <3>2. /\ record'.payer = PayingTenant(v)
          /\ record'.tariff = {computeBillingContext(v, t) : t \in PayingTenant(v)}
      <4> HIDE DEF v
      <4>1. PICK r : RecordIs(leg, v, r)
        BY <3>1 DEF v
      <4> QED BY <4>1 DEF RecordIs, Charged
    <3>3. UNCHANGED <<plan, seconds, balance, allowance, route, config>>
      BY <2>2 DEF ingestCdr, vars
    <3>4. PayingTenant(v) \subseteq {plan.tenantId}
      BY <3>3, PayerFound
    <3>5. ASSUME NEW t \in record'.tariff PROVE Subtotal(t, seconds) <= Minute * balance
      <4>1. t = computeBillingContext(v, plan.tenantId)
        <5> HIDE DEF v
        <5> QED BY <3>2, <3>4, <3>5
      <4>2. t \in Tariff /\ SameRates(Applied, t)
        BY <3>3, <4>1, TariffFound
      <4>3. /\ balance \in Int /\ Applied \in Tariff /\ seconds \in Nat
            /\ allowance = calculatePrepaidAllowance(balance, Applied)
            /\ allowance.type = "limited" => seconds <= hangupSeconds(allowance) + 1
        BY <3>3 DEF FlowInv, Admitted, Applied, BillingOf
      <4> QED BY <3>3, <4>2, <4>3, AllowanceCoversRates
    <3> HIDE DEF v
    <3> QED BY <3>2, <3>3, <3>4, <3>5
  <2> QED BY <2>1, <2>2, LastStep
<1> QED BY <1>1, <1>2, FlowAlways, PTL DEF CallSpec

-----------------------------------------------------------------------------
LEMMA StatusFound ==
  ASSUME NEW r, r.billSeconds \in Nat, resolveFinalStatus(r) # "failed" \/ r.cause \in KnownCauses
  PROVE  StatusFilter(resolveFinalStatus(r), r)
<1> DEFINE status == resolveFinalStatus(r)
           talked == r.answered \/ r.billSeconds > 0
           cause  == r.cause
<1>1. status = IF talked THEN "answered"
               ELSE IF cause \in BusyCauses THEN "busy"
               ELSE IF cause \in CancelCauses THEN "cancelled"
               ELSE IF cause \in NoAnswerCauses THEN "no_answer"
               ELSE IF cause # "" THEN "failed"
               ELSE "unknown"
  BY DEF resolveFinalStatus
<1>2. /\ status = "answered"  => (StatusFilter(status, r) <=> talked)
      /\ status = "busy"      => (StatusFilter(status, r) <=> cause \in BusyCauses)
      /\ status = "cancelled" => (StatusFilter(status, r) <=> cause \in CancelCauses)
      /\ status = "no_answer" => (StatusFilter(status, r) <=> cause \in NoAnswerCauses)
      /\ status = "failed"    => (StatusFilter(status, r) <=> cause \in FailedCauses)
  <2> HIDE DEF status
  <2> QED BY DEF StatusFilter
<1>3. status = "unknown" => (StatusFilter(status, r) <=> r.billSeconds = 0 /\ ~r.answered /\ cause \notin KnownCauses)
  <2> HIDE DEF status
  <2> QED BY DEF StatusFilter
<1>4. ~talked => r.billSeconds = 0 /\ ~r.answered
  OBVIOUS
<1>5. status # "failed" \/ cause \in KnownCauses
  OBVIOUS
<1>6. cause = "" => cause \notin KnownCauses
  BY DEF KnownCauses, BusyCauses, CancelCauses, NoAnswerCauses, FailedCauses
<1> HIDE DEF status, talked, cause
<1>7. CASE talked
  BY <1>1, <1>2, <1>7 DEF status
<1>8. CASE ~talked /\ cause \in BusyCauses
  BY <1>1, <1>2, <1>8 DEF status
<1>9. CASE ~talked /\ cause \notin BusyCauses /\ cause \in CancelCauses
  BY <1>1, <1>2, <1>9 DEF status
<1>10. CASE ~talked /\ cause \notin BusyCauses /\ cause \notin CancelCauses /\ cause \in NoAnswerCauses
  BY <1>1, <1>2, <1>10 DEF status
<1>11. CASE ~talked /\ cause \notin BusyCauses /\ cause \notin CancelCauses /\ cause \notin NoAnswerCauses /\ cause # ""
  <2>1. status = "failed"
    BY <1>1, <1>11
  <2>2. cause \in FailedCauses
    BY <1>5, <1>11, <2>1 DEF KnownCauses
  <2> QED BY <1>2, <2>1, <2>2 DEF status
<1>12. CASE ~talked /\ cause \notin BusyCauses /\ cause \notin CancelCauses /\ cause \notin NoAnswerCauses /\ cause = ""
  <2>1. status = "unknown"
    BY <1>1, <1>12
  <2> QED BY <1>3, <1>4, <1>6, <1>12, <2>1 DEF status
<1> QED BY <1>7, <1>8, <1>9, <1>10, <1>11, <1>12

(* What is on a portal user's list he may open, what he may open is on his *)
(* list if neither lacks a tenant, and a record is found by the status it  *)
(* is shown with, whoever the portal user and whatever the cause           *)
(* (listCdrs, ensureCdrAccess, resolveFinalStatus).                        *)
THEOREM RecordsAreFound == CallSpec => []RecordsFound
<1>1. FlowInv => RecordsFound
  <2> SUFFICES ASSUME FlowInv PROVE RecordsFound
    OBVIOUS
  <2> DEFINE r == record.entity
  <2>1. ListedIffOpened
    <3> SUFFICES ASSUME phase = "recorded", record.leg = "B", NEW s \in Scopes
                 PROVE  /\ listCdrs(r, s) => ensureCdrAccess(r, s)
                        /\ ensureCdrAccess(r, s) =>
                             \/ listCdrs(r, s)
                             \/ /\ s.role # "super_admin"
                                /\ \/ s.tenantIds = {}
                                   \/ r.tenantId = "" /\ s.role \notin {"agent", "agent_lead"}
      BY DEF ListedIffOpened
    <3>1. r.leg = "B" /\ (r.tenantId = "" => r.agentId = "")
      BY DEF FlowInv, Recorded
    <3>2. CASE s.role = "super_admin"
      BY <3>1, <3>2 DEF listCdrs, ensureCdrAccess
    <3>3. CASE s.role # "super_admin"
      <4> DEFINE theirs == resolveAccessibleAgentIds(s)
                 byAgent == s.role \in {"agent", "agent_lead"}
      <4>1. byAgent => "" \notin theirs /\ (s.agentId = "" => theirs = {})
        BY DEF resolveAccessibleAgentIds
      <4>2. listCdrs(r, s) <=> r.tenantId \in s.tenantIds /\ (byAgent => s.agentId # "") /\ r.agentId \in theirs
        BY <3>1, <3>3 DEF listCdrs
      <4>3. ensureCdrAccess(r, s) <=>
              /\ s.tenantIds # {} /\ r.tenantId # "" => r.tenantId \in s.tenantIds
              /\ r.agentId \in theirs
        BY <3>3 DEF ensureCdrAccess
      <4> HIDE DEF theirs, byAgent, r
      <4>4. listCdrs(r, s) => ensureCdrAccess(r, s)
        BY <4>2, <4>3
      <4>5. ASSUME ensureCdrAccess(r, s), s.tenantIds # {}, r.tenantId # ""
            PROVE  listCdrs(r, s)
        BY <4>1, <4>2, <4>3, <4>5
      <4>6. ASSUME ensureCdrAccess(r, s), s.tenantIds # {}, r.tenantId = ""
            PROVE  ~byAgent
        BY <3>1, <4>1, <4>3, <4>6
      <4> QED BY <3>3, <4>4, <4>5, <4>6 DEF byAgent
    <3> QED BY <3>2, <3>3
  <2>2. ShownStatusFound
    <3> SUFFICES ASSUME phase = "recorded", resolveFinalStatus(r) # "failed" \/ r.cause \in KnownCauses
                 PROVE  StatusFilter(resolveFinalStatus(r), r)
      BY DEF ShownStatusFound
    <3>1. r.billSeconds \in Nat /\ r.answered \in BOOLEAN
      BY DEF FlowInv, Recorded
    <3> HIDE DEF r
    <3> QED BY <3>1, StatusFound
  <2> QED BY <2>1, <2>2 DEF RecordsFound
<1> QED BY <1>1, FlowAlways, PTL

-----------------------------------------------------------------------------
(* Phones.  A registered phone that dials no route keeps the tenant it     *)
(* registered with.                                                        *)
LEMMA PhoneKept ==
  ASSUME StrangersOutside, FlowInv
  PROVE  PhoneKeepsTenant
<1> SUFFICES ASSUME phase \notin {"dialled", "asked"}, HasUser(call.caller, call.context), RouteOf(call) = {}
             PROVE  plan.tenantId = call.context
  BY DEF PhoneKeepsTenant, Registered, DidOf
<1>1. PICK w \in Worlds : TablesKept(w) /\ CallerKept(w)
  BY DEF FlowInv
<1>2. TablesSound /\ db.tenants = w.db.tenants
  BY <1>1, WorldsSound DEF TablesKept, Fixed
<1> DEFINE t == resolveTenant(call.domain, call.context, call.destination, Nobody)
<1>3. plan.tenantId = t.id
  BY <1>2, TenantKnown DEF FlowInv, Answered
<1>4. PICK x \in Tenants : x.id = call.context
  BY <1>2 DEF HasUser, TablesSound
<1>5. w.caller.user # Nobody
  BY <1>1, <1>2, <1>4 DEF CallerKept, StrangersOutside, Tenants
<1> DEFINE none == ""
           d == resolveTenant(call.domain, none, Nobody, w.caller.user)
<1>6. call.context = d.id
  BY <1>1, <1>5 DEF CallerKept, directoryXML
<1>7. CASE TenantsOf(call.domain) # {}
  <2> HIDE DEF none
  <2>1. t \in TenantsOf(call.domain) /\ d \in TenantsOf(call.domain)
    BY <1>2, <1>7, Resolved
  <2>2. t = d
    <3> HIDE DEF t, d
    <3> QED BY <1>2, <2>1 DEF TenantsOf, TablesSound
  <2> QED BY <1>3, <1>6, <2>2
<1>8. CASE TenantsOf(call.domain) = {}
  <2>1. Exists(call.context)
    BY <1>4 DEF Exists
  <2>2. t.id = call.context
    BY <1>2, <1>8, <2>1, Resolved
  <2> QED BY <1>3, <2>2
<1> QED BY <1>7, <1>8

(* A bridge to a user leads to one whom the directory knows there.         *)
LEMMA UserReached ==
  ASSUME FlowInv
  PROVE  BridgeReachesUser
<1> SUFFICES ASSUME plan.app = "user", RouteOf(call) = {}, At(call.destination) = 0
             PROVE  directoryXML(plan.to, plan.via) = [realm |-> plan.via, context |-> plan.tenantId, known |-> TRUE]
  BY DEF BridgeReachesUser, DidOf
<1>1. PICK w \in Worlds : TablesKept(w) /\ CallerKept(w)
  BY DEF FlowInv
<1>2. TablesSound
  BY <1>1, WorldsSound
<1>3. phase \notin Early
  BY DEF FlowInv, Waiting
<1>4. plan.tenantId = TenantOf(call)
  BY <1>3 DEF FlowInv, Answered, Early
<1>5. PICK p \in LocalOf(call) : plan.app = p.app /\ plan.to = p.to /\ plan.via = p.via
  BY <1>3 DEF FlowInv, Answered, Early
<1>6. HasUser(p.to, TenantOf(call)) /\ p.via = Domain(TenantOf(call))
  BY <1>5, LocalPlan DEF LocalOf
<1>7. PICK t \in Tenants : t.id = TenantOf(call)
  BY <1>2, TenantKnown DEF Exists
<1>8. plan.via = t.domain /\ plan.tenantId = t.id /\ HasUser(plan.to, t.id)
  BY <1>2, <1>4, <1>5, <1>6, <1>7, DomainOf
<1> DEFINE none == ""
<1>9. resolveTenant(plan.via, none, Nobody, plan.to) = t
  <2> HIDE DEF none
  <2> QED BY <1>2, <1>8, DomainResolved
<1>10. directoryXML(plan.to, plan.via) = [realm |-> t.domain, context |-> t.id, known |-> HasUser(plan.to, t.id)]
  BY <1>9 DEF directoryXML
<1>11. HasUser(plan.to, t.id) = TRUE
  BY <1>8 DEF HasUser
<1> QED BY <1>8, <1>10, <1>11

(* The directory and the dialplan agree on the tenant of a phone           *)
(* (directoryXML, resolveTenant, dialplanXML).                             *)
THEOREM TenantIsKept == StrangersOutside => (CallSpec => []TenantKept)
<1> SUFFICES ASSUME StrangersOutside PROVE CallSpec => []TenantKept
  OBVIOUS
<1>1. FlowInv => TenantKept
  BY PhoneKept, UserReached DEF TenantKept
<1> QED BY <1>1, FlowAlways, PTL

-----------------------------------------------------------------------------
(* Menus.  The owners of a number that is an extension are tenants that    *)
(* have it.                                                                *)
LEMMA NotEmpty ==
  ASSUME NEW n, Len(n) \in 2..6
  PROVE  n # Nobody
<1> DEFINE size == Len(n)
<1>1. Len(Nobody) = 0
  BY DEF Nobody
<1>2. size # 0
  <2>1. size \in 2..6
    OBVIOUS
  <2> HIDE DEF size
  <2> QED BY <2>1
<1> QED BY <1>1, <1>2, Zenon

LEMMA OwnersFound ==
  ASSUME TablesSound, NEW number, number # Nobody, NEW tenantId, HasUser(number, tenantId)
  PROVE  LET owners == OwnersOf(findUserForDestination(number))
         IN  owners # {} /\ \A t \in owners : HasUser(number, t.id)
<1> DEFINE digits     == DigitsOf(number)
           candidates == <<number, digits>> \o [i \in 1..Len(digits) |-> DropFirst(digits, i)]
           users      == [i \in DOMAIN candidates |->
             IF candidates[i] = Nobody THEN {} ELSE Earliest(db.users, UsersCalled(candidates[i]))]
           first      == Earliest(db.users, UsersCalled(number))
<1>1. findUserForDestination(number) = FirstFound(users)
  BY DEF findUserForDestination
<1>2. db.users \in Seq(ToSet(db.users))
  BY DEF TablesSound, Fixed, Lists
<1>3. first # {} /\ first \subseteq UsersCalled(number) \cap ToSet(db.users)
  <2>1. PICK u \in ToSet(db.users) : u.id = number
    BY DEF HasUser
  <2>2. u \in UsersCalled(number)
    BY <2>1 DEF UsersCalled
  <2> QED BY <1>2, <2>2, EarliestAmong, EarliestExists
<1>4. DOMAIN candidates \subseteq Nat \ {0} /\ 1 \in DOMAIN candidates /\ candidates[1] = number
  <2> DEFINE rest == [i \in 1..Len(digits) |-> DropFirst(digits, i)]
  <2>1. candidates = <<number, digits>> \o rest
    OBVIOUS
  <2> HIDE DEF rest, digits
  <2> QED OBVIOUS
<1>5. users[1] = first /\ 1 \in DOMAIN users /\ DOMAIN users \subseteq Nat \ {0}
  <2> HIDE DEF candidates, first
  <2> QED BY <1>4 DEF first
<1>6. FirstFound(users) = first
  <2> HIDE DEF users, first
  <2>1. \A j \in DOMAIN users : j < 1 => users[j] = {}
    BY <1>5
  <2> QED BY <1>3, <1>5, <2>1, FirstFoundAt
<1>7. findUserForDestination(number) = first
  BY <1>1, <1>6
<1> HIDE DEF first
<1>8. \A t \in OwnersOf(first) : HasUser(number, t.id)
  BY <1>3 DEF OwnersOf, HasUser, UsersCalled
<1>9. OwnersOf(first) # {}
  <2>1. PICK u \in first : u \in ToSet(db.users)
    BY <1>3
  <2>2. PICK t \in Tenants : t.id = u.tenantId
    BY <2>1 DEF TablesSound
  <2> QED BY <2>1, <2>2 DEF OwnersOf
<1> QED BY <1>7, <1>8, <1>9

LEMMA ExtensionPlanned ==
  ASSUME NEW tenantId, NEW domain, NEW destination,
         Len(destination) \in 2..6, AllIn(destination, Digit), HasUser(destination, tenantId)
  PROVE  LocalPlans(tenantId, domain, destination) # {}
<1> DEFINE cfg     == RouteCfg(tenantId)
           inside  == AfterPrefix(destination, cfg.internalPrefix)
           mailbox == AfterPrefix(destination, cfg.voicemailPrefix)
           at      == At(destination)
           a == IF Len(destination) \in 2..6 /\ AllIn(destination, Digit) /\ HasUser(destination, tenantId)
                  THEN {Plan("user", destination, domain, tenantId)} ELSE {}
           b == IF inside # Nobody /\ HasUser(inside, tenantId) THEN {Plan("user", inside, domain, tenantId)} ELSE {}
           c == IF mailbox # Nobody /\ HasUser(mailbox, tenantId)
                  THEN {Plan("mailbox", mailbox, domain, tenantId)} ELSE {}
           d == IF at > 1 /\ at < Len(destination)
                  THEN {Plan("user", SubSeq(destination, 1, at - 1), destination[at + 1], tenantId)} ELSE {}
<1>1. LocalPlans(tenantId, domain, destination) = FirstFound(<<a, b, c, d>>)
  BY DEF LocalPlans
<1>2. a # {}
  OBVIOUS
<1> HIDE DEF a, b, c, d
<1> QED BY <1>1, <1>2, FirstOf4

(* A caller from outside who chooses an extension in a menu reaches it in  *)
(* the tenant of the menu (buildIvrDialplan, resolveTenant).               *)
THEOREM MenuReaches == ExtensionsShort => (CallSpec => []MenuReachesExtension)
<1> SUFFICES ASSUME ExtensionsShort PROVE CallSpec => []MenuReachesExtension
  OBVIOUS
<1>1. FlowInv => MenuReachesExtension
  <2> DEFINE number == call.destination
  <2> SUFFICES ASSUME FlowInv, phase \in {"talking", "ended"}, HasUser(number, began),
                      \A t \in Tenants : HasUser(number, t.id) => t.id = began,
                      call.domain \notin {t.domain : t \in Tenants}, ~Exists(call.context), RouteOf(call) = {},
                      resolveForDestination(began, number, call.context) = {}
               PROVE  plan.tenantId = began /\ plan.to = number
    BY DEF MenuReachesExtension, DidOf
  <2>1. PICK w \in Worlds : TablesKept(w) /\ CallerKept(w)
    BY DEF FlowInv
  <2>2. TablesSound /\ db.users = w.db.users
    BY <2>1, WorldsSound DEF TablesKept, Fixed
  <2>3. Len(number) \in 2..6 /\ AllIn(number, Digit) /\ number # Nobody
    <3> DEFINE n == number
    <3> HIDE DEF n
    <3>1. PICK u \in ToSet(db.users) : u.id = n
      BY DEF HasUser, n
    <3>2. Len(n) \in 2..6 /\ AllIn(n, Digit)
      BY <2>2, <3>1 DEF ExtensionsShort
    <3>3. n # Nobody
      <4>1. Len(n) \in 2..6
        BY <3>2
      <4> QED BY <4>1, Zenon, NotEmpty
    <3> QED BY <3>2, <3>3 DEF n
  <2> DEFINE owners == OwnersOf(findUserForDestination(number))
             t == resolveTenant(call.domain, call.context, number, Nobody)
  <2>4. owners # {} /\ \A x \in owners : HasUser(number, x.id)
    BY <2>2, <2>3, OwnersFound
  <2>5. t \in owners /\ t \in Tenants
    <3>1. TenantsOf(call.domain) = {}
      BY DEF TenantsOf
    <3> QED BY <2>2, <2>4, <3>1, Resolved
  <2>6. t.id = began
    <3> HIDE DEF t, owners
    <3> QED BY <2>4, <2>5
  <2>7. TenantOf(call) = began /\ plan.tenantId = began
    BY <2>2, <2>6, TenantKnown DEF FlowInv, Answered
  <2>8. CustomOf(call) = {} /\ LocalOf(call) # {}
    <3>1. CustomOf(call) = {}
      BY <2>7 DEF CustomOf
    <3> QED BY <2>3, <2>7, <3>1, ExtensionPlanned DEF LocalOf
  <2>9. PICK p \in LocalOf(call) : plan.to = p.to
    BY <2>8 DEF FlowInv, Answered
  <2>10. p.to = number
    BY <2>3, <2>7, <2>9, LocalPlan DEF LocalOf
  <2> QED BY <2>7, <2>9, <2>10
<1> QED BY <1>1, FlowAlways, PTL
=============================================================================
