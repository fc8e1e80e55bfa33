------------------------------- MODULE CallFlow -------------------------------
(***************************************************************************)
(* A call from the moment FreeSWITCH asks what to do with it until its     *)
(* record is read: the dialplan that it is given, the menus it passes, the *)
(* allowance of a prepaid tenant and the tariff that the record is charged *)
(* by.  An outbound rule may be changed while the call it routed is up.    *)
(***************************************************************************)
EXTENDS BillingCost, CallRecords

CONSTANTS
  Worlds,        \* tables, a caller and the number he dials
  Keys,          \* what a caller does in a menu
  MaxTransfers,  \* bound: menus that a caller goes through
  Scopes         \* portal users who look at records

Lists == {"tenants", "users", "inbound", "rules", "outbound"}

BillingOf   == [billingEnabled : BOOLEAN, tariff : Tariff]
OutboundRow == [id : Nat \ {NoRule}, tenantId : STRING, enabled : BOOLEAN, matchPrefix : Seq(STRING),
                stripDigits : Nat, prepend : Seq(STRING), gateway : STRING,
                randomizeCallerId : BOOLEAN, billing : BillingOf]

(* The keys of the tables.  There is a tenant, each has a domain of its own *)
(* (createTenant) and a row of billing_configs, which getConfig makes.     *)
KeysKept(d) ==
  /\ Lists \cup {"billing", "routing"} \subseteq DOMAIN d
  /\ \A list \in Lists : d[list] \in Seq(ToSet(d[list]))
  /\ d.tenants # <<>>
  /\ \A s, t \in ToSet(d.tenants) : s.id = t.id \/ s.domain = t.domain => s = t
  /\ \A t \in ToSet(d.tenants) :
       t.domain # "" /\ d.billing[t.id] \in [prepaidEnabled : BOOLEAN, balance : Int, tariff : Tariff]
  /\ \A u \in ToSet(d.users) : \E t \in ToSet(d.tenants) : t.id = u.tenantId
  /\ \A r \in ToSet(d.outbound) : r \in OutboundRow
  /\ \A i, j \in DOMAIN d.outbound : d.outbound[i].id = d.outbound[j].id => i = j

ASSUME WorldsAssumption == \A w \in Worlds : KeysKept(w.db)

VARIABLES
  call,       \* what FreeSWITCH sends with the request
  plan,       \* the answer
  shown,      \* caller id that the gateway is given
  phase,      \* dialled, asked, menu, talking, ended or recorded
  transfers,  \* menus passed
  began,      \* the tenant of the first answer
  record      \* what the record of one leg says and who pays what for it

tables   == <<config, route, balance, db>>
callVars == <<vars, db, call, plan, shown, phase, transfers, began, record>>

NoPlan   == Plan("none", Nobody, "", "")
NoRecord == [leg |-> "none"]

-----------------------------------------------------------------------------
(* What the allowance of a call is computed from.                          *)
Reads(p) ==
  LET default == db.billing[p.tenantId].tariff
  IN  [config  |-> default,
       balance |-> db.billing[p.tenantId].balance,
       route   |-> OrElse({r.billing : r \in Rule(p.rule)}, [billingEnabled |-> FALSE, tariff |-> default])]

NoTariff == CHOOSE t \in Tariff : TRUE

CallInit ==
  /\ \E w \in Worlds : db = w.db /\ call = [caller |-> w.caller, destination |-> w.destination]
  /\ config = NoTariff /\ balance = 0 /\ route = [billingEnabled |-> FALSE, tariff |-> NoTariff]
  /\ allowance = NoAllowance("insufficient") /\ seconds = 0 /\ state = "asked"
  /\ plan = NoPlan /\ shown = Nobody /\ phase = "dialled"
  /\ transfers = 0 /\ began = "" /\ record = NoRecord

Fetch(row) == config' = row.config /\ balance' = row.balance /\ route' = row.route

(* FreeSWITCH asks about a call.                                           *)
Request(c) ==
  /\ call' = c /\ phase' = "asked" /\ Fetch(Reads(RoutePlan(c)))
  /\ UNCHANGED <<allowance, seconds, state>>

Dial ==
  /\ phase = "dialled"
  /\ Request(handleRequest(call.caller, call.destination))
  /\ UNCHANGED <<db, plan, shown, transfers, began, record>>

PhaseAfter(p) == CASE p.app = "ivr" -> "menu" [] p.app = "hangup" -> "ended" [] OTHER -> "talking"

Answer(p) ==
  /\ plan' = p /\ phase' = PhaseAfter(p)
  /\ began' = IF began = "" THEN p.tenantId ELSE began

(* A call through a gateway needs credit if its tenant is prepaid; one     *)
(* that a custom rule sends there does not.                                *)
Admit(p) ==
  /\ IF p.app = "gateway" /\ db.billing[p.tenantId].prepaidEnabled
       THEN /\ dialplanXML
            /\ Answer(IF allowance'.type = "insufficient" THEN Refuse("NO_CREDIT", p.tenantId)
                      ELSE BridgePlan(p, allowance'.type = "limited"))
       ELSE UNCHANGED vars /\ Answer(BridgePlan(p, FALSE))
  /\ shown' \in IF plan'.app = "gateway" THEN CallerNumbers(p) ELSE {Nobody}

Ask ==
  /\ phase = "asked" /\ Admit(RoutePlan(call))
  /\ UNCHANGED <<db, call, transfers, record>>

(* The choice of a menu is another call to make in the same context, or    *)
(* the end of this one.                                                    *)
Choose ==
  \E key \in Keys :
    LET choice == buildIvrDialplan(db.menus[plan.to], key)
        to     == choice.actionValue
    IN  /\ phase = "menu"
        /\ IF choice.actionType = "extension"
             THEN /\ transfers < MaxTransfers /\ transfers' = transfers + 1
                  /\ Request([call EXCEPT !.destination = to])
                  /\ UNCHANGED <<plan, began>>
             ELSE /\ Answer(IF choice.actionType = "hangup" THEN Refuse("NORMAL_CLEARING", plan.tenantId)
                            ELSE Plan(choice.actionType, to, Domain(plan.tenantId), plan.tenantId))
                  /\ UNCHANGED <<vars, call, transfers>>
        /\ UNCHANGED <<db, shown, record>>

(* FreeSWITCH.  A call lasts until somebody hangs up or the time comes     *)
(* that was scheduled when it was answered.                                *)
Continue ==
  /\ phase = "talking" /\ plan.app = "gateway"
  /\ \/ "sched_hangup" \in ToSet(plan.onAnswer) /\ Talk
     \/ /\ "sched_hangup" \notin ToSet(plan.onAnswer) /\ seconds < MaxSeconds
        /\ seconds' = seconds + 1
        /\ UNCHANGED <<tables, allowance, state>>
  /\ UNCHANGED <<db, call, plan, shown, phase, transfers, began, record>>

EndCall ==
  /\ phase = "talking" /\ phase' = "ended"
  /\ IF state = "up" THEN HangUp ELSE UNCHANGED vars
  /\ UNCHANGED <<db, call, plan, shown, transfers, began, record>>

(* An administrator deletes the rule of a call that is up, or it bills no  *)
(* longer.                                                                 *)
ChangeRule ==
  /\ phase = "talking"
  /\ \E i \in DOMAIN db.outbound :
       /\ db.outbound[i].id = plan.rule
       /\ \/ db' = [db EXCEPT !.outbound = RemoveAt(@, i)]
          \/ db' = [db EXCEPT !.outbound[i].billing.billingEnabled = FALSE]
  /\ UNCHANGED <<vars, call, plan, shown, phase, transfers, began, record>>

(* What FreeSWITCH reports of a leg.  The domain is that of the caller and *)
(* is not handed to the other leg, of which only the address says where it *)
(* went; a leg that nobody answered may have been sent nowhere.            *)
Posted(leg, cause, answered, address) ==
  LET gateway == plan.app = "gateway"
  IN  [direction |-> IF leg = "A" THEN "inbound" ELSE "outbound",
       realm |-> IF leg = "A" THEN call.domain ELSE "",
       domainName |-> IF leg = "A" THEN call.domain ELSE "",
       toDomain |-> IF leg = "B" THEN address ELSE "",
       internalExtension |-> IF gateway THEN call.caller ELSE Nobody,
       originator |-> IF leg = "B" THEN call.caller ELSE Nobody,
       userName |-> IF leg = "A" THEN call.caller ELSE Nobody,
       callerNumber |-> IF gateway /\ shown # Nobody THEN shown ELSE call.caller,
       toUser |-> plan.to,
       destination |-> IF leg = "A" THEN call.destination ELSE plan.to,
       routeId |-> plan.rule,
       billingCid |-> IF ~gateway THEN Nobody ELSE IF shown = Nobody THEN call.caller ELSE shown,
       billed |-> plan.rule # NoRule /\ route.billingEnabled, tariff |-> route.tariff,
       billSeconds |-> seconds, answered |-> answered, cause |-> cause]

(* The record, who pays for it and by which tariff.                        *)
Charged(leg, v, r) ==
  [entity |-> r, payer |-> PayingTenant(v), leg |-> leg,
   tariff |-> {computeBillingContext(v, t) : t \in PayingTenant(v)}]

ingestCdr ==
  /\ phase = "ended" /\ phase' = "recorded"
  /\ plan.app \notin {"actions", "ivr"}
  /\ \E leg \in {"A", "B"}, cause \in Causes, answered \in BOOLEAN, address \in {plan.via, ""} :
       LET v == Posted(leg, cause, answered, address)
       IN  /\ seconds > 0 => answered
           /\ answered => address = plan.via
           /\ leg = "B" => plan.app \in {"gateway", "user"}
           /\ \E r \in mapPayload(v) : record' = Charged(leg, v, r)
  /\ UNCHANGED <<vars, db, call, plan, shown, transfers, began>>

CallNext == Dial \/ Ask \/ Choose \/ Continue \/ EndCall \/ ChangeRule \/ ingestCdr

CallSpec == CallInit /\ [][CallNext]_callVars

-----------------------------------------------------------------------------
CallTypeOK ==
  /\ TypeOK
  /\ phase \in {"dialled", "asked", "menu", "talking", "ended", "recorded"}
  /\ transfers \in 0..MaxTransfers
  /\ phase = "menu" => plan.to \in DOMAIN db.menus
  /\ \A i \in DOMAIN plan.onAnswer : plan.onAnswer[i] \in {"sched_hangup", "record_session"}

(* What the record of a prepaid call is charged, to whoever is found to    *)
(* pay, was in the balance of that tenant when the dialplan admitted it,   *)
(* though the rule that routed the call was deleted or stopped billing in  *)
(* the meantime (dialplanXML and computeBillingContext).                   *)
RecordCovered ==
  phase = "recorded" /\ allowance.type # "insufficient"
    /\ (allowance.type = "limited" => allowance.seconds > 1) =>
    /\ record.payer \subseteq {plan.tenantId}
    /\ \A t \in record.tariff : Subtotal(t, seconds) <= Minute * balance

Registered(c) == HasUser(c.caller, c.context)
DidOf(c)      == RouteOf(c) # {}

(* A phone is served by the tenant in whose directory it registered,       *)
(* unless it dials the number of a route: the directory and the dialplan   *)
(* resolve the tenant alike (directoryXML, dialplanXML).                   *)
PhoneKeepsTenant ==
  phase \notin {"dialled", "asked"} /\ Registered(call) /\ ~DidOf(call) => plan.tenantId = call.context

(* A call that is bridged to a user of a tenant reaches a user the         *)
(* directory knows in that tenant; addresses and routes to extensions that *)
(* were deleted are excepted.                                              *)
BridgeReachesUser ==
  plan.app = "user" /\ ~DidOf(call) /\ At(call.destination) = 0 =>
    directoryXML(plan.to, plan.via) = [realm |-> plan.via, context |-> plan.tenantId, known |-> TRUE]

(* The directory and the dialplan agree on the tenant of a phone.          *)
TenantKept == PhoneKeepsTenant /\ BridgeReachesUser

(* A caller from outside who chooses an extension in a menu reaches it in  *)
(* the tenant of the menu, when no other tenant has that extension and no  *)
(* route or custom rule is in its way: the second request finds the tenant *)
(* again (buildIvrDialplan, resolveTenant).                                *)
MenuReachesExtension ==
  /\ plan.app # "none" /\ phase \in {"talking", "ended"} /\ transfers > 0
  /\ HasUser(call.destination, began)
  /\ \A t \in Tenants : HasUser(call.destination, t.id) => t.id = began
  /\ call.domain \notin {t.domain : t \in Tenants} /\ ~Exists(call.context) /\ ~DidOf(call)
  /\ resolveForDestination(began, call.destination, call.context) = {}
  => plan.tenantId = began /\ plan.to = call.destination

(* What is on the list of a portal user he may open.  What he may open is  *)
(* on his list if the record has a tenant and so has he: the list wants    *)
(* the one among the others, the test of one record looks at tenants only  *)
(* where there are any.  Records without a tenant are then opened by those *)
(* whose role does not go by agents (listCdrs, ensureCdrAccess).           *)
ListedIffOpened ==
  phase = "recorded" /\ record.leg = "B" =>
    LET r == record.entity
    IN  \A s \in Scopes :
          /\ listCdrs(r, s) => ensureCdrAccess(r, s)
          /\ ensureCdrAccess(r, s) =>
               \/ listCdrs(r, s)
               \/ /\ s.role # "super_admin"
                  /\ s.tenantIds = {} \/ (r.tenantId = "" /\ s.role \notin {"agent", "agent_lead"})

(* A record is found under the status that the list shows for it; "failed" *)
(* is also shown for causes that its filter does not know.                 *)
ShownStatusFound ==
  phase = "recorded" =>
    LET status == resolveFinalStatus(record.entity)
    IN  status # "failed" \/ record.entity.cause \in KnownCauses => StatusFilter(status, record.entity)

(* Who is shown a record may open it, and who may open one finds it on the *)
(* list, as it is shown there, unless a tenant is missing.                 *)
RecordsFound == ListedIffOpened /\ ShownStatusFound

-----------------------------------------------------------------------------
(* What the theorems ask of names.  A domain that a request carries is not *)
(* the id of another tenant, and no gateway is called like a tenant.       *)
GatewaysOf(d) ==
  ({r.gateway : r \in ToSet(d.outbound)} \cup {d.routing[t].pstnGateway : t \in DOMAIN d.routing}
     \cup {"pstn"}) \ {""}

NamesApart ==
  \A w \in Worlds : \A t \in ToSet(w.db.tenants) :
    /\ w.caller.domain = t.id => w.caller.domain = t.domain
    /\ t.id \notin GatewaysOf(w.db) /\ t.domain \notin GatewaysOf(w.db)

(* A call that names no user comes in a context of no tenant, such as      *)
(* those of the profiles, public and auto_dialer.                          *)
StrangersOutside ==
  \A w \in Worlds : w.caller.user = Nobody =>
    \A t \in ToSet(w.db.tenants) : t.id # w.caller.context

(* Extensions are as long as the dialplan takes them to be.                *)
ExtensionsShort ==
  \A w \in Worlds : \A u \in ToSet(w.db.users) : Len(u.id) \in 2..6 /\ AllIn(u.id, Digit)
=============================================================================
