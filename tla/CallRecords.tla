----------------------------- MODULE CallRecords -----------------------------
(***************************************************************************)
(* How a record that FreeSWITCH posts is read, and who sees it             *)
(* (cdr.service.ts).  A record is what a leg of a call leaves behind: a    *)
(* few channel variables, of which one that was never set is Nobody or "". *)
(***************************************************************************)
EXTENDS Dialplan

(* The first value that was set.                                           *)
coalesceString(values) ==
  FirstFound([i \in DOMAIN values |-> IF values[i] \in {"", Nobody} THEN {} ELSE {values[i]}])
OrElse(found, default) == IF found = {} THEN default ELSE CHOOSE v \in found : TRUE

resolveLeg(v) == IF v.direction = "inbound" THEN "A" ELSE "B"

-----------------------------------------------------------------------------
(* Numbers.                                                                *)
isLikelyExtension(number) == Len(DigitsOf(number)) \in 2..6

NonEmpty(numbers) == SelectSeq(numbers, LAMBDA n : n # Nobody)

filterExternalNumberCandidates(numbers) == SelectSeq(NonEmpty(numbers), LAMBDA n : ~isLikelyExtension(n))

(* A national number, an international one, or the longest.                *)
pickBestNumber(numbers) ==
  LET given == NonEmpty(numbers)
      longest == {i \in DOMAIN given : \A j \in DOMAIN given :
                    Len(given[j]) < Len(given[i]) \/ (Len(given[j]) = Len(given[i]) /\ i <= j)}
      starts(s) == Earliest(given, {n \in ToSet(given) : Len(n) > 1 /\ n[1] = s /\ n[2] \in Digit})
  IN  OrElse(FirstFound(<<starts("0"), starts("+"), {given[i] : i \in longest}>>), Nobody)

pickLikelyExtension(numbers) ==
  OrElse(Earliest(numbers, {n \in ToSet(numbers) : isLikelyExtension(n)}), Nobody)

FromCandidates(v) == <<v.internalExtension, v.originator, v.userName, v.callerNumber>>
ToCandidates(v)   == <<v.toUser, v.destination>>

(* Who called, as far as the books go: a number that is no extension, or   *)
(* the billing number.                                                     *)
fromNumber(v) ==
  LET all      == FromCandidates(v)
      external == pickBestNumber(filterExternalNumberCandidates(all))
      number   == IF external # Nobody THEN external ELSE pickBestNumber(all)
  IN  IF v.billingCid # Nobody /\ (number = Nobody \/ isLikelyExtension(number)) THEN v.billingCid ELSE number

toNumber(v) ==
  LET external == pickBestNumber(filterExternalNumberCandidates(ToCandidates(v)))
  IN  IF external # Nobody THEN external ELSE pickBestNumber(ToCandidates(v))

agentExtension(v) == pickLikelyExtension(FromCandidates(v))

(* By the shape of the two numbers, or else what the channel says.         *)
resolveCallDirection(v) ==
  LET from == IF agentExtension(v) # Nobody THEN agentExtension(v) ELSE fromNumber(v)
      in   == isLikelyExtension(from)
      out  == isLikelyExtension(toNumber(v))
  IN  CASE in /\ ~out -> "outbound"
        [] ~in /\ out -> "inbound"
        [] in /\ out  -> "internal"
        [] OTHER      -> v.direction

-----------------------------------------------------------------------------
(* Tenant, tariff and agent.                                               *)
lookupTenant(name) == {t.id : t \in {x \in Tenants : name \in {x.id, x.domain}}}

resolveTenantFromCandidates(names) ==
  FirstFound([i \in DOMAIN names |-> IF names[i] = "" THEN {} ELSE lookupTenant(names[i])])

TenantNames(v) == <<v.realm, v.domainName, v.toDomain>>

(* The tenant that pays, if there is one.                                  *)
PayingTenant(v) ==
  FirstFound(<<resolveTenantFromCandidates(TenantNames(v)), {r.tenantId : r \in Rule(v.routeId)}>>)

(* The tenant the record is kept under; a name that is no tenant's is kept *)
(* as it is.                                                               *)
RecordTenant(v) == OrElse(FirstFound(<<PayingTenant(v), coalesceString(TenantNames(v))>>), "")

(* Variant: the variables of the call are not looked at.                   *)
TariffWithoutVariables(v, tenantId) ==
  IF \E r \in Rule(v.routeId) : r.billing.billingEnabled
    THEN (CHOOSE r \in Rule(v.routeId) : TRUE).billing.tariff
    ELSE db.billing[tenantId].tariff

(* A rule that still bills gives the tariff; otherwise the variables of    *)
(* the call do, which say nothing of the mode, or the default.             *)
computeBillingContext(v, tenantId) ==
  LET default == db.billing[tenantId].tariff
  IN  IF \E r \in Rule(v.routeId) : r.billing.billingEnabled
        THEN (CHOOSE r \in Rule(v.routeId) : TRUE).billing.tariff
      ELSE IF v.billed THEN [v.tariff EXCEPT !.mode = default.mode]
      ELSE default

collectAgentExtensionCandidates(v) ==
  {n \in ToSet(FromCandidates(v)) \cup {v.destination, fromNumber(v), toNumber(v), agentExtension(v)} :
     isLikelyExtension(n)}

(* Any of the agents of the tenant who have one of the extensions; without *)
(* a tenant nobody.                                                        *)
resolveAgentContext(v) ==
  LET found == {a.id : a \in {x \in ToSet(db.agents) :
                  RecordTenant(v) # "" /\ x.tenantId = RecordTenant(v) /\ x.extension \in collectAgentExtensionCandidates(v)}}
  IN  IF found = {} THEN {""} ELSE found

-----------------------------------------------------------------------------
BusyCauses     == {"USER_BUSY", "DESTINATION_OUT_OF_ORDER"}
CancelCauses   == {"ORIGINATOR_CANCEL"}
NoAnswerCauses == {"NO_ANSWER"}
FailedCauses   == {"NO_ROUTE_DESTINATION", "DESTINATION_OUT_OF_ORDER"}
KnownCauses    == BusyCauses \cup CancelCauses \cup NoAnswerCauses \cup FailedCauses
Causes         == KnownCauses \cup {"NORMAL_CLEARING", ""}

(* What the list shows of a record.                                        *)
resolveFinalStatus(r) ==
  IF r.answered \/ r.billSeconds > 0    THEN "answered"
  ELSE IF r.cause \in BusyCauses        THEN "busy"
  ELSE IF r.cause \in CancelCauses      THEN "cancelled"
  ELSE IF r.cause \in NoAnswerCauses    THEN "no_answer"
  ELSE IF r.cause # ""                  THEN "failed"
  ELSE "unknown"

(* What the list filters by.                                               *)
StatusFilter(status, r) ==
  CASE status = "answered"  -> r.billSeconds > 0 \/ r.answered
    [] status = "busy"      -> r.cause \in BusyCauses
    [] status = "cancelled" -> r.cause \in CancelCauses
    [] status = "no_answer" -> r.cause \in NoAnswerCauses
    [] status = "failed"    -> r.cause \in FailedCauses
    [] OTHER                -> r.billSeconds = 0 /\ ~r.answered /\ r.cause \notin KnownCauses

(* The record of a leg.                                                    *)
mapPayload(v) ==
  {[leg |-> resolveLeg(v), direction |-> resolveCallDirection(v), tenantId |-> RecordTenant(v),
    fromNumber |-> fromNumber(v), toNumber |-> toNumber(v), agentId |-> a,
    billSeconds |-> v.billSeconds, answered |-> v.answered, cause |-> v.cause] :
     a \in resolveAgentContext(v)}

-----------------------------------------------------------------------------
(* Who sees it.                                                            *)
(* An agent, and those below him within so many levels as there are agents. *)
Below(agentId, agents) ==
  LET within[n \in 0 .. Cardinality(agents)] ==
        IF n = 0 THEN {agentId}
        ELSE LET above == within[n - 1]
             IN  above \cup {a.id : a \in {x \in agents : x.parent \in above}}
  IN  within[Cardinality(agents)]

Everyone == {a.id : a \in ToSet(db.agents)} \cup {""}

(* A lead sees the agents below him, an agent himself, anyone else all and *)
(* the records of no agent.                                                *)
resolveAccessibleAgentIds(scope) ==
  LET visible == {a \in ToSet(db.agents) : scope.tenantIds = {} \/ a.tenantId \in scope.tenantIds}
  IN  CASE scope.role = "agent_lead" -> IF scope.agentId = "" THEN {} ELSE Below(scope.agentId, visible) \ {""}
        [] scope.role = "agent"      -> {scope.agentId} \ {""}
        [] OTHER                     -> Everyone

(* Variant: the tenant of a record is not looked at for an agent.          *)
AccessByAgent(r, scope) ==
  \/ scope.role = "super_admin"
  \/ r.agentId \in resolveAccessibleAgentIds(scope) \ (IF scope.role = "tenant_admin" THEN {} ELSE {""})

(* Opening one record.                                                     *)
ensureCdrAccess(r, scope) ==
  \/ scope.role = "super_admin"
  \/ /\ scope.tenantIds # {} /\ r.tenantId # "" => r.tenantId \in scope.tenantIds
     /\ r.agentId \in resolveAccessibleAgentIds(scope)

(* Every record on the list is that of a B leg.                            *)
listCdrs(r, scope) ==
  /\ r.leg = "B"
  /\ \/ scope.role = "super_admin"
     \/ /\ r.tenantId \in scope.tenantIds
        /\ scope.role \in {"agent", "agent_lead"} => scope.agentId # ""
        /\ r.agentId \in resolveAccessibleAgentIds(scope)
=============================================================================
