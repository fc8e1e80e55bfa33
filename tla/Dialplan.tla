------------------------------- MODULE Dialplan -------------------------------
(***************************************************************************)
(* What the backend answers when FreeSWITCH asks for a dialplan or a       *)
(* directory entry (fs-xml.controller.ts, fs.service.ts), with the custom  *)
(* rules (dialplan-config.service.ts) and the caller ids that are chosen   *)
(* for an outbound call (outbound-caller-id.service.ts).                   *)
(*                                                                         *)
(* A number is a sequence of symbols, a domain one symbol.  An answer is a *)
(* plan: the application that ends it, what that is applied to, and what   *)
(* else the later steps of the call depend on.                             *)
(***************************************************************************)
EXTENDS Integers, Sequences, FiniteSets, SequencesExt

VARIABLE db    \* the tables; rows in the order in which the code reads them

Digit  == {"0", "1", "2", "3", "4", "5", "6", "7", "8", "9"}
Nobody == <<>>
NoRule == 0

(* The first of the rows that is among the chosen ones, if one is.         *)
Earliest(rows, chosen) ==
  {rows[i] : i \in {k \in DOMAIN rows : rows[k] \in chosen /\ \A j \in 1 .. k - 1 : rows[j] \notin chosen}}

(* Those of a table that have a value, the value of one column.            *)
Tenants           == ToSet(db.tenants)
TenantsOf(domain) == {t \in Tenants : domain # "" /\ t.domain = domain}
UsersCalled(id)   == {u \in ToSet(db.users) : u.id = id}

(* The first alternative that offers something.                            *)
FirstFound(alternatives) ==
  LET found == {i \in DOMAIN alternatives : alternatives[i] # {}}
  IN  IF found = {} THEN {} ELSE alternatives[CHOOSE i \in found : \A j \in found : i <= j]

AllIn(number, symbols) == \A i \in DOMAIN number : number[i] \in symbols
DropFirst(number, n)   == SubSeq(number, n + 1, Len(number))
DigitsOf(number)       == SelectSeq(number, LAMBDA s : s \in Digit)

(* A pattern is a number, anchored when it begins with "^"; one that does  *)
(* not compile holds a symbol that no number holds.                        *)
RegexTest(pattern, number) ==
  IF pattern # <<>> /\ pattern[1] = "^" THEN IsPrefix(Tail(pattern), number)
  ELSE \E i \in 0..Len(number) : IsPrefix(pattern, DropFirst(number, i))

-----------------------------------------------------------------------------
(* Tenants.                                                                *)
Domain(tenantId) == (CHOOSE t \in Tenants : t.id = tenantId).domain
Exists(tenantId) == \E t \in Tenants : t.id = tenantId
HasUser(id, tenantId) == \E u \in ToSet(db.users) : u.id = id /\ u.tenantId = tenantId

(* A user whose number the destination is, or ends with, whoever he is.    *)
findUserForDestination(destination) ==
  LET digits     == DigitsOf(destination)
      candidates == <<destination, digits>> \o [i \in 1..Len(digits) |-> DropFirst(digits, i)]
  IN  FirstFound([i \in DOMAIN candidates |->
        IF candidates[i] = Nobody THEN {}
        ELSE Earliest(db.users, UsersCalled(candidates[i]))])

OwnersOf(users) == {t \in Tenants : \E u \in users : u.tenantId = t.id}

(* Variant: the destination is not looked at.                              *)
ResolveWithoutDestination(domain, context, destination, user) ==
  CHOOSE t \in FirstFound(<<
      Earliest(db.tenants, TenantsOf(domain)),
      Earliest(db.tenants, {t \in Tenants : t.id = context}),
      OwnersOf(Earliest(db.users, UsersCalled(user))),
      Earliest(db.tenants, Tenants) >>) : TRUE

(* Variant: the context is not looked at.                                  *)
ResolveWithoutContext(domain, context, destination, user) ==
  CHOOSE t \in FirstFound(<<
      Earliest(db.tenants, TenantsOf(domain)),
      OwnersOf(findUserForDestination(destination)),
      OwnersOf(Earliest(db.users, UsersCalled(user))),
      Earliest(db.tenants, Tenants) >>) : TRUE

(* By the domain, by the name of the context, by the destination, by the   *)
(* user; or else the tenant that was created first.                        *)
resolveTenant(domain, context, destination, user) ==
  CHOOSE t \in FirstFound(<<
      Earliest(db.tenants, TenantsOf(domain)),
      Earliest(db.tenants, {t \in Tenants : t.id = context}),
      OwnersOf(findUserForDestination(destination)),
      OwnersOf(Earliest(db.users, UsersCalled(user))),
      Earliest(db.tenants, Tenants) >>) : TRUE

(* What a phone that registers, or is called, is told.                     *)
directoryXML(user, domain) ==
  LET t == resolveTenant(domain, "", Nobody, user)
  IN  [realm |-> t.domain, context |-> t.id, known |-> HasUser(user, t.id)]

-----------------------------------------------------------------------------
(* Plans.                                                                  *)
Plan(app, to, via, tenantId) ==
  [app |-> app, to |-> to, via |-> via, tenantId |-> tenantId,
   rule |-> NoRule, onAnswer |-> <<>>]
Refuse(cause, tenantId) == Plan("hangup", Nobody, cause, tenantId)

(* A recording starts with the call, or is put off until it is answered.   *)
buildRecordingActions(plan, defer) ==
  IF defer THEN [plan EXCEPT !.onAnswer = Append(@, "record_session")] ELSE plan

RouteCfg(tenantId) ==
  IF tenantId \in DOMAIN db.routing THEN db.routing[tenantId]
  ELSE [internalPrefix |-> <<"9">>, voicemailPrefix |-> <<"*", "9">>, pstnGateway |-> "pstn",
        enableE164 |-> TRUE, recordInternalOnAnswer |-> FALSE,
        recordOutboundOnAnswer |-> FALSE, recordInboundOnAnswer |-> FALSE]

findInboundRoute(didNumber, tenantIds) ==
  Earliest(db.inbound, {r \in ToSet(db.inbound) : r.enabled /\ r.didNumber = didNumber /\ r.tenantId \in tenantIds})

handleInboundRoute(route) ==
  LET defer == RouteCfg(route.tenantId).recordInboundOnAnswer
      to    == route.destinationValue
  IN  CASE route.destinationType = "ivr" ->
             IF to \notin DOMAIN db.menus \/ db.menus[to].options = <<>>
               THEN Refuse("NORMAL_TEMPORARY_FAILURE", route.tenantId)
               ELSE buildRecordingActions(Plan("ivr", to, "", route.tenantId), defer)
        [] route.destinationType = "extension" ->
             buildRecordingActions(Plan("user", to, Domain(route.tenantId), route.tenantId), defer)
        [] route.destinationType = "sip_uri" ->
             buildRecordingActions(Plan("uri", to, "", route.tenantId), defer)
        [] route.destinationType = "voicemail" ->
             Plan("voicemail", to, Domain(route.tenantId), route.tenantId)
        [] OTHER -> Refuse("UNALLOCATED_NUMBER", route.tenantId)

-----------------------------------------------------------------------------
(* IVR menus.                                                              *)
NoAction == [actionType |-> "", actionValue |-> Nobody]
HangupAction == [actionType |-> "hangup", actionValue |-> Nobody]

(* An action without the value it needs hangs up.                          *)
appendMenuAction(action) == IF action.actionValue = Nobody THEN HangupAction ELSE action

(* What the menu says, or what it says of another case, or hang up.        *)
appendMenuFallback(primary, secondary) ==
  IF primary.actionType # ""        THEN appendMenuAction(primary)
  ELSE IF secondary.actionType # "" THEN appendMenuAction(secondary)
  ELSE HangupAction

(* What the document of a menu does for a key, "timeout" or "maxtries".    *)
buildIvrDialplan(menu, pressed) ==
  LET options == SelectSeq(menu.options, LAMBDA o : o.digit = pressed)
  IN  IF options # <<>> THEN [actionType |-> options[1].actionType, actionValue |-> options[1].actionValue]
      ELSE IF pressed = "timeout" THEN appendMenuFallback(menu.timeoutAction, menu.invalidAction)
      ELSE appendMenuFallback(menu.invalidAction, NoAction)

-----------------------------------------------------------------------------
(* Custom rules.                                                           *)
matches(rule, destination) ==
  /\ rule.pattern # <<>>
  /\ CASE rule.matchType = "exact"  -> destination = rule.pattern
       [] rule.matchType = "prefix" -> IsPrefix(rule.pattern, destination)
       [] OTHER                     -> RegexTest(rule.pattern, destination)

resolveForDestination(tenantId, destination, context) ==
  Earliest(db.rules, {r \in ToSet(db.rules) :
    /\ r.tenantId = tenantId /\ r.enabled
    /\ r.context # "" => r.context = (IF context = "" THEN tenantId ELSE context)
    /\ matches(r, destination)})

(* The actions of a rule are FreeSWITCH's own; a recording is added unless *)
(* they have one.                                                          *)
CustomPlan(rule, tenantId) ==
  LET cfg   == RouteCfg(tenantId)
      defer == IF rule.kind = "external" THEN cfg.recordOutboundOnAnswer ELSE cfg.recordInternalOnAnswer
      p     == Plan("actions", rule.actions, "", tenantId)
  IN  IF rule.recordingEnabled /\ "record_session" \notin ToSet(rule.actions)
        THEN buildRecordingActions(p, defer) ELSE p

-----------------------------------------------------------------------------
(* Users of the tenant.                                                    *)
AfterPrefix(destination, prefix) ==
  IF prefix # <<>> /\ IsPrefix(prefix, destination) THEN DropFirst(destination, Len(prefix)) ELSE Nobody

At(destination) == SelectInSeq(destination, LAMBDA s : s = "@")

(* A number of the tenant, one behind its prefix, a mailbox, an address.   *)
LocalPlans(tenantId, domain, destination) ==
  LET cfg     == RouteCfg(tenantId)
      inside  == AfterPrefix(destination, cfg.internalPrefix)
      mailbox == AfterPrefix(destination, cfg.voicemailPrefix)
      at      == At(destination)
  IN  FirstFound(<<
        IF Len(destination) \in 2..6 /\ AllIn(destination, Digit) /\ HasUser(destination, tenantId)
          THEN {Plan("user", destination, domain, tenantId)} ELSE {},
        IF inside # Nobody /\ HasUser(inside, tenantId)
          THEN {Plan("user", inside, domain, tenantId)} ELSE {},
        IF mailbox # Nobody /\ HasUser(mailbox, tenantId)
          THEN {Plan("mailbox", mailbox, domain, tenantId)} ELSE {},
        IF at > 1 /\ at < Len(destination)
          THEN {Plan("user", SubSeq(destination, 1, at - 1), destination[at + 1], tenantId)} ELSE {} >>)

-----------------------------------------------------------------------------
(* Gateways.                                                               *)
matchesOutboundRule(rule, destination) ==
  rule.matchPrefix = <<>> \/ RegexTest(rule.matchPrefix, destination)

(* Only the first rule that matches is tried.                              *)
MatchedRule(tenantId, destination) ==
  Earliest(db.outbound, {r \in ToSet(db.outbound) :
    r.tenantId = tenantId /\ r.enabled /\ matchesOutboundRule(r, destination)})

DialNumber(rule, destination) ==
  rule.prepend \o (IF rule.stripDigits >= Len(destination) THEN <<>> ELSE DropFirst(destination, rule.stripDigits))

RulePlans(tenantId, destination) ==
  {[Plan("gateway", DialNumber(r, destination),
         IF r.gateway = "" THEN RouteCfg(tenantId).pstnGateway ELSE r.gateway, tenantId) EXCEPT !.rule = r.id] :
     r \in {m \in MatchedRule(tenantId, destination) : DialNumber(m, destination) # <<>>}}

(* Without a rule the default gateway takes 00 and E.164 numbers.          *)
DefaultPlans(tenantId, destination) ==
  LET cfg     == RouteCfg(tenantId)
      digits  == IF destination # <<>> /\ destination[1] = "+" THEN Tail(destination) ELSE destination
      pstn(n) == {Plan("gateway", n, cfg.pstnGateway, tenantId)}
  IN  IF IsPrefix(<<"0", "0">>, destination) /\ AllIn(destination, Digit) /\ Len(destination) \in 8..17
        THEN pstn(DropFirst(destination, 2))
      ELSE IF AllIn(digits, Digit) /\ Len(digits) \in 6..15 /\ cfg.enableE164 THEN pstn(digits)
      ELSE {}

(* Caller ids of the gateway first, then those of no gateway.              *)
pickRandomCallerId(tenantId, gateway) ==
  LET own     == {c \in ToSet(db.callerIds) : c.tenantId = tenantId /\ c.active}
      pool(g) == {c \in own : c.gateway = g}
  IN  IF gateway = "" THEN own ELSE FirstFound(<<pool(gateway), pool("")>>)

Rule(id) == {r \in ToSet(db.outbound) : r.id = id}

(* Nobody stands for the number of the caller himself.                     *)
CallerNumbers(plan) ==
  LET own(r)    == IF r.gateway = "" THEN Nobody ELSE db.gateways[r.gateway]
      picked(r) == IF r.randomizeCallerId THEN {c.number : c \in pickRandomCallerId(plan.tenantId, r.gateway)} ELSE {}
  IN  FirstFound(<<UNION {picked(r) : r \in Rule(plan.rule)}, {own(r) : r \in Rule(plan.rule)}, {Nobody}>>)

-----------------------------------------------------------------------------
(* The answer to a request for a dialplan.                                 *)
RouteOf(call) ==
  LET resolved == resolveTenant(call.domain, call.context, call.destination, Nobody)
      anywhere == findInboundRoute(call.destination, {t.id : t \in Tenants})
  IN  IF call.destination = <<>> THEN {}
      ELSE FirstFound(<<anywhere, findInboundRoute(call.destination, {resolved.id})>>)

TenantOf(call) ==
  LET route == RouteOf(call)
  IN  IF route # {} THEN (CHOOSE r \in route : TRUE).tenantId
      ELSE resolveTenant(call.domain, call.context, call.destination, Nobody).id

(* A route for the number, a custom rule, a user, a rule, the default      *)
(* gateway, or nothing.                                                    *)
RoutePlan(call) ==
  LET tenantId == TenantOf(call)
      dest     == call.destination
  IN  CHOOSE p \in FirstFound(<<
        {handleInboundRoute(r) : r \in RouteOf(call)},
        {CustomPlan(r, tenantId) : r \in IF dest = <<>> THEN {} ELSE resolveForDestination(tenantId, dest, call.context)},
        LocalPlans(tenantId, Domain(tenantId), dest),
        RulePlans(tenantId, dest),
        DefaultPlans(tenantId, dest),
        {Refuse("NO_ROUTE_DESTINATION", tenantId)} >>) : TRUE

(* The scheduled hangup, if the call is limited, comes before the          *)
(* recording; a bridge to a user is only recorded.                         *)
BridgePlan(plan, limited) ==
  LET cfg == RouteCfg(plan.tenantId)
      dialled == IF plan.app = "gateway" /\ limited
                   THEN [plan EXCEPT !.onAnswer = Append(@, "sched_hangup")] ELSE plan
  IN  IF plan.app \notin {"gateway", "user"} THEN plan
      ELSE buildRecordingActions(dialled, IF plan.app = "gateway" THEN cfg.recordOutboundOnAnswer
                                          ELSE cfg.recordInternalOnAnswer)

(* What FreeSWITCH sends is picked out of many fields; the directory is    *)
(* asked with a user, anything else is taken for the dialplan.             *)
handleRequest(caller, destination) ==
  [destination |-> destination, caller |-> caller.number, domain |-> caller.domain,
   context |-> IF caller.user = Nobody THEN caller.context
               ELSE directoryXML(caller.user, caller.domain).context]
=============================================================================
