------------------------------ MODULE MCCallFlow ------------------------------
(* Two tenants with a few rows in every table, and the callers and numbers *)
(* that tell the decisions of the dialplan apart.  A behaviour is a call,  *)
(* or, when nobody calls, what becomes of the recordings of the calls there *)
(* were and of the prompts: a recording does not depend on where its call  *)
(* went.                                                                   *)
EXTENDS CallFlow, Recordings

NoCaller    == [user |-> Nobody, number |-> Nobody, domain |-> "", context |-> ""]
NobodyCalls == call.caller = NoCaller

CentreInit == CallInit /\ RecordingsInit /\ (~NobodyCalls => storage.mode = "local")

CentreNext ==
  \/ ~NobodyCalls /\ CallNext /\ UNCHANGED recVars
  \/ NobodyCalls /\ RecordingsNext /\ UNCHANGED callVars

CentreSpec == CentreInit /\ [][CentreNext]_<<callVars, recVars>>

Ext1 == <<"1", "0", "1">>
Ext2 == <<"1", "0", "2">>
Ext3 == <<"1", "0", "3">>
Did  == <<"8", "4", "2", "8", "1", "0", "2">>      \* ends with the number of a user
Pstn == <<"0", "9", "0", "0", "0", "0", "7">>
Abroad == <<"0", "0", "4", "4", "2", "0", "0", "0">>
Menu == <<"m">>

Cheap == [rate |-> 1, increment |-> 2, fee |-> 0, mode |-> "full_block"]
Block == [rate |-> 5, increment |-> 2, fee |-> 2, mode |-> "block_plus_one"]

Billing(prepaid, balances, tariff) == [prepaidEnabled |-> prepaid, balance |-> balances, tariff |-> tariff]
OutRule(id, tenantId, prefix, strip, gateway, billed, tariff, random) ==
  [id |-> id, tenantId |-> tenantId, enabled |-> TRUE, matchPrefix |-> prefix, stripDigits |-> strip,
   prepend |-> <<>>, gateway |-> gateway, randomizeCallerId |-> random,
   billing |-> [billingEnabled |-> billed, tariff |-> tariff]]
Inbound(type, value) ==
  [tenantId |-> "t2", enabled |-> TRUE, didNumber |-> Did, destinationType |-> type, destinationValue |-> value]
Option(digit, type, value) == [digit |-> digit, actionType |-> type, actionValue |-> value]

Tables(inbound, rules, outbound, billing1, deferred) ==
  [tenants |-> <<[id |-> "t1", domain |-> "d1"], [id |-> "t2", domain |-> "d2"]>>,
   users |-> <<[id |-> Ext1, tenantId |-> "t1"], [id |-> Ext1, tenantId |-> "t2"],
               [id |-> Ext2, tenantId |-> "t1"], [id |-> Ext3, tenantId |-> "t2"]>>,
   inbound |-> inbound, rules |-> rules, outbound |-> outbound,
   menus |-> (Menu :> [options |-> <<Option("1", "extension", Ext3), Option("2", "extension", Pstn), Option("3", "voicemail", Ext3)>>,
                       timeoutAction |-> NoAction, invalidAction |-> [actionType |-> "extension", actionValue |-> Ext1]]),
   routing |-> ("t1" :> [internalPrefix |-> <<"9">>, voicemailPrefix |-> <<"*", "9">>, pstnGateway |-> "g1",
                         enableE164 |-> TRUE, recordInternalOnAnswer |-> deferred,
                         recordOutboundOnAnswer |-> deferred, recordInboundOnAnswer |-> deferred]),
   billing |-> ("t1" :> billing1 @@ "t2" :> Billing(FALSE, 0, Cheap)),
   gateways |-> ("g1" :> Nobody @@ "g2" :> Pstn),
   callerIds |-> <<[tenantId |-> "t1", gateway |-> "", active |-> TRUE, number |-> Abroad],
                   [tenantId |-> "t1", gateway |-> "g2", active |-> FALSE, number |-> Did]>>,
   agents |-> <<[id |-> "lead", tenantId |-> "t1", extension |-> Ext2, parent |-> ""],
                [id |-> "agent", tenantId |-> "t1", extension |-> Ext1, parent |-> "lead"],
                [id |-> "other", tenantId |-> "t2", extension |-> Ext1, parent |-> ""]>>]

Phone(user, domain) == [user |-> user, number |-> user, domain |-> domain, context |-> ""]
Trunk == [user |-> Nobody, number |-> Pstn, domain |-> "ip", context |-> "public"]

CustomRule(pattern, type, actions) ==
  [tenantId |-> "t1", enabled |-> TRUE, pattern |-> pattern, matchType |-> type, context |-> "",
   kind |-> "external", recordingEnabled |-> TRUE, actions |-> actions]

Default == Billing(TRUE, 7, Cheap)
NoRules == <<>>
OneRule == <<OutRule(1, "t2", <<>>, 0, "g2", FALSE, Cheap, FALSE), OutRule(2, "t1", <<"^", "0">>, 1, "g2", TRUE, Block, TRUE)>>
Emptied == <<OutRule(3, "t1", <<>>, 9, "", TRUE, Block, FALSE)>>

(* Every tariff, with a rule that bills by it or by the default.           *)
AllTariffs ==
  {[db |-> Tables(<<>>, <<>>, <<OutRule(2, "t1", <<>>, 0, "g1", billed, t, FALSE)>>, Billing(TRUE, b, d), FALSE),
    caller |-> Phone(Ext1, "d1"), destination |-> Pstn] :
     billed \in BOOLEAN, t \in Tariff, d \in {Cheap, Block}, b \in Balances}
DefaultTariffs ==
  {[db |-> Tables(<<>>, <<>>, NoRules, Billing(TRUE, b, d), TRUE), caller |-> Phone(Ext1, "d1"), destination |-> Pstn] :
     d \in Tariff, b \in Balances}

(* Every number from every caller, with every set of rules; recording      *)
(* waits for the answer where there are custom rules.                      *)
AllNumbers ==
  {[db |-> Tables(<<i>>, c, o, Default, c # <<>>), caller |-> p, destination |-> n] :
     i \in {Inbound("ivr", Menu), Inbound("ivr", Nobody), Inbound("extension", Ext3), Inbound("sip_uri", Pstn),
            Inbound("voicemail", Ext3), Inbound("", Nobody)},
     c \in {<<>>, <<CustomRule(<<"0", "0">>, "prefix", <<"bridge">>), CustomRule(Ext2, "exact", <<"record_session">>)>>},
     o \in {NoRules, OneRule, Emptied},
     p \in {Phone(Ext1, "d1"), Phone(Ext1, "d2"), Phone(Ext3, "gone"), Trunk},
     n \in {<<>>, Ext1, Ext2, Ext3, Did, Pstn, Abroad, <<"9">> \o Ext1, <<"*", "9">> \o Ext1,
            Ext1 \o <<"@", "d2">>, <<"+">> \o Pstn, <<"7">>}}

Silence == {[db |-> Tables(<<>>, <<>>, NoRules, Default, FALSE), caller |-> NoCaller, destination |-> Nobody]}

MCWorlds == AllTariffs \cup DefaultTariffs \cup AllNumbers \cup Silence

(* Settings that do not use a bucket, and two that do.                     *)
MCStorages ==
  {[mode |-> "local", bucket |-> "", prefix |-> <<>>], [mode |-> "cdn", bucket |-> "", prefix |-> <<"p">>],
   [mode |-> "cdn", bucket |-> "b1", prefix |-> <<"p">>], [mode |-> "cdn", bucket |-> "b2", prefix |-> <<>>]}

(* Of each role somebody with a tenant and somebody without, and agents     *)
(* and leads without an agent.                                             *)
MCScopes ==
  {[role |-> "tenant_admin", tenantIds |-> {}, agentId |-> ""], [role |-> "agent_lead", tenantIds |-> {}, agentId |-> "lead"],
   [role |-> "agent", tenantIds |-> {}, agentId |-> "agent"], [role |-> "agent", tenantIds |-> {"t1"}, agentId |-> ""],
   [role |-> "super_admin", tenantIds |-> {}, agentId |-> ""], [role |-> "tenant_admin", tenantIds |-> {"t1"}, agentId |-> ""],
   [role |-> "agent_lead", tenantIds |-> {"t1"}, agentId |-> "lead"], [role |-> "agent_lead", tenantIds |-> {"t1"}, agentId |-> ""],
   [role |-> "agent", tenantIds |-> {"t1"}, agentId |-> "agent"], [role |-> "agent", tenantIds |-> {"t2"}, agentId |-> "other"]}

(* What the theorems of CallFlow ask of names holds of these worlds.       *)
ASSUME NamesAssumption == NamesApart /\ StrangersOutside /\ ExtensionsShort
=============================================================================
