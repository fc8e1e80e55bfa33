----------------------------- MODULE AgentPage -----------------------------
(***************************************************************************)
(* The page of the agents and their groups (agent-manager.tsx): two lists,   *)
(* a report, and two dialogs whose choices are fetched for the tenant that   *)
(* the form has.                                                             *)
(***************************************************************************)
EXTENDS PageTasks

AgentCells == {"agents", "groups", "owners", "extensions", "assigned", "accounts", "talktime"}

(* What the server rendered is shown, and the effect of the filters fetches  *)
(* the first page again.                                                     *)
AgentPageMounted ==
    Rendered([c \in AgentCells |->
        CASE c = "agents"   -> ListAsk("agent", All, All, Nothing, 1)
          [] c = "groups"   -> Every("group", All)
          [] c = "talktime" -> Every("agent", All)
          [] OTHER          -> NoAsk])
    @@ [kind |-> "agents", page |-> 1, tenant |-> All, group |-> All, search |-> Nothing, report |-> All,
        acting |-> [action |-> NotActing], dialog |-> NoDialog]

AgentsAtRest == AtRest("agents")

-----------------------------------------------------------------------------
FetchAgents(pg, page) ==
    Fetch("fetchPage", <<ListAsk("agent", pg.tenant, pg.group, pg.search, page)>>, <<"agents">>, "agentLoading")

FetchGroups(tenant) ==
    Fetch("fetchGroups", <<Every("group", tenant)>>, <<"groups">>, "groupLoading")

(* The choices of a dialog are emptied when they cannot be had.              *)
FetchOwnerOptions(tenant) ==
    Fetch("fetchOptions", <<Every("agent", tenant)>>, <<"owners">>, "ownerLoading")

OptionsFetched(pg, c, got, rest) ==
    Go(Settled(IF Fine(got) THEN ShowIn(pg, c.into[1], got[1])
               ELSE [Clear(pg, {c.into[1]}) EXCEPT !.asked = pg.asked], c), rest)

FetchPortalUsers(tenant, selected) ==
    [Fetch("fetchPortalUsers", <<Every("account", tenant)>>, <<"accounts">>, "accountLoading")
        EXCEPT !.arg = {selected} \ {Nothing}]

(* The account that is selected may not be in the list: it is fetched alone. *)
PortalUsersFetched(pg, c, got, rest) ==
    LET missing == c.arg \ { u.id : u \in got[1].items }
        detail(u) == [Fetch("fetchAccount", <<Row("read", "account", u)>>, <<>>, c.spin)
                         EXCEPT !.start = FALSE, !.arg = got[1].items] IN
    IF Fine(got) /\ missing # {} THEN Go(pg, <<detail(CHOOSE u \in missing : TRUE)>> \o rest)
                                 ELSE OptionsFetched(pg, c, got, rest)

AccountFetched(pg, c, got, rest) ==
    Go(Settled(ShowIn(pg, "accounts",
         [Empty EXCEPT !.items = c.arg \cup IF Fine(got) THEN {got[1].row} ELSE {}]), c), rest)

(* Two requests at a time: the extensions, and the agents that have them.    *)
FetchExtensions(tenant) ==
    Fetch("fetchExtensions", <<Every("extension", tenant), Every("agent", tenant)>>,
          <<"extensions", "assigned">>, "extensionLoading")

ExtensionsFetched(pg, c, got, rest) ==
    LET shown(k) == IF got[1].st = "ok" /\ got[k].st = "ok" THEN got[k] ELSE Empty IN
    Go(Settled(ShowIn(ShowIn(pg, "extensions", shown(1)), "assigned", shown(2)), c), rest)

FetchTalktime(pg) ==
    Fetch("fetchTalktime", <<Every("agent", pg.report)>>, <<"talktime">>, "talktimeLoading")

-----------------------------------------------------------------------------
(* The filters and the page are what the effect of the list depends on: a    *)
(* change of any of them fetches the first page.  The dialogs fetch their    *)
(* choices when they open and when the tenant or the account changes.        *)
ListControls(pg) == <<pg.page, pg.tenant, pg.group, pg.search>>

(* Variant: the tenant is not what the choices depend on.                   *)
AgentChoicesByAccount(pg) == <<pg.dialog.form.account>>

AgentChoices(pg) == <<pg.dialog.form.tenant, pg.dialog.form.account>>

AgentEffects(before, after) ==
    LET opened(d) == after.dialog.open = d /\ before.dialog.open # d
        stays(d) == after.dialog.open = d /\ before.dialog.open = d
        tenant == after.dialog.form.tenant
        choices == opened("agent") \/ (stays("agent") /\ AgentChoices(before) # AgentChoices(after))
        owners == opened("group") \/ (stays("group") /\ before.dialog.form.tenant # tenant) IN
    [page |-> after,
     jobs |-> (IF choices THEN <<Job(<<FetchExtensions(tenant)>>, ""),
                                 Job(<<FetchPortalUsers(tenant, after.dialog.form.account)>>, "")>> ELSE <<>>)
              \o (IF owners THEN <<Job(<<FetchOwnerOptions(tenant)>>, "")>> ELSE <<>>)
              \o (IF ListControls(before) # ListControls(after)
                  THEN <<Job(<<FetchAgents(after, 1)>>, "")>> ELSE <<>>)]

AgentDoes(pg, jobs) == Perform(pg, jobs, AgentEffects)

-----------------------------------------------------------------------------
SetTenantFilter(t) == AgentsAtRest /\ t # screen.tenant /\ AgentDoes([screen EXCEPT !.tenant = t], <<>>)

SetGroupFilter(g) == AgentsAtRest /\ g # screen.group /\ AgentDoes([screen EXCEPT !.group = g], <<>>)

SetSearch(s) == AgentsAtRest /\ s # screen.search /\ AgentDoes([screen EXCEPT !.search = s], <<>>)

SetReport(t) ==
    /\ AgentsAtRest /\ "talktimeLoading" \notin screen.busy
    /\ LET pg == [screen EXCEPT !.report = t] IN AgentDoes(pg, <<Job(<<FetchTalktime(pg)>>, "")>>)

GoToPage(p) ==
    /\ AgentsAtRest /\ "agentLoading" \notin screen.busy
    /\ p \in {1, screen.page - 1, screen.page + 1} /\ p \in 1..LastPage(screen.cells.agents.total)
    /\ AgentDoes(screen, <<Job(<<FetchAgents(screen, p)>>, "")>>)

ReloadGroups ==
    /\ AgentsAtRest /\ "groupLoading" \notin screen.busy
    /\ AgentDoes(screen, <<Job(<<FetchGroups(screen.tenant)>>, "")>>)

(* The tenant of a new row is the filter's, or the first.                    *)
FormTenant == IF screen.tenant = All THEN 1 ELSE screen.tenant

OpenCreateAgent ==
    /\ AgentsAtRest
    /\ AgentDoes([Clear(screen, {"accounts"}) EXCEPT
           !.dialog = Dialog("agent", Nothing, [tenant |-> FormTenant, group |-> All, account |-> Nothing, text |-> 2])],
           <<>>)

OpenEditAgent(a) ==
    /\ AgentsAtRest /\ a \in screen.cells.agents.items
    /\ AgentDoes([screen EXCEPT !.dialog = Dialog("agent", a.id,
           [tenant |-> a.tenant, group |-> a.group, account |-> a.account, text |-> 2])], <<>>)

(* Another tenant for a new agent: its group is emptied, its account stays,  *)
(* and the extensions are fetched by the handler and by the effect.          *)
ChooseTenant(t) ==
    /\ screen.kind = "agents" /\ screen.dialog.open = "agent" /\ screen.dialog.target = Nothing
    /\ t # screen.dialog.form.tenant
    /\ AgentDoes([screen EXCEPT !.dialog.form = [@ EXCEPT !.tenant = t, !.group = All]],
                 <<Job(<<FetchExtensions(t)>>, "")>>)

(* The tenant of a new group.                                                *)
ChooseGroupTenant(t) ==
    /\ screen.kind = "agents" /\ screen.dialog.open = "group" /\ screen.dialog.target = Nothing
    /\ t # screen.dialog.form.tenant
    /\ AgentDoes([screen EXCEPT !.dialog.form.tenant = t], <<>>)

(* An account may be chosen that is nobody's, or this agent's.               *)
ChooseAccount(u) ==
    /\ screen.kind = "agents" /\ screen.dialog.open = "agent" /\ "accountLoading" \notin screen.busy
    /\ u \in screen.cells.accounts.items /\ u.id # screen.dialog.form.account
    /\ u.agents \subseteq {screen.dialog.target}
    /\ AgentDoes([screen EXCEPT !.dialog.form.account = u.id], <<>>)

CloseDialog ==
    /\ screen.kind = "agents" /\ screen.dialog.open # "none"
    /\ AgentDoes([screen EXCEPT !.dialog.open = "none"], <<>>)

HandleAgentSubmit ==
    LET d == screen.dialog IN
    /\ screen.kind = "agents" /\ d.open = "agent" /\ ~Does("action", <<"agent-save">>)
    /\ AgentDoes([screen EXCEPT !.acting.action = <<"agent-save">>],
          <<Job(<<Mutate("saveAgent", ToSave("agent", d.target, d.form)),
                  FetchAgents(screen, IF d.target = Nothing THEN 1 ELSE screen.page),
                  FetchGroups(d.form.tenant)>>, "action")>>)

HandleDeleteAgent(a) ==
    /\ AgentsAtRest /\ a \in screen.cells.agents.items
    /\ ~Does("action", <<"agent-delete", a.id>>)
    /\ AgentDoes([screen EXCEPT !.acting.action = <<"agent-delete", a.id>>],
          <<Job(<<Mutate("delete", Row("delete", "agent", a.id)),
                  Silently(FetchAgents(screen, screen.page))>>, "action")>>)

OpenCreateGroup ==
    /\ AgentsAtRest
    /\ AgentDoes([Clear(screen, {"owners"}) EXCEPT
           !.dialog = Dialog("group", Nothing, [tenant |-> FormTenant, owner |-> Nothing, text |-> 2])], <<>>)

OpenEditGroup(g) ==
    /\ AgentsAtRest /\ g \in screen.cells.groups.items
    /\ AgentDoes([screen EXCEPT !.dialog = Dialog("group", g.id, [tenant |-> g.tenant, owner |-> g.owner, text |-> 2])],
                 <<>>)

ChooseOwner(a) ==
    /\ screen.kind = "agents" /\ screen.dialog.open = "group" /\ "ownerLoading" \notin screen.busy
    /\ a # screen.dialog.form.owner
    /\ AgentDoes([screen EXCEPT !.dialog.form.owner = a], <<>>)

(* An edit that takes the owner away says nothing of it.                     *)
GroupToSave(d) ==
    IF d.target # Nothing /\ d.form.owner = Nothing
    THEN Change("group", d.target, [tenant |-> d.form.tenant, text |-> d.form.text])
    ELSE ToSave("group", d.target, d.form)

HandleGroupSubmit ==
    LET d == screen.dialog IN
    /\ screen.kind = "agents" /\ d.open = "group" /\ ~Does("action", <<"group-save">>)
    /\ AgentDoes([screen EXCEPT !.acting.action = <<"group-save">>],
          <<Job(<<Mutate("saveAgent", GroupToSave(d)),
                  FetchGroups(d.form.tenant), Silently(FetchAgents(screen, screen.page))>>, "action")>>)

HandleDeleteGroup(g) ==
    /\ AgentsAtRest /\ g \in screen.cells.groups.items
    /\ ~Does("action", <<"group-delete", g.id>>)
    /\ AgentDoes([screen EXCEPT !.acting.action = <<"group-delete", g.id>>],
          <<Job(<<Mutate("delete", Row("delete", "group", g.id)),
                  FetchGroups(g.tenant), Silently(FetchAgents(screen, screen.page))>>, "action")>>)

(* A dialog is closed when its row is saved, and stays when it is not.       *)
AgentSaved(pg, got, rest) ==
    IF Fine(got) THEN Go([pg EXCEPT !.dialog.open = "none"], rest) ELSE Go(pg, <<>>)

RowGone(pg, got, rest) == IF Fine(got) THEN Go(pg, rest) ELSE Go(pg, <<>>)

AgentPageNext ==
    \/ \E t \in {All, 1} : SetTenantFilter(t) \/ SetGroupFilter(t) \/ SetReport(t)
    \/ \E s \in {Nothing, 1} : SetSearch(s)
    \/ \E p \in 1..3 : GoToPage(p)
    \/ ReloadGroups \/ OpenCreateAgent \/ OpenCreateGroup \/ CloseDialog
    \/ HandleAgentSubmit \/ HandleGroupSubmit
    \/ \E t \in 1..2 : ChooseTenant(t) \/ ChooseGroupTenant(t)
    \/ \E u \in screen.cells.accounts.items : ChooseAccount(u)
    \/ \E a \in {Nothing} \cup { o.id : o \in screen.cells.owners.items } : ChooseOwner(a)
    \/ \E a \in screen.cells.agents.items : OpenEditAgent(a) \/ HandleDeleteAgent(a)
    \/ \E g \in screen.cells.groups.items : OpenEditGroup(g) \/ HandleDeleteGroup(g)
=============================================================================
