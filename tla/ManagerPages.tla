---------------------------- MODULE ManagerPages ----------------------------
(***************************************************************************)
(* A browser with one of the portal's pages open, and the API that its      *)
(* requests reach.                                                          *)
(***************************************************************************)
EXTENDS AgentPage, AccountPage, TenantPages, DialerPage, BillingPanel, TablePages, SecurityPage

(* Two tenants, with one row of each kind; the auto dialer has a campaign or *)
(* none.                                                                     *)
Of(id, t) == [id |-> id, tenant |-> t, text |-> 1]

AccountRow(id, role) == [role |-> role, perms |-> {1}, tenants |-> {id}] @@ Of(id, id)

OneOfEach == { Of(1, 1), Of(2, 2) }

TablesBehind(kind) ==
    CASE kind = "agents"     -> {"agent", "group", "account", "extension"}
      [] kind = "users"      -> {"account", "tenant", "extension"}
      [] kind = "domains"    -> {"tenant"}
      [] kind = "extensions" -> {"extension", "tenant"}
      [] kind = "dialer"     -> {"campaign", "lead", "job", "cdr"}
      [] kind = "billing"    -> {"topup", "charge", "config"}
      [] kind = "security"   -> {"status", "bans", "fwrules"}
      [] OTHER               -> {kind}

SmallTables(kind, campaigns) ==
    [t \in TablesBehind(kind) |->
       CASE t = "agent"    -> { [group |-> r.id, account |-> IF r.id = 1 THEN 1 ELSE Nothing] @@ r : r \in OneOfEach }
         [] t = "group"    -> { [owner |-> r.id] @@ r : r \in OneOfEach }
         [] t = "account"  -> { AccountRow(1, "tenant_admin"), AccountRow(2, "agent") }
         [] t = "campaign" -> { Of(id, 1) : id \in campaigns }
         [] t \in {"lead", "job", "cdr"} -> { [id |-> 1, group |-> 1, text |-> 1] }
         [] t = "topup"    -> { [id |-> 1, text |-> 1, amount |-> 2] }
         [] t = "charge"   -> { [id |-> 2, text |-> 1, amount |-> 1] }
         [] t = "config"   -> { [id |-> 1, text |-> 1, prepaid |-> TRUE] }
         [] t = "bans"     -> { [group |-> r.id] @@ r : r \in OneOfEach }
         [] t \in FormKinds -> { Of(1, 1) }
         [] t \in TableKinds -> { [system |-> r.id = 1] @@ r : r \in OneOfEach }
         [] OTHER          -> OneOfEach]
    @@ [fresh |-> 3]

(* A page is mounted: its effects run.                                       *)
Mounted(pg, jobs) ==
    /\ screen = FoldLeft(LAMBDA p, j : Begun(p, Head(j.plan)), pg, jobs)
    /\ awaiting = [n \in DOMAIN jobs |-> Started(jobs[n])]

PagesInit ==
    /\ \/ /\ tables = SmallTables("agents", {})
          /\ LET pg == AgentPageMounted IN Mounted(pg, <<Job(<<FetchAgents(pg, 1)>>, "")>>)
       \/ /\ tables = SmallTables("users", {})
          /\ \E super \in BOOLEAN : Mounted(AccountPageMounted(super), <<Job(<<LoadTenantOptions>>, "")>>)
       \/ tables = SmallTables("domains", {}) /\ Mounted(DomainPageMounted, <<>>)
       \/ tables = SmallTables("extensions", {}) /\ Mounted(ExtensionPageMounted, <<>>)
       \/ /\ \E campaigns \in {{}, {1}} : tables = SmallTables("dialer", campaigns)
          /\ LET pg == DialerPageMounted IN
             Mounted(pg, IF pg.active = NoCampaign THEN <<>> ELSE <<Job(<<LoadCampaignDetails(1)>>, "")>>)
       \/ tables = SmallTables("billing", {}) /\ Mounted(BillingPanelMounted, <<>>)
       \/ tables = SmallTables("security", {}) /\ Mounted(SecurityPageMounted, <<>>)
       \/ \E kind \in FormKinds : tables = SmallTables(kind, {}) /\ Mounted(FormPageMounted(kind), <<>>)
       \/ \E kind \in TableKinds : tables = SmallTables(kind, {}) /\ Mounted(TablePageMounted(kind), <<>>)
    /\ events = 0 /\ upset = {}

-----------------------------------------------------------------------------
(* Where a handler goes on.                                                  *)
Done(pg, c, got, rest) ==
    CASE c.fn = "fetchPage" /\ pg.kind = "agents" -> PageShown(pg, c, got, rest)
      [] c.fn = "fetchPage" /\ pg.kind # "agents" -> PageShownThenClosed(pg, c, got, rest)
      [] c.fn = "fetchOptions"     -> OptionsFetched(pg, c, got, rest)
      [] c.fn = "fetchPortalUsers" -> PortalUsersFetched(pg, c, got, rest)
      [] c.fn = "fetchAccount"     -> AccountFetched(pg, c, got, rest)
      [] c.fn = "fetchExtensions"  -> ExtensionsFetched(pg, c, got, rest)
      [] c.fn = "saveAgent"        -> AgentSaved(pg, got, rest)
      [] c.fn \in {"delete", "save"} -> RowGone(pg, got, rest)
      [] c.fn = "fetchUsers"       -> UsersFetched(pg, c, got, rest)
      [] c.fn = "saveUser"         -> UserSaved(pg, c, got, rest)
      [] c.fn = "resetPassword"    -> PasswordReset(pg, got)
      [] c.fn = "fetchPassword"    -> PasswordFetched(pg, got)
      [] c.fn = "fetchCampaigns"   -> CampaignsFetched(pg, c, got, rest)
      [] c.fn = "loadDetails"      -> DetailsLoaded(pg, c, got, rest)
      [] c.fn = "submitted"        -> DialogDone(pg, c, got, rest)
      [] c.fn = "toppedUp"         -> ToppedUp(pg, got, rest)
      [] c.fn = "topupChanged"     -> TopupChanged(pg, got, rest)
      [] c.fn = "topupDeleted"     -> TopupDeleted(pg, got, rest)
      [] c.fn = "editEnds"         -> EditEnded(pg, c, got, rest)
      [] c.fn = "charged"          -> Charged(pg, c, got)
      [] c.fn = "configured"       -> Configured(pg, got)
      [] c.fn = "saveRow"          -> RowSaved(pg, c, got)
      [] c.fn = "deleteRow"        -> RowDeleted(pg, c, got)
      [] c.fn = "toggled"          -> Toggled(pg, got)
      [] c.fn = "refreshed"        -> Refreshed(pg, c, got, rest)
      [] c.fn = "secured"          -> Secured(pg, c, got)
      [] c.fn = "formSaved"        -> FormSaved(pg, got)
      [] OTHER                     -> Shown(pg, c, got, rest)

EffectsOf(before, after) ==
    CASE before.kind = "agents"     -> AgentEffects(before, after)
      [] before.kind = "domains"    -> DomainEffects(before, after)
      [] before.kind = "extensions" -> ExtensionEffects(before, after)
      [] before.kind = "dialer"     -> ActiveEffect(before, after)
      [] before.kind = "security"   -> BanFormEffect(before, after)
      [] OTHER                      -> NoEffects(before, after)

PagesNext ==
    \/ screen.kind = "agents" /\ AgentPageNext
    \/ screen.kind = "users" /\ AccountPageNext
    \/ screen.kind = "domains" /\ DomainPageNext
    \/ screen.kind = "extensions" /\ ExtensionPageNext
    \/ screen.kind = "dialer" /\ DialerPageNext
    \/ screen.kind = "billing" /\ BillingPanelNext
    \/ screen.kind \in TableKinds /\ TablePageNext
    \/ screen.kind = "security" /\ SecurityPageNext
    \/ screen.kind \in FormKinds /\ FormPageNext
    \/ Respondence
    \/ \E n \in DOMAIN awaiting : GoesOn(n, Done, EffectsOf)

-----------------------------------------------------------------------------
(* Nothing is in progress on the page.                                       *)
PageQuiet ==
    /\ awaiting = <<>>
    /\ screen.kind \in {"domains", "extensions"} => screen.timer = NoTimer
    /\ screen.kind = "extensions" => screen.qr.drawing = {}

InOrder == PageQuiet /\ upset = {}

(* The cells that are fetched again, or changed, when a row of theirs is.    *)
Lists == {"agents", "users", "list", "choices", "campaigns", "rows", "topups", "charges", "rules"}

(* The groups of a list, but for the owners that are deleted: the list keeps *)
(* their names until it is fetched again, and deleting an agent fetches the  *)
(* agents only.                                                              *)
OwnersLeft(rows) ==
    { IF g.owner \in { a.id : a \in tables.agent } THEN g ELSE [g EXCEPT !.owner = Nothing] : g \in rows }

(* When nothing is in progress nothing is shown to be; and if no request     *)
(* failed and none overtook another, every list is what the API would answer *)
(* now to what was last asked for it, whichever handlers ran together (that  *)
(* of the groups but for owners that were deleted), the browser's user is    *)
(* described as his account is, and the balance is the tenant's; every ban   *)
(* that is shown is one, and a form in which nothing was typed since it was  *)
(* saved shows what is saved.  A page past the end of a list is not shown by *)
(* the pages that look for it.                                               *)
ListsCurrent ==
    /\ PageQuiet => screen.busy = {} /\ \A c \in DOMAIN screen.acting : Does(c, NotActing)
    /\ InOrder => \A c \in Lists \cap DOMAIN screen.cells :
         screen.cells[c] = Outcome(tables, screen.asked[c])
    /\ InOrder /\ screen.kind = "agents" =>
         OwnersLeft(screen.cells.groups.items) = Listing(tables, screen.asked.groups).items
    /\ screen.kind \in {"agents", "domains", "extensions"} =>
         \A c \in {"agents", "list"} \cap DOMAIN screen.cells :
            screen.cells[c].items = {} => screen.cells[c].total = 0
    /\ InOrder /\ screen.kind = "billing" =>
         screen.balance = Balance(tables) /\ \A r \in tables.config : screen.prepaid = r.prepaid
    /\ InOrder /\ screen.kind = "security" => screen.cells.bans.items \subseteq tables.bans
    /\ InOrder /\ screen.kind \in FormKinds =>
         screen.typed \/ \A r \in tables[screen.kind] : screen.form = r.text
    /\ InOrder /\ screen.kind = "users" => \A u \in tables.account : u.id = Self => screen.cookie = u

Answers(cell, q) == screen.cells[cell] = Listing(tables, q)

(* An open dialog offers what there is for the tenant of its form, and keeps *)
(* the account that was selected; the code to scan is of the extension, the  *)
(* password and the application of its dialog; and the leads, jobs and calls *)
(* are those of the campaign that is active: when nothing is in progress,    *)
(* no request failed and none overtook another.                              *)
OptionsFit ==
    InOrder =>
      LET d == screen.dialog f == d.form IN
      /\ screen.kind = "agents" /\ d.open = "agent" =>
           /\ Answers("extensions", Every("extension", f.tenant))
           /\ Answers("assigned", Every("agent", f.tenant))
           /\ { u.id : u \in screen.cells.accounts.items } =
                { u.id : u \in { a \in tables.account : f.tenant = a.tenant \/ f.account = a.id } }
      /\ screen.kind = "agents" /\ d.open = "group" => Answers("owners", Every("agent", f.tenant))
      /\ screen.kind = "extensions" /\ screen.qr.open =>
           screen.qr.url = { <<<<x.id, x.text>>, screen.qr.mode>> : x \in { y \in tables.extension : y.id = screen.qr.of } }
      /\ screen.kind = "dialer" => \A a \in screen.active : \A c \in Details : screen.asked[c].group = a[1]
=============================================================================
