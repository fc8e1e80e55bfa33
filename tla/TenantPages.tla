----------------------------- MODULE TenantPages -----------------------------
(***************************************************************************)
(* The pages of the tenants (domain-manager.tsx) and of the extensions       *)
(* (extension-manager.tsx): a list that follows what is typed, at once or a  *)
(* moment later, and the dialog that shows the credentials of an extension   *)
(* and draws them as a code.                                                 *)
(***************************************************************************)
EXTENDS PageTasks

CONSTANT Limit      \* extensions that a tenant may have

NoTimer == {}

DomainPageMounted ==
    Rendered([list |-> ListAsk("tenant", All, All, Nothing, 1)])
    @@ [kind |-> "domains", page |-> 1, search |-> Nothing, timer |-> NoTimer,
        acting |-> [loading |-> NotActing], dialog |-> NoDialog]

FetchTenantPage(page, search) ==
    Fetch("fetchPage", <<ListAsk("tenant", All, All, search, page)>>, <<"list">>, "tenantLoading")

(* The first page is fetched when nothing was typed for a moment.            *)
DomainEffects(before, after) ==
    [page |-> IF before.search = after.search THEN after ELSE [after EXCEPT !.timer = {after.search}],
     jobs |-> <<>>]

DomainDoes(pg, jobs) == Perform(pg, jobs, DomainEffects)

(* The dialog is closed after the list was fetched.                          *)
ThenClose(c) == [c EXCEPT !.arg = {"close"}]

PageShownThenClosed(pg, c, got, rest) ==
    LET shown == PageShown(pg, c, got, rest) IN
    IF c.arg = {} \/ shown.plan # <<>> THEN shown ELSE [shown EXCEPT !.page.dialog = NoDialog]

TypeTenantSearch(s) ==
    AtRest("domains") /\ s # screen.search /\ DomainDoes([screen EXCEPT !.search = s], <<>>)

GoToTenants(p) ==
    /\ AtRest("domains") /\ "tenantLoading" \notin screen.busy
    /\ p \in {screen.page - 1, screen.page + 1} /\ p \in 1..LastPage(screen.cells.list.total)
    /\ DomainDoes(screen, <<Job(<<FetchTenantPage(p, screen.search)>>, "")>>)

OpenTenant(id) ==
    /\ AtRest("domains") /\ (id = Nothing \/ ~Does("loading", <<"update", id>>))
    /\ DomainDoes([screen EXCEPT !.dialog = Dialog("tenant", id, [text |-> 2])], <<>>)

CloseTenantDialog ==
    /\ screen.kind = "domains" /\ screen.dialog.open # "none"
    /\ DomainDoes([screen EXCEPT !.dialog = NoDialog], <<>>)

(* One cell says what is in progress: the end of one handler clears it for   *)
(* another.                                                                  *)
Saving == screen.acting.loading # NotActing /\ screen.acting.loading[1] = "update"

SubmitTenant ==
    LET d == screen.dialog IN
    /\ screen.kind = "domains" /\ d.open = "tenant" /\ ~Saving
    /\ DomainDoes([screen EXCEPT !.acting.loading = <<"update", d.target>>],
          <<Job(<<Mutate("save", ToSave("tenant", d.target, d.form)),
                  ThenClose(Silently(FetchTenantPage(IF d.target = Nothing THEN 1 ELSE screen.page, screen.search)))>>,
                "loading")>>)

DeleteTenantRow(t) ==
    /\ AtRest("domains") /\ ~Does("loading", <<"delete", t.id>>)
    /\ DomainDoes([screen EXCEPT !.acting.loading = <<"delete", t.id>>],
          <<Job(<<Mutate("delete", Row("delete", "tenant", t.id)),
                  Silently(FetchTenantPage(screen.page, screen.search))>>, "loading")>>)

DomainPageNext ==
    \/ \E s \in {Nothing, 1, 2} : TypeTenantSearch(s)
    \/ \E p \in 1..3 : GoToTenants(p)
    \/ \E t \in screen.cells.list.items : OpenTenant(t.id) \/ DeleteTenantRow(t)
    \/ OpenTenant(Nothing) \/ CloseTenantDialog \/ SubmitTenant

-----------------------------------------------------------------------------
NoCode == [of |-> Nothing, info |-> {}, mode |-> "zoiper", drawing |-> {}, url |-> {}, open |-> FALSE]

ExtensionPageMounted ==
    Rendered([list |-> ListAsk("extension", All, All, Nothing, 1), choices |-> [op |-> "options"]])
    @@ [kind |-> "extensions", page |-> 1, tenant |-> All, search |-> Nothing, timer |-> NoTimer,
        acting |-> [loading |-> NotActing], dialog |-> NoDialog, qr |-> NoCode]

FetchExtensionPage(page, tenant, search) ==
    Fetch("fetchPage", <<ListAsk("extension", tenant, All, search, page)>>, <<"list">>, "extensionLoading")

RefreshTenantOptions == Fetch("fetchList", <<[op |-> "options"]>>, <<"choices">>, "")

(* What is typed is fetched twice: at once, and a moment later.  Another     *)
(* tenant cancels what was typed, and is fetched once.                       *)
FilterEffects(before, after) ==
    IF <<before.tenant, before.search>> = <<after.tenant, after.search>> THEN NoEffects(before, after)
    ELSE [page |-> [after EXCEPT !.timer = IF before.tenant = after.tenant THEN {after.search} ELSE NoTimer],
          jobs |-> <<Job(<<FetchExtensionPage(1, after.tenant, after.search)>>, "")>>]

(* The code is drawn again when what it shows changed; what was being drawn  *)
(* is not shown any more.                                                    *)
CodeOf(qr) == <<qr.info, qr.mode, qr.of>>

DrawEffect(before, after) ==
    IF CodeOf(before.qr) = CodeOf(after.qr) THEN after
    ELSE IF after.qr.info = {} \/ after.qr.of = Nothing THEN [after EXCEPT !.qr.drawing = {}]
    ELSE [after EXCEPT !.qr.drawing = {<<i, after.qr.mode>> : i \in after.qr.info}, !.busy = @ \cup {"qrLoading"}]

ExtensionEffects(before, after) ==
    LET filtered == FilterEffects(before, after) IN [filtered EXCEPT !.page = DrawEffect(before, filtered.page)]

ExtensionDoes(pg, jobs) == Perform(pg, jobs, ExtensionEffects)

ExtensionsAtRest == AtRest("extensions") /\ ~screen.qr.open

TypeExtensionSearch(s) ==
    ExtensionsAtRest /\ s # screen.search /\ ExtensionDoes([screen EXCEPT !.search = s], <<>>)

FilterByTenant(t) ==
    ExtensionsAtRest /\ t # screen.tenant /\ ExtensionDoes([screen EXCEPT !.tenant = t], <<>>)

GoToExtensions(p) ==
    /\ ExtensionsAtRest /\ "extensionLoading" \notin screen.busy
    /\ p \in {screen.page - 1, screen.page + 1} /\ p \in 1..LastPage(screen.cells.list.total)
    /\ ExtensionDoes(screen, <<Job(<<FetchExtensionPage(p, screen.tenant, screen.search)>>, "")>>)

(* A new extension is for the tenant of the filter, or the first with room.  *)
Roomy == { t.id : t \in { o \in screen.cells.choices.items : o.used < Limit } }

OpenCreateExtension ==
    /\ ExtensionsAtRest /\ Roomy # {}
    /\ LET t == IF screen.tenant \in Roomy THEN screen.tenant ELSE CHOOSE u \in Roomy : \A v \in Roomy : u <= v IN
       ExtensionDoes([screen EXCEPT !.dialog = Dialog("extension", Nothing, [tenant |-> t, text |-> 2])], <<>>)

OpenEditExtension(x) ==
    /\ ExtensionsAtRest
    /\ ExtensionDoes([screen EXCEPT !.dialog = Dialog("extension", x.id, [tenant |-> x.tenant, text |-> 2])], <<>>)

CloseExtensionDialog ==
    /\ screen.kind = "extensions" /\ screen.dialog.open # "none"
    /\ ExtensionDoes([screen EXCEPT !.dialog = NoDialog], <<>>)

LimitReached(t) == \E o \in screen.cells.choices.items : o.id = t /\ o.used >= Limit

SubmitExtension ==
    LET d == screen.dialog
        new == d.target = Nothing
        page == IF new /\ screen.tenant \in {All, d.form.tenant} THEN 1 ELSE screen.page
        list == ThenClose(Silently(FetchExtensionPage(page, screen.tenant, screen.search))) IN
    /\ screen.kind = "extensions" /\ d.open = "extension" /\ ~Saving
    /\ ~(new /\ LimitReached(d.form.tenant))
    /\ ExtensionDoes([screen EXCEPT !.acting.loading = <<"update", d.target>>],
          <<Job(<<Mutate("save", ToSave("extension", d.target, d.form))>>
                \o (IF new THEN <<RefreshTenantOptions>> ELSE <<>>) \o <<list>>, "loading")>>)

DeleteExtensionRow(x) ==
    /\ ExtensionsAtRest /\ ~Does("loading", <<"delete", x.id>>)
    /\ ExtensionDoes([screen EXCEPT !.acting.loading = <<"delete", x.id>>],
          <<Job(<<Mutate("delete", Row("delete", "extension", x.id)),
                  Silently(FetchExtensionPage(screen.page, screen.tenant, screen.search)),
                  RefreshTenantOptions>>, "loading")>>)

(* The password of an extension is fetched when its dialog is opened.        *)
OpenQrDialog(x) ==
    /\ ExtensionsAtRest
    /\ ExtensionDoes([screen EXCEPT !.qr = [NoCode EXCEPT !.of = x.id, !.open = TRUE],
                                    !.busy = @ \cup {"qrLoading"}],
          <<Job(<<Mutate("fetchPassword", Row("read", "extension", x.id))>>, "")>>)

CloseQr(pg) == [pg EXCEPT !.qr = NoCode, !.busy = @ \ {"qrLoading"}]

CloseQrDialog == screen.kind = "extensions" /\ screen.qr.open /\ ExtensionDoes(CloseQr(screen), <<>>)

ChooseQr(mode) ==
    /\ screen.kind = "extensions" /\ screen.qr.open /\ mode # screen.qr.mode
    /\ ExtensionDoes([screen EXCEPT !.qr.mode = mode], <<>>)

PasswordFetched(pg, got) ==
    Go(IF Fine(got) THEN [pg EXCEPT !.qr.info = {<<got[1].row.id, got[1].row.text>>}]
       ELSE [pg EXCEPT !.qr.open = FALSE, !.busy = @ \ {"qrLoading"}], <<>>)

(* toDataURL answers, or fails: then there is no code.                       *)
Drawn(url) ==
    /\ screen.kind = "extensions" /\ screen.qr.drawing # {}
    /\ screen' = [screen EXCEPT !.qr.url = url, !.qr.drawing = {}, !.busy = @ \ {"qrLoading"}]
    /\ UNCHANGED <<awaiting, tables, events>>

DrawCode ==
    \/ Drawn(screen.qr.drawing) /\ UNCHANGED upset
    \/ "failed" \notin upset /\ Drawn({}) /\ upset' = upset \cup {"failed"}

(* The moment after the typing is over.                                      *)
TimerFires ==
    /\ screen.kind \in {"domains", "extensions"} /\ screen.timer # NoTimer
    /\ LET s == CHOOSE s \in screen.timer : TRUE
           fetch == IF screen.kind = "domains" THEN FetchTenantPage(1, s) ELSE FetchExtensionPage(1, screen.tenant, s) IN
       Commit([screen EXCEPT !.timer = NoTimer], awaiting, <<Job(<<fetch>>, "")>>, NoEffects)
    /\ UNCHANGED <<tables, events, upset>>

ExtensionPageNext ==
    \/ \E s \in {Nothing, 1, 2} : TypeExtensionSearch(s) \/ FilterByTenant(s)
    \/ \E p \in 1..3 : GoToExtensions(p)
    \/ \E x \in screen.cells.list.items : OpenEditExtension(x) \/ DeleteExtensionRow(x) \/ OpenQrDialog(x)
    \/ OpenCreateExtension \/ CloseExtensionDialog \/ SubmitExtension
    \/ CloseQrDialog \/ ChooseQr("generic") \/ DrawCode \/ TimerFires
=============================================================================
