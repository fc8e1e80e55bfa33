----------------------------- MODULE SecurityPage -----------------------------
(***************************************************************************)
(* The page of what is banned (security-dashboard.tsx): three lists that are *)
(* fetched together, the dialogs of a ban and of a firewall rule, and one    *)
(* cell that says what is in progress; and the forms that are on their pages *)
(* from the start: fail2ban's jails, the ports of FreeSWITCH and the storage *)
(* of the recordings.                                                        *)
(***************************************************************************)
EXTENDS PageTasks

SecurityPageMounted ==
    Rendered([overview |-> Every("status", All), bans |-> Every("bans", All), rules |-> Every("fwrules", All)])
    @@ [kind |-> "security", dialog |-> NoDialog, stamp |-> 0, acting |-> [action |-> NotActing]]

FirstJail == 1

NoBan == [text |-> Nothing, group |-> FirstJail]

NewRule == [text |-> 1]

(* The form of a ban is emptied when its dialog opens, and also when the     *)
(* jails to choose from come again while it is open.                         *)
BanFormEffect(before, after) ==
    LET anew == after.dialog.open = "ban" /\ (before.dialog.open # "ban" \/ before.stamp # after.stamp) IN
    [page |-> IF anew THEN [after EXCEPT !.dialog.form = NoBan] ELSE after, jobs |-> <<>>]

SecurityDoes(pg, jobs) == Perform(pg, jobs, BanFormEffect)

RefreshData ==
    /\ AtRest("security") /\ "refreshing" \notin screen.busy
    /\ SecurityDoes(screen, <<Job(<<
          Fetch("refreshed", <<Every("status", All), Every("bans", All), Every("fwrules", All)>>,
                <<"overview", "bans", "rules">>, "refreshing")>>, "")>>)

(* Each list is shown if it was had, and none if one found no answer.        *)
Refreshed(pg, c, got, rest) ==
    LET lost == \E k \in DOMAIN got : got[k].st = "lost"
        shown(p, k) == IF lost \/ got[k].st # "ok" THEN p ELSE ShowIn(p, c.into[k], got[k])
        fresh == IF lost \/ got[1].st # "ok" THEN pg ELSE [pg EXCEPT !.stamp = @ + 1] IN
    Go(Settled(shown(shown(shown(fresh, 1), 2), 3), c), rest)

OpenBan == AtRest("security") /\ SecurityDoes([screen EXCEPT !.dialog = Dialog("ban", Nothing, NoBan)], <<>>)

OpenFirewallRule ==
    AtRest("security") /\ SecurityDoes([screen EXCEPT !.dialog = Dialog("rule", Nothing, NewRule)], <<>>)

FillBan(ip, jail) ==
    /\ screen.kind = "security" /\ screen.dialog.open = "ban"
    /\ SecurityDoes([screen EXCEPT !.dialog.form = [text |-> ip, group |-> jail]], <<>>)

CloseSecurityDialog ==
    /\ screen.kind = "security" /\ screen.dialog.open # "none"
    /\ SecurityDoes([screen EXCEPT !.dialog.open = "none"], <<>>)

Secures(what, ask) ==
    SecurityDoes([screen EXCEPT !.acting.action = what], <<Job(<<Mutate("secured", ask)>>, "action")>>)

SubmitBan ==
    /\ screen.kind = "security" /\ screen.dialog.open = "ban" /\ ~Does("action", <<"ban">>)
    /\ screen.dialog.form.text # Nothing
    /\ Secures(<<"ban">>, Create("bans", screen.dialog.form))

RemoveBan(b) ==
    AtRest("security") /\ ~Does("action", <<"ban", b.id>>) /\ Secures(<<"ban", b.id>>, Row("delete", "bans", b.id))

SubmitFirewallRule ==
    /\ screen.kind = "security" /\ screen.dialog.open = "rule" /\ ~Does("action", <<"rule">>)
    /\ Secures(<<"rule">>, Create("fwrules", screen.dialog.form))

RemoveFirewallRule(r) ==
    AtRest("security") /\ ~Does("action", <<"rule", r.id>>) /\ Secures(<<"rule", r.id>>, Row("delete", "fwrules", r.id))

(* A ban takes the place of every ban of its address, whatever its jail.     *)
BansAfter(rows, row) == { r \in rows : r.id # row.id /\ r.text # row.text } \cup {row}

Secured(pg, c, got) ==
    LET q == c.asks[1]
        cell == IF q.table = "bans" THEN "bans" ELSE "rules"
        rows == pg.cells[cell].items
        left == IF q.op = "delete" THEN { r \in rows : r.id # q.id }
                ELSE IF cell = "bans" THEN BansAfter(rows, got[1].row) ELSE rows \cup {got[1].row} IN
    Go(IF ~Fine(got) THEN pg
       ELSE [pg EXCEPT !.cells[cell].items = left, !.cells[cell].total = Cardinality(left),
                       !.dialog.open = IF q.op = "create" THEN "none" ELSE @], <<>>)

SecurityPageNext ==
    \/ RefreshData \/ OpenBan \/ OpenFirewallRule \/ CloseSecurityDialog
    \/ \E ip \in {1, 2}, jail \in {1, 2} : FillBan(ip, jail)
    \/ SubmitBan \/ SubmitFirewallRule
    \/ \E b \in screen.cells.bans.items : RemoveBan(b)
    \/ \E r \in screen.cells.rules.items : RemoveFirewallRule(r)

-----------------------------------------------------------------------------
(* A form that is saved as a whole, and shows what the answer says: what was *)
(* typed since it was sent is typed over.                                    *)
FormKinds == {"fail2ban", "ports", "storage"}

FormPageMounted(kind) ==
    Rendered(<<>>) @@ [kind |-> kind, dialog |-> NoDialog, acting |-> [saving |-> NotActing],
                       form |-> RowOf(tables, Row("read", kind, 1)).text, typed |-> FALSE]

FormDoes(pg, jobs) == Perform(pg, jobs, NoEffects)

Type(kind, v) ==
    /\ screen.kind = kind /\ screen.form # v
    /\ FormDoes([screen EXCEPT !.form = v, !.typed = TRUE], <<>>)

TypeJail(v)    == Type("fail2ban", v)
TypePort(v)    == Type("ports", v)
TypeStorage(v) == Type("storage", v)

SaveForm(kind) ==
    /\ screen.kind = kind /\ Does("saving", NotActing)
    /\ FormDoes([screen EXCEPT !.acting.saving = <<"PUT">>],
                <<Job(<<Mutate("formSaved", Change(kind, 1, [text |-> screen.form]))>>, "saving")>>)

SaveJails   == SaveForm("fail2ban")
SavePorts   == SaveForm("ports")
SaveStorage == SaveForm("storage")

FormSaved(pg, got) ==
    Go(IF Fine(got) THEN [pg EXCEPT !.form = got[1].row.text, !.typed = FALSE] ELSE pg, <<>>)

FormPageNext ==
    \/ \E v \in 1..3 : TypeJail(v) \/ TypePort(v) \/ TypeStorage(v)
    \/ SaveJails \/ SavePorts \/ SaveStorage
=============================================================================
