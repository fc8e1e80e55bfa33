----------------------------- MODULE TablePages -----------------------------
(***************************************************************************)
(* The pages that have all their rows from the start, and change the rows    *)
(* they show by what the API answers: routes, menus, rules, numbers, roles   *)
(* and gateways.  The rows are never fetched again.                          *)
(***************************************************************************)
EXTENDS PageTasks

TableKinds == {"menus", "rules", "outbound", "inbound", "callerids", "roles", "gateways", "recordings"}

OneCell == TableKinds \ {"roles", "recordings"}     \* where one cell says what is in progress

TablePageMounted(kind) ==
    Rendered([rows |-> Every(kind, All)])
    @@ [kind |-> kind, dialog |-> NoDialog,
        acting |-> IF kind \in OneCell THEN [loading |-> NotActing]
                   ELSE IF kind = "recordings" THEN [uploading |-> NotActing]
                   ELSE [saving |-> NotActing, deletingKey |-> NotActing]]

Rows == screen.cells.rows.items

TableDoes(pg, jobs) == Perform(pg, jobs, NoEffects)

Open(kind, id, form) ==
    AtRest(kind) /\ TableDoes([screen EXCEPT !.dialog = Dialog("row", id, form)], <<>>)

NewRow == [tenant |-> 1, text |-> 2, system |-> FALSE]

OldRow(r) == [tenant |-> r.tenant, text |-> 2, system |-> r.system]

FormOf(r) == IF r = {} THEN NewRow ELSE OldRow(CHOOSE x \in r : TRUE)

IdOf(r) == IF r = {} THEN Nothing ELSE (CHOOSE x \in r : TRUE).id

(* The form of a new row, r = {}, or of one of the rows.                     *)
OpenForm(kind, r) == Open(kind, IdOf(r), FormOf(r))

OpenMenu(r)     == OpenForm("menus", r)
OpenRule(r)     == OpenForm("rules", r)
OpenOutbound(r) == OpenForm("outbound", r)
OpenInbound(r)  == OpenForm("inbound", r)
OpenCallerId(r) == OpenForm("callerids", r)

(* A gateway that is being saved is not edited, and a system role never is.  *)
OpenGateway(r) == AtRest("gateways") /\ ~(r # {} /\ Does("loading", <<"PUT", IdOf(r)>>)) /\ OpenForm("gateways", r)

OpenRole(r) == ~(\E x \in r : x.system) /\ OpenForm("roles", r)

CloseRow(kind) ==
    /\ screen.kind = kind /\ screen.dialog.open = "row"
    /\ TableDoes([screen EXCEPT !.dialog = NoDialog], <<>>)

(* What was typed is saved as the row of the dialog.                         *)
Submit(kind, cell, ready) ==
    LET d == screen.dialog IN
    /\ screen.kind = kind /\ d.open = "row" /\ ready
    /\ TableDoes([screen EXCEPT !.acting[cell] = <<IF d.target = Nothing THEN "POST" ELSE "PUT", d.target>>],
                 <<Job(<<Mutate("saveRow", ToSave(kind, d.target, d.form))>>, cell)>>)

Sends == screen.acting.loading # NotActing /\ screen.acting.loading[1] \in {"POST", "PUT"}

SubmitMenu      == screen.kind = "menus" /\ Submit("menus", "loading", Does("loading", NotActing))
SubmitInbound   == screen.kind = "inbound" /\ Submit("inbound", "loading", Does("loading", NotActing))
UpsertCallerId  == screen.kind = "callerids" /\ Submit("callerids", "loading", Does("loading", NotActing))
SubmitRule      == screen.kind = "rules" /\ Submit("rules", "loading", ~Sends)
SubmitOutbound  == screen.kind = "outbound" /\ Submit("outbound", "loading", ~Sends)
SubmitGateway   == screen.kind = "gateways" /\ Submit("gateways", "loading", ~Sends)
SubmitRole      == screen.kind = "roles" /\ Submit("roles", "saving", Does("saving", NotActing))

Erase(kind, cell, r) ==
    /\ AtRest(kind) /\ ~Does(cell, <<"delete", r.id>>)
    /\ TableDoes([screen EXCEPT !.acting[cell] = <<"delete", r.id>>],
                 <<Job(<<Mutate("deleteRow", Row("delete", kind, r.id))>>, cell)>>)

DeleteMenuRow(r)     == Erase("menus", "loading", r)
DeleteInboundRow(r)  == Erase("inbound", "loading", r)
DeleteCallerIdRow(r) == Erase("callerids", "loading", r)
DeleteRuleRow(r)     == Erase("rules", "loading", r)
DeleteOutboundRow(r) == Erase("outbound", "loading", r)
DeleteGatewayRow(r)  == Erase("gateways", "loading", r)
DeleteRoleRow(r)     == ~r.system /\ Erase("roles", "deletingKey", r)

(* A recording is uploaded from the page, and removed without a mark.        *)
UploadRecording ==
    /\ screen.kind = "recordings" /\ Does("uploading", NotActing)
    /\ TableDoes([screen EXCEPT !.acting.uploading = <<"POST">>],
                 <<Job(<<Mutate("saveRow", Create("recordings", NewRow))>>, "uploading")>>)

RemoveRecording(r) ==
    /\ AtRest("recordings")
    /\ TableDoes(screen, <<Job(<<Mutate("deleteRow", Row("delete", "recordings", r.id))>>, "")>>)

ToggleActive(r) ==
    /\ AtRest("callerids") /\ ~Does("loading", <<"toggle", r.id>>)
    /\ TableDoes([screen EXCEPT !.acting.loading = <<"toggle", r.id>>],
                 <<Job(<<Mutate("toggled", Change("callerids", r.id, [text |-> 3 - r.text]))>>, "loading")>>)

-----------------------------------------------------------------------------
(* The rows are changed by a function of what they are when the answer       *)
(* comes, not of what they were when the handler began.                      *)
WithRows(pg, rows) == [pg EXCEPT !.cells.rows.items = rows, !.cells.rows.total = Cardinality(rows)]

Replaced(rows, row) == { IF r.id = row.id THEN row ELSE r : r \in rows }

AppendedOrReplaced(pg, c, row) ==
    LET rows == pg.cells.rows.items IN
    WithRows(pg, IF c.asks[1].op = "create" THEN rows \cup {row} ELSE Replaced(rows, row))

(* The roles are kept by their keys: a role that is not shown is added.      *)
SetByKey(pg, row) ==
    WithRows(pg, { r \in pg.cells.rows.items : r.id # row.id } \cup {row})

RowSaved(pg, c, got) ==
    IF ~Fine(got) THEN Go(pg, <<>>)
    ELSE Go([(IF pg.kind = "roles" THEN SetByKey(pg, got[1].row) ELSE AppendedOrReplaced(pg, c, got[1].row))
               EXCEPT !.dialog = NoDialog], <<>>)

RowDeleted(pg, c, got) ==
    Go(IF Fine(got) THEN WithRows(pg, { r \in pg.cells.rows.items : r.id # c.asks[1].id }) ELSE pg, <<>>)

Toggled(pg, got) ==
    Go(IF Fine(got) THEN WithRows(pg, Replaced(pg.cells.rows.items, got[1].row)) ELSE pg, <<>>)

TablePageNext ==
    \/ \E kind \in TableKinds : CloseRow(kind)
    \/ \E r \in {{}} \cup { {x} : x \in Rows } :
          \/ OpenMenu(r) \/ OpenRule(r) \/ OpenOutbound(r) \/ OpenInbound(r) \/ OpenCallerId(r)
          \/ OpenGateway(r) \/ OpenRole(r)
    \/ SubmitMenu \/ SubmitInbound \/ UpsertCallerId \/ SubmitRule \/ SubmitOutbound \/ SubmitGateway \/ SubmitRole
    \/ UploadRecording
    \/ \E r \in Rows :
          \/ RemoveRecording(r)
          \/ ToggleActive(r)
          \/ DeleteMenuRow(r) \/ DeleteInboundRow(r) \/ DeleteCallerIdRow(r) \/ DeleteRuleRow(r)
          \/ DeleteOutboundRow(r) \/ DeleteGatewayRow(r) \/ DeleteRoleRow(r)
=============================================================================
