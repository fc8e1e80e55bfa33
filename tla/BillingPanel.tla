----------------------------- MODULE BillingPanel -----------------------------
(***************************************************************************)
(* The panel of a tenant's money (billing-tenant-panel.tsx and the forms it  *)
(* holds): the balance, which every answer brings, the top-ups, which are    *)
(* fetched again, and the charges, which are changed in place.               *)
(***************************************************************************)
EXTENDS PageTasks

BillingPanelMounted ==
    Rendered([topups |-> Every("topup", All), charges |-> Every("charge", All)])
    @@ [kind |-> "billing", dialog |-> NoDialog, balance |-> Balance(tables),
        prepaid |-> RowOf(tables, Row("read", "config", 1)).prepaid, editing |-> FALSE, editingId |-> Nothing,
        acting |-> [topup |-> NotActing, history |-> NotActing, charging |-> NotActing, config |-> NotActing]]

BillingDoes(pg, jobs) == Perform(pg, jobs, NoEffects)

RefreshTopups == Fetch("fetchList", <<Every("topup", All)>>, <<"topups">>, "")

WithBalance(pg, got) == [pg EXCEPT !.balance = got[1].balance]

-----------------------------------------------------------------------------
(* A top-up: the form is free again before the list is there.                *)
HandleTopup ==
    /\ screen.kind = "billing" /\ screen.prepaid /\ Does("topup", NotActing)
    /\ BillingDoes([screen EXCEPT !.acting.topup = <<"save">>],
          <<Job(<<Mutate("toppedUp", Create("topup", [amount |-> 1])), RefreshTopups>>, "")>>)

ToppedUp(pg, got, rest) ==
    LET done == [pg EXCEPT !.acting.topup = NotActing] IN
    IF Fine(got) THEN Go(WithBalance(done, got), rest) ELSE Go(done, <<>>)

(* The latest top-up, whichever it is when the request comes, is changed or  *)
(* taken back.                                                               *)
CanModify ==
    /\ screen.kind = "billing" /\ screen.prepaid /\ Does("history", NotActing)
    /\ screen.cells.topups.items # {} /\ screen.balance > 0

StartEdit == CanModify /\ ~screen.editing /\ BillingDoes([screen EXCEPT !.editing = TRUE], <<>>)

CancelEdit ==
    /\ screen.kind = "billing" /\ screen.editing /\ Does("history", NotActing)
    /\ BillingDoes([screen EXCEPT !.editing = FALSE], <<>>)

EditEnds == Fetch("editEnds", <<Every("topup", All)>>, <<"topups">>, "")

HandleUpdateTopup ==
    /\ CanModify /\ screen.editing
    /\ BillingDoes([screen EXCEPT !.acting.history = <<"save">>],
          <<Job(<<Mutate("topupChanged", Change("topup", Nothing, [amount |-> 2])), EditEnds>>, "history")>>)

HandleDeleteTopup ==
    /\ CanModify
    /\ BillingDoes([screen EXCEPT !.acting.history = <<"delete">>],
          <<Job(<<Mutate("topupDeleted", Row("delete", "topup", Nothing)), EditEnds>>, "history")>>)

TopupChanged(pg, got, rest) == IF Fine(got) THEN Go(WithBalance(pg, got), rest) ELSE Go(pg, <<>>)

TopupDeleted(pg, got, rest) ==
    IF Fine(got) THEN Go(WithBalance(pg, got), rest) ELSE Go([pg EXCEPT !.editing = FALSE], <<>>)

(* The edit ends when the list was fetched again, or was not.                *)
EditEnded(pg, c, got, rest) == Shown([pg EXCEPT !.editing = FALSE], c, got, rest)

-----------------------------------------------------------------------------
(* Charges.                                                                  *)
HandleCreateCharge ==
    /\ screen.kind = "billing" /\ Does("charging", NotActing)
    /\ BillingDoes([screen EXCEPT !.acting.charging = <<"save">>],
          <<Job(<<Mutate("charged", Create("charge", [amount |-> 1]))>>, "charging")>>)

StartEditCharge(r) ==
    /\ screen.kind = "billing" /\ r.id # screen.editingId
    /\ BillingDoes([screen EXCEPT !.editingId = r.id], <<>>)

HandleUpdateCharge ==
    /\ screen.kind = "billing" /\ screen.editingId # Nothing /\ Does("charging", NotActing)
    /\ BillingDoes([screen EXCEPT !.acting.charging = <<"save">>],
          <<Job(<<Mutate("charged", Change("charge", screen.editingId, [amount |-> 2]))>>, "charging")>>)

HandleDeleteCharge(r) ==
    /\ screen.kind = "billing" /\ Does("charging", NotActing)
    /\ BillingDoes([screen EXCEPT !.acting.charging = <<"delete">>],
          <<Job(<<Mutate("charged", Row("delete", "charge", r.id))>>, "charging")>>)

(* The charges that are shown are changed as the answer says.                *)
ChargesAfter(rows, q, answer) ==
    CASE q.op = "create" -> rows \cup {answer.row}
      [] q.op = "update" -> { IF r.id = q.id THEN answer.row ELSE r : r \in rows }
      [] OTHER           -> { r \in rows : r.id # q.id }

Charged(pg, c, got) ==
    LET q == c.asks[1]
        rows == ChargesAfter(pg.cells.charges.items, q, got[1]) IN
    Go(IF ~Fine(got) THEN pg
       ELSE [WithBalance(pg, got) EXCEPT
                !.cells.charges.items = rows, !.cells.charges.total = Cardinality(rows),
                !.editingId = IF q.op = "update" THEN Nothing ELSE @], <<>>)

(* The configuration says whether the tenant pays in advance.                *)
HandleConfigSubmit(prepaid) ==
    /\ screen.kind = "billing" /\ Does("config", NotActing)
    /\ BillingDoes([screen EXCEPT !.acting.config = <<"save">>],
          <<Job(<<Mutate("configured", Change("config", 1, [prepaid |-> prepaid]))>>, "config")>>)

Configured(pg, got) == Go(IF Fine(got) THEN [pg EXCEPT !.prepaid = got[1].row.prepaid] ELSE pg, <<>>)

BillingPanelNext ==
    \/ HandleTopup \/ StartEdit \/ CancelEdit \/ HandleUpdateTopup \/ HandleDeleteTopup
    \/ HandleCreateCharge \/ HandleUpdateCharge
    \/ \E r \in screen.cells.charges.items : StartEditCharge(r) \/ HandleDeleteCharge(r)
    \/ \E prepaid \in BOOLEAN : HandleConfigSubmit(prepaid)
=============================================================================
