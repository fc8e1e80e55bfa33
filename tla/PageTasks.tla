----------------------------- MODULE PageTasks -----------------------------
(***************************************************************************)
(* How a page of the portal works: a component with its state, and the      *)
(* handlers of its buttons.  A handler sends requests and goes on with the  *)
(* answers, one await after the other, with the values it closed over when  *)
(* it began; between two awaits other handlers of the page run, and the     *)
(* operator goes on clicking.  An effect runs when what it depends on has   *)
(* changed, in the step that changed it.                                    *)
(*                                                                          *)
(* What a handler will do is fixed when it begins, because its closure is:  *)
(* it is kept as the calls that it has yet to make.                         *)
(***************************************************************************)
EXTENDS Integers, Sequences, SequencesExt, TLC

CONSTANTS
    PageSize,    \* rows on a page of a list
    MaxEvents,   \* bound: what the operator does on a page of each kind
    MaxWaiting   \* bound: the handlers that wait when the operator does something more

VARIABLES
    screen,      \* the state of the component, with history: what its cells were last asked for
    awaiting,    \* the handlers that wait, in the order in which they asked
    tables,      \* the rows the API has
    events,      \* how many things the operator did
    upset        \* history: requests or drawings "failed", answers or requests "overtaken"

pageVars == <<screen, awaiting, tables, events, upset>>

All == 0         \* of tenants, groups: no filter
Nothing == 0     \* no search term, no row
NoAsk == [op |-> "nothing"]
NotActing == <<>>     \* nothing in progress
Empty == [st |-> "ok", items |-> {}, total |-> 0, page |-> 1]

-----------------------------------------------------------------------------
(* What is asked of the API.                                                *)
ListAsk(table, tenant, group, search, page) ==
    [op |-> "list", table |-> table, tenant |-> tenant, group |-> group, search |-> search, page |-> page]

Every(table, tenant) == ListAsk(table, tenant, All, Nothing, All)

Row(op, table, id) == [op |-> op, table |-> table, id |-> id]

Change(table, id, columns) == [op |-> "update", table |-> table, id |-> id, columns |-> columns]

Create(table, columns) == [op |-> "create", table |-> table, columns |-> columns]

(* The row of a form is made or changed.                                    *)
ToSave(table, id, columns) ==
    IF id = Nothing THEN Create(table, columns) ELSE Change(table, id, columns)

(* The lists are newest first; a page past the end is empty.                *)
Matching(tbl, q) ==
    { r \in tbl[q.table] : /\ q.tenant = All \/ q.tenant = r.tenant
                           /\ q.group = All \/ q.group = r.group
                           /\ q.search = Nothing \/ q.search = r.text }

OnPage(rows, page) ==
    { r \in rows : Cardinality({ s \in rows : s.id > r.id }) \div PageSize = page - 1 }

(* An account is listed with the agent it is the account of.                 *)
Described(tbl, q, r) ==
    IF q.table # "account" \/ "agent" \notin DOMAIN tbl THEN r
    ELSE [agents |-> { a.id : a \in { b \in tbl.agent : b.account = r.id } }] @@ r

Listing(tbl, q) ==
    LET rows == Matching(tbl, q) IN
    [st |-> "ok",
     items |-> { Described(tbl, q, r) : r \in IF q.page = All THEN rows ELSE OnPage(rows, q.page) },
     total |-> Cardinality(rows), page |-> q.page]

(* The tenants to choose from, with the number of extensions of each.       *)
Options(tbl) ==
    [st |-> "ok", items |-> { [id |-> t.id, used |-> Cardinality({ x \in tbl.extension : x.tenant = t.id })]
                              : t \in tbl.tenant }]

(* A request names its row, or means the newest one.                         *)
Means(tbl, q, r) == q.id = r.id \/ (q.id = Nothing /\ \A s \in tbl[q.table] : s.id <= r.id)

RowOf(tbl, q) == Described(tbl, q, CHOOSE r \in tbl[q.table] : Means(tbl, q, r))

(* There is the row, but for a ban, which may be lifted twice; and the       *)
(* owner that a group is given.                                              *)
Owns(tbl, columns) ==
    columns.owner # Nothing => \E a \in tbl.agent : a.id = columns.owner /\ a.tenant = columns.tenant

Known(tbl, q) ==
    /\ q.op \in {"read", "update", "delete"} /\ q.table # "bans" => \E r \in tbl[q.table] : Means(tbl, q, r)
    /\ q.op \in {"create", "update"} /\ q.table = "group" /\ "owner" \in DOMAIN q.columns => Owns(tbl, q.columns)

(* A new row; a ban is known by its jail and its address.                     *)
RowMade(tbl, q) ==
    LET same == { r.id : r \in { s \in tbl.bans : s.text = q.columns.text /\ s.group = q.columns.group } } IN
    q.columns @@ [id |-> IF q.table = "bans" /\ same # {} THEN CHOOSE id \in same : TRUE ELSE tbl.fresh]

(* A group that is deleted leaves its agents without one, and an agent its   *)
(* groups without an owner.                                                  *)
Left(tbl, table, column, id) ==
    [tbl EXCEPT ![table] = { IF r[column] = id THEN [r EXCEPT ![column] = Nothing] ELSE r : r \in @ }]

Written(tbl, q) ==
    CASE q.op = "create" ->
           [tbl EXCEPT ![q.table] = { r \in @ : r.id # RowMade(tbl, q).id } \cup {RowMade(tbl, q)}, !.fresh = @ + 1]
      [] q.op = "update" ->
           [tbl EXCEPT ![q.table] = { IF Means(tbl, q, r) THEN q.columns @@ r ELSE r : r \in @ }]
      [] q.op = "delete" ->
           LET left == [tbl EXCEPT ![q.table] = { r \in @ : ~Means(tbl, q, r) }] IN
           CASE q.table = "group" -> Left(left, "agent", "group", q.id)
             [] q.table = "agent" -> Left(left, "group", "owner", q.id)
             [] OTHER -> left
      [] OTHER -> tbl

(* The balance of the tenant, which comes with the answer about its money.   *)
Amount(rows) == FoldSet(LAMBDA r, sum : r.amount + sum, 0, rows)

Balance(tbl) == Amount(tbl.topup) - Amount(tbl.charge)

BalanceOf(tbl, q) ==
    IF q.op # "list" /\ q.table \in {"topup", "charge"} THEN [balance |-> Balance(tbl)] ELSE <<>>

(* The answer, of a request that is served, and the tables after it.         *)
Outcome(tbl, q) ==
    CASE q.op = "list"    -> Listing(tbl, q)
      [] q.op = "options" -> Options(tbl)
      [] q.op = "create"  -> [st |-> "ok", row |-> RowMade(tbl, q)] @@ BalanceOf(Written(tbl, q), q)
      [] q.op = "update"  -> [st |-> "ok", row |-> q.columns @@ RowOf(tbl, q)] @@ BalanceOf(Written(tbl, q), q)
      [] q.op = "read"    -> [st |-> "ok", row |-> RowOf(tbl, q)]
      [] OTHER            -> [st |-> "ok"] @@ BalanceOf(Written(tbl, q), q)

-----------------------------------------------------------------------------
(* A call of a handler: the function it is in, the requests it sends, the   *)
(* cells the answers are for, and the cell that says that it is loading.    *)
Fetch(fn, asks, into, spin) ==
    [fn |-> fn, asks |-> asks, into |-> into, spin |-> spin, start |-> spin # "", arg |-> {}]

Mutate(fn, ask) == Fetch(fn, <<ask>>, <<>>, "")

Silently(c) == [c EXCEPT !.spin = "", !.start = FALSE]

(* What a handler has to do, and the cell its last finally clears.          *)
Job(plan, end) == [plan |-> plan, end |-> end]

Unanswered(c) == [k \in DOMAIN c.asks |-> [st |-> "none"]]

Started(job) == [plan |-> job.plan, end |-> job.end, got |-> Unanswered(Head(job.plan))]

Begun(pg, c) ==
    [pg EXCEPT !.busy = IF c.start THEN @ \cup {c.spin} ELSE @,
               !.asked = [cell \in DOMAIN @ |->
                  IF \E k \in DOMAIN c.into : c.into[k] = cell
                  THEN c.asks[CHOOSE k \in DOMAIN c.into : c.into[k] = cell] ELSE @[cell]]]

(* What the server rendered is the answer to what it asked.                 *)
Rendered(asks) ==
    [cells |-> [c \in DOMAIN asks |-> IF asks[c] = NoAsk THEN Empty ELSE Outcome(tables, asks[c])],
     asked |-> asks, busy |-> {}]

(* A step of the page: its new state, what its handlers go on with, and the *)
(* effects of the change.                                                   *)
Commit(pg, rest, jobs, Effects(_, _)) ==
    LET effect == Effects(screen, pg)
        begun == jobs \o effect.jobs IN
    /\ screen' = FoldLeft(LAMBDA p, j : Begun(p, Head(j.plan)), effect.page, begun)
    /\ awaiting' = rest \o [n \in DOMAIN begun |-> Started(begun[n])]

(* The operator does something: at most MaxEvents times, and less when       *)
(* requests failed or overtook others.                                      *)
Perform(pg, jobs, Effects(_, _)) ==
    /\ events + Cardinality(upset) < MaxEvents[screen.kind] /\ Len(awaiting) <= MaxWaiting
    /\ Commit(pg, awaiting, jobs, Effects)
    /\ events' = events + 1
    /\ UNCHANGED <<tables, upset>>

NoEffects(before, after) == [page |-> after, jobs |-> <<>>]

-----------------------------------------------------------------------------
(* The API: each request is served once, refused, or served with its answer *)
(* lost.  A request or an answer that is before an older one overtakes it.  *)
Older(n, Waits(_)) == \E m \in 1..(n - 1) : Waits(awaiting[m])

Pending(t) == \E k \in DOMAIN t.got : t.got[k].st = "none"

Mark(flag, when) == IF when THEN {flag} ELSE {}

Respond(n, k, tbl, answer, bad) ==
    /\ awaiting' = [awaiting EXCEPT ![n].got[k] = answer]
    /\ tables' = tbl
    /\ upset' = upset \cup Mark("failed", bad) \cup Mark("overtaken", Older(n, Pending))
    /\ UNCHANGED <<screen, events>>

Served(n, k) ==
    LET q == awaiting[n].plan[1].asks[k] IN
    IF Known(tables, q) THEN Respond(n, k, Written(tables, q), Outcome(tables, q), FALSE)
                        ELSE Respond(n, k, tables, [st |-> "failed"], TRUE)

Refuse(n, k) == "failed" \notin upset /\ Respond(n, k, tables, [st |-> "failed"], TRUE)

LoseAnswer(n, k) ==
    LET q == awaiting[n].plan[1].asks[k] IN
    /\ "failed" \notin upset /\ Known(tables, q)
    /\ Respond(n, k, Written(tables, q), [st |-> "lost"], TRUE)

(* The requests of one call only read: their order is not told apart.        *)
NextOf(t) == CHOOSE k \in DOMAIN t.got : t.got[k].st = "none" /\ \A j \in 1..(k - 1) : t.got[j].st # "none"

Respondence ==
    \E n \in { m \in DOMAIN awaiting : Pending(awaiting[m]) } :
        LET k == NextOf(awaiting[n]) IN Served(n, k) \/ Refuse(n, k) \/ LoseAnswer(n, k)

Arrived(t) == ~Pending(t)

(* A handler goes on: Done says with what.                                  *)
GoesOn(n, Done(_, _, _, _), Effects(_, _)) ==
    LET t == awaiting[n]
        d == Done(screen, Head(t.plan), t.got, Tail(t.plan))
        over == d.plan = <<>>
        pg == IF over /\ t.end # "" THEN [d.page EXCEPT !.acting[t.end] = NotActing] ELSE d.page IN
    /\ Arrived(t)
    /\ Commit(pg, RemoveAt(awaiting, n), IF over THEN <<>> ELSE <<Job(d.plan, t.end)>>, Effects)
    /\ upset' = upset \cup Mark("overtaken", n # 1)
    /\ UNCHANGED <<tables, events>>

(* What most functions do with an answer.                                   *)
Settled(pg, c) == [pg EXCEPT !.busy = @ \ {c.spin}]

Fine(got) == \A k \in DOMAIN got : got[k].st = "ok"

Go(pg, plan) == [page |-> pg, plan |-> plan]

ShowIn(pg, cell, value) == [pg EXCEPT !.cells[cell] = value]

Clear(pg, cellset) ==
    [pg EXCEPT !.cells = [c \in DOMAIN @ |-> IF c \in cellset THEN Empty ELSE @[c]],
               !.asked = [c \in DOMAIN @ |-> IF c \in cellset THEN NoAsk ELSE @[c]]]

(* A list is shown, or kept when the request failed.                        *)
Shown(pg, c, got, rest) ==
    Go(Settled(IF Fine(got) THEN ShowIn(pg, c.into[1], got[1]) ELSE pg, c), rest)

(* A page past the end: the page before it is fetched in its stead.         *)
PastTheEnd(c, got) == c.asks[1].page > 1 /\ got[1].total > 0 /\ got[1].items = {}

PageBefore(c) == [c EXCEPT !.asks[1].page = @ - 1, !.start = FALSE]

(* Variant: the page past the end is shown.                                 *)
PageShownPast(pg, c, got, rest) ==
    IF ~Fine(got) THEN Go(Settled(pg, c), rest)
    ELSE Go(Settled([ShowIn(pg, c.into[1], got[1]) EXCEPT !.page = got[1].page], c), rest)

(* A page that fetches the one before when it is past the end.               *)
PageShown(pg, c, got, rest) ==
    IF ~Fine(got) THEN Go(Settled(pg, c), rest)
    ELSE IF PastTheEnd(c, got) THEN Go(pg, <<PageBefore(c)>> \o rest)
    ELSE Go(Settled([ShowIn(pg, c.into[1], got[1]) EXCEPT !.page = got[1].page], c), rest)

(* The buttons of the list are behind an open dialog.                        *)
AtRest(kind) == screen.kind = kind /\ screen.dialog.open = "none"

Dialog(open, target, form) == [open |-> open, target |-> target, form |-> form]

NoDialog == Dialog("none", Nothing, <<>>)

Does(cell, what) == screen.acting[cell] = what

LastPage(total) == IF total <= PageSize THEN 1 ELSE (total + PageSize - 1) \div PageSize
=============================================================================
