------------------------------- MODULE Console -------------------------------
(***************************************************************************)
(* How the console's API runs: every request is served by a handler that   *)
(* reads what it checks, and then writes, one awaited statement after the   *)
(* other, while other handlers run between the statements.  The reads of a  *)
(* handler are one step here and each of its writes is another; a           *)
(* transaction is one step.  The modules of the services say what each      *)
(* handler checks and which writes it makes.                                *)
(***************************************************************************)
EXTENDS Tables

CONSTANT Workers      \* the requests that can be in progress at a time

VARIABLES
    db,         \* the database
    disk,       \* the files the handlers write for FreeSWITCH
    pbx,        \* what FreeSWITCH was last told
    requests,   \* the requests not yet sent
    work,       \* what each worker has left to do of its request
    clean,      \* no handler has written on what another one changed after it read
    lost        \* a handler ended with writes undone: a refused statement or a crash

consoleVars == <<db, disk, pbx, requests, work, clean, lost>>

NoRequest == [op |-> "none", by |-> Nil]

NoScope == [super |-> FALSE, lead |-> FALSE, tenants |-> {}, agent |-> Nil]

Idle == [req |-> NoRequest, scope |-> NoScope, todo |-> <<>>, stale |-> FALSE]

Busy(w) == work[w].todo # <<>>

Quiet == \A w \in Workers : ~Busy(w)

-----------------------------------------------------------------------------
(* Who asks: the account of the token is read when the request comes in.    *)

Scope(u) ==
    [super   |-> db.user[u].role = "super_admin",
     lead    |-> db.user[u].role = "agent_lead",
     tenants |-> { db.member[m].tenant : m \in Memberships(db, u) },
     agent   |-> IF AgentsOf(db, u) = {} THEN Nil
                 ELSE CHOOSE a \in AgentsOf(db, u) : TRUE]

(* JwtAuthGuard and RolesGuard: the account exists and has one of the roles. *)
Granted(r, roles) == r.by \in DOMAIN db.user /\ db.user[r.by].role \in roles

Managers == {"super_admin", "tenant_admin", "agent_lead"}

Operators == {"super_admin", "tenant_admin", "operator"}

(* ensureTenantAccess, the same in every service                             *)
TenantAccess(r, t) == Scope(r.by).super \/ t \in Scope(r.by).tenants

(* A column of a request: what it sets, or what the row has already.         *)
Given(r, c) == c \in DOMAIN r.dto

New(r, c, old) == IF Given(r, c) THEN r.dto[c] ELSE old

-----------------------------------------------------------------------------
Tx(writes) == [kind |-> "tx", writes |-> writes]

Result(d, tx) ==
    LET after[n \in 0..Len(tx.writes)] ==
          IF n = 0 THEN d ELSE Effect(after[n-1], tx.writes[n])
    IN after

Commits(d, tx) ==
    \A n \in 1..Len(tx.writes) : Admitted(Result(d, tx)[n-1], tx.writes[n])

Begin(w, r, todo) ==
    /\ ~Busy(w) /\ r \in requests
    /\ requests' = requests \ {r}
    /\ work' = [work EXCEPT ![w] = [req |-> r, todo |-> todo, stale |-> FALSE,
           scope |-> IF r.by \in DOMAIN db.user THEN Scope(r.by) ELSE NoScope]]
    /\ UNCHANGED <<db, disk, pbx, clean, lost>>

(* The next statement of a handler has run.  When it changed something, what *)
(* the other handlers in progress have read is no longer current.            *)
Advance(w, rest, changed) ==
    /\ work' = [v \in Workers |->
                  IF v = w THEN IF rest = <<>> THEN Idle ELSE [work[w] EXCEPT !.todo = rest]
                  ELSE [work[v] EXCEPT !.stale = Busy(v) /\ (@ \/ changed)]]
    /\ clean' = (clean /\ ~(work[w].stale /\ changed))

(* A refused statement, or an exception between two: the rest is not done.   *)
Abandon(w) ==
    /\ work' = [work EXCEPT ![w] = Idle]
    /\ lost' = TRUE
    /\ UNCHANGED <<db, disk, pbx, requests, clean>>

Statement(w) ==
    /\ Busy(w) /\ Head(work[w].todo).kind = "tx"
    /\ LET tx == Head(work[w].todo) IN
       IF Commits(db, tx)
       THEN /\ db' = Result(db, tx)[Len(tx.writes)]
            /\ Advance(w, Tail(work[w].todo), db' # db)
            /\ UNCHANGED <<disk, pbx, requests, lost>>
       ELSE Abandon(w)

(* The process stops between two statements.                                 *)
Crash ==
    /\ ~Quiet
    /\ work' = [w \in Workers |-> Idle]
    /\ lost' = TRUE
    /\ UNCHANGED <<db, disk, pbx, requests, clean>>
=============================================================================
