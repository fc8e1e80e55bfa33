---------------------------- MODULE PrepaidLedger ----------------------------
(***************************************************************************)
(* The prepaid fund of one tenant: the row of billing_configs, the top-ups *)
(* and charges that administrators enter (billing.service.ts), the calls   *)
(* that the dialplan and the auto dialer start, and the call records that  *)
(* FreeSWITCH posts and that are charged to the fund (cdr.service.ts).     *)
(*                                                                         *)
(* A request is a sequence of steps, one per database call it awaits;      *)
(* other requests run in between, in the same instance or in another.  An  *)
(* amount is a small number; every leg of a call costs Cost.               *)
(***************************************************************************)
EXTENDS Integers, FiniteSets, FiniteSetsExt

CONSTANTS
  Workers,       \* requests that are served at the same time
  Ops,           \* the kinds of request that are made
  Calls,         \* calls of the tenant
  Legs,          \* legs of a call that FreeSWITCH reports to /fs/cdr
  Amounts,       \* bound: amounts that are sent in a request
  Opening,       \* balance at the start
  Before,        \* the top-up and the charge there are at the start, if any
  Cost,          \* what a leg costs
  Attempts,      \* times mod_xml_cdr posts a record until it is answered
  MaxRequests,   \* bound: requests of administrators
  MaxLosses      \* bound: requests that fail or are lost with their instance

ASSUME ConstantsAssumption ==
  /\ IsFiniteSet(Workers) /\ IsFiniteSet(Calls) /\ IsFiniteSet(Legs)
  /\ Amounts \subseteq Int
  /\ Opening \in Nat
  /\ IsFiniteSet(Before) /\ Before \subseteq [id : Nat \ {0}, amount : Nat \ {0}, after : Nat]
  /\ \A r \in Before : r.id <= Cardinality(Before) /\ \A s \in Before : s.id = r.id => s = r
  /\ Cost \in Nat \ {0}
  /\ Attempts \in Nat /\ MaxRequests \in Nat /\ MaxLosses \in Nat

VARIABLES
  config,     \* balanceAmount and prepaidEnabled in billing_configs
  topups,     \* rows of billing_topups; ids in the order of created_at
  charges,    \* rows of billing_charges
  nextId,     \* the next id of either
  records,    \* rows of cdr_records with the call_uuid and leg
  call,       \* where each call stands
  posts,      \* attempts left to deliver a record
  task,       \* what each worker is doing
  requests, losses,
  took,       \* history: charges taken for a record
  waived,     \* history: times a record was let through without a charge
  forgiven,   \* history: what the balance was short when it was set to 0
  raced,      \* history: a save overwrote a row that had changed since it was read
  torn        \* history: a request was lost between its two writes

db      == <<config, topups, charges, nextId, records>>
phone   == <<call, posts>>
bounds  == <<requests, losses>>
history == <<took, waived, forgiven, raced, torn>>
vars    == <<db, phone, task, bounds, history>>

-----------------------------------------------------------------------------
Dialer  == "dialer"                       \* the record of a call of the auto dialer
Records == Calls \X (Legs \cup {Dialer})
NoRow   == [id |-> 0, amount |-> 0, after |-> 0]
NoRecord == <<>>     \* a request that is not about a call
Config  == [balance : Int, prepaid : BOOLEAN]
Row     == [id : Nat, amount : Nat, after : Nat]

AdminOps == {"topup", "updateLatestTopup", "deleteLatestTopup",
             "addCharge", "updateCharge", "deleteCharge", "updateConfig"}

Task == [pc : {"idle", "check", "latest", "adjust", "save", "row", "config",
               "route", "context", "apply", "deduct"},
         op : AdminOps \cup {"none", "dialplan", "cdr", "dialerCdr"},
         seen : Config, delta : Int, amount : Int, row : Row,
         prepaid : BOOLEAN, record : Records \cup {NoRecord}]

Idle == [pc |-> "idle", op |-> "none", seen |-> [balance |-> 0, prepaid |-> FALSE],
         delta |-> 0, amount |-> 0, row |-> NoRow, prepaid |-> FALSE, record |-> NoRecord]

At(w, pc)   == task[w].pc = pc
Clamp(n)    == IF n < 0 THEN 0 ELSE n

Init ==
  /\ config \in [balance : {Opening}, prepaid : BOOLEAN]
  /\ topups = Before /\ charges = {[r EXCEPT !.after = 0] : r \in Before} /\ nextId = Cardinality(Before) + 1
  /\ records = [r \in Records |-> 0]
  /\ call = [c \in Calls |-> "none"]
  /\ posts = [r \in Records |-> 0]
  /\ task = [w \in Workers |-> Idle]
  /\ requests = 0 /\ losses = 0
  /\ took = [r \in Records |-> 0] /\ waived = [r \in Records |-> 0]
  /\ forgiven = 0 /\ raced = FALSE /\ torn = FALSE

-----------------------------------------------------------------------------
(* Requests of administrators.  An amount must be positive.  topup and     *)
(* addCharge adjust the balance at once; the others read a row first.      *)
Goto(w, pc) == task' = [task EXCEPT ![w] = [@ EXCEPT !.pc = pc]]
Finish(w)   == task' = [task EXCEPT ![w] = Idle]

Request(w, op) ==
  /\ op \in Ops \cap AdminOps /\ At(w, "idle") /\ requests < MaxRequests
  /\ requests' = requests + 1
  /\ UNCHANGED <<db, phone, losses, history>>

(* Variant: the amount is not checked.                                     *)
TopupUnchecked(w) == \E a \in Amounts :
  /\ Request(w, "topup")
  /\ task' = [task EXCEPT ![w] = [Idle EXCEPT !.op = "topup", !.pc = "adjust", !.delta = a, !.amount = a]]

topup(w) == \E a \in Amounts :
  /\ Request(w, "topup") /\ a > 0
  /\ task' = [task EXCEPT ![w] = [Idle EXCEPT !.op = "topup", !.pc = "adjust", !.delta = a, !.amount = a]]

addCharge(w) == \E a \in Amounts :
  /\ Request(w, "addCharge") /\ a > 0
  /\ task' = [task EXCEPT ![w] = [Idle EXCEPT !.op = "addCharge", !.pc = "adjust", !.delta = -a, !.amount = a]]

updateLatestTopup(w) == \E a \in Amounts :
  /\ Request(w, "updateLatestTopup")
  /\ task' = [task EXCEPT ![w] = [Idle EXCEPT !.op = "updateLatestTopup", !.pc = "check", !.amount = a]]

deleteLatestTopup(w) ==
  /\ Request(w, "deleteLatestTopup")
  /\ task' = [task EXCEPT ![w] = [Idle EXCEPT !.op = "deleteLatestTopup", !.pc = "check"]]

(* A top-up is corrected or deleted only while there is a balance; then    *)
(* the row that was created last is read, and a new amount checked.        *)
CheckBalance(w) ==
  /\ At(w, "check")
  /\ IF config.balance <= 0 THEN Finish(w) ELSE Goto(w, "latest")
  /\ UNCHANGED <<db, phone, bounds, history>>

findLatestTopup(w) ==
  /\ At(w, "latest")
  /\ IF topups = {} \/ (task[w].op = "updateLatestTopup" /\ task[w].amount <= 0)
       THEN Finish(w)
       ELSE \E row \in topups :
              LET delta == (IF task[w].op = "updateLatestTopup" THEN task[w].amount ELSE 0) - row.amount
              IN  /\ \A other \in topups : other.id <= row.id
                  /\ task' = [task EXCEPT ![w] = [@ EXCEPT !.row = row, !.delta = delta,
                                                 !.pc = IF delta = 0 THEN "row" ELSE "adjust"]]
  /\ UNCHANGED <<db, phone, bounds, history>>

(* Variant: the new amount is taken again instead of the difference.       *)
UpdateChargeWhole(w) == \E charge \in charges, a \in Amounts :
  /\ Request(w, "updateCharge") /\ a > 0
  /\ task' = [task EXCEPT ![w] = [Idle EXCEPT !.op = "updateCharge", !.row = charge, !.amount = a,
                                              !.delta = -a, !.pc = "adjust"]]

(* The charge is read when the request arrives; an unknown id is refused.  *)
updateCharge(w) == \E charge \in charges, a \in Amounts :
  LET delta == charge.amount - a IN
  /\ Request(w, "updateCharge") /\ a > 0
  /\ task' = [task EXCEPT ![w] = [Idle EXCEPT !.op = "updateCharge", !.row = charge, !.amount = a,
                                              !.delta = delta, !.pc = IF delta = 0 THEN "row" ELSE "adjust"]]

deleteCharge(w) == \E charge \in charges :
  /\ Request(w, "deleteCharge")
  /\ task' = [task EXCEPT ![w] = [Idle EXCEPT !.op = "deleteCharge", !.row = charge,
                                              !.delta = charge.amount, !.pc = "adjust"]]

(* updateConfig reads the whole row, and saves it with the new setting.    *)
updateConfig(w) == \E p \in BOOLEAN :
  /\ Request(w, "updateConfig")
  /\ task' = [task EXCEPT ![w] = [Idle EXCEPT !.op = "updateConfig", !.seen = config,
                                              !.prepaid = p, !.pc = "config"]]

SaveConfig(w) ==
  /\ At(w, "config")
  /\ config' = [task[w].seen EXCEPT !.prepaid = task[w].prepaid]
  /\ raced' = (raced \/ config # task[w].seen)
  /\ Finish(w)
  /\ UNCHANGED <<topups, charges, nextId, records, phone, bounds, took, waived, forgiven, torn>>

-----------------------------------------------------------------------------
(* adjustBalance: read the row, add to the balance, not below 0, and save  *)
(* the row.  Then the caller writes the row of its own.                    *)
ReadBalance(w) ==
  /\ At(w, "adjust")
  /\ task' = [task EXCEPT ![w] = [@ EXCEPT !.seen = config, !.pc = "save"]]
  /\ UNCHANGED <<db, phone, bounds, history>>

(* Variant: the balance may go below 0.                                    *)
Unclamped(t) == t.seen.balance + t.delta

NextBalance(t) == Clamp(t.seen.balance + t.delta)

SaveBalance(w) ==
  LET t    == task[w]
      next == NextBalance(t)
  IN  /\ At(w, "save")
      /\ config' = [t.seen EXCEPT !.balance = next]
      /\ task' = [task EXCEPT ![w] = [@ EXCEPT !.seen.balance = next, !.pc = "row"]]
      /\ raced' = (raced \/ config # t.seen)
      /\ forgiven' = forgiven + Clamp(-(t.seen.balance + t.delta))
      /\ took' = IF t.op = "cdr" THEN [took EXCEPT ![t.record] = @ + 1] ELSE took
      /\ UNCHANGED <<topups, charges, nextId, records, phone, bounds, waived, torn>>

(* A new row; an existing one saved, which is inserted anew if it is gone; *)
(* or one deleted.                                                         *)
Put(rows, row)    == {r \in rows : r.id # row.id} \cup {row}
Remove(rows, row) == {r \in rows : r.id # row.id}

SaveNewRow(w) ==
  LET t == task[w] IN
  /\ At(w, "row") /\ t.op \in {"topup", "addCharge"}
  /\ nextId' = nextId + 1
  /\ IF t.op = "topup"
       THEN /\ topups' = Put(topups, [id |-> nextId, amount |-> t.amount, after |-> t.seen.balance])
            /\ UNCHANGED charges
       ELSE /\ charges' = Put(charges, [id |-> nextId, amount |-> t.amount, after |-> 0])
            /\ UNCHANGED topups
  /\ Finish(w)
  /\ UNCHANGED <<config, records, phone, bounds, history>>

ChangedTopup(t) == [t.row EXCEPT !.amount = t.amount, !.after = Clamp(@ + t.delta)]
ChangedCharge(t) == [t.row EXCEPT !.amount = t.amount]

SaveChangedRow(w) ==
  LET t == task[w] IN
  /\ At(w, "row")
  /\ CASE t.op = "updateLatestTopup" -> topups' = Put(topups, ChangedTopup(t)) /\ UNCHANGED charges
       [] t.op = "deleteLatestTopup" -> topups' = Remove(topups, t.row) /\ UNCHANGED charges
       [] t.op = "updateCharge" -> charges' = Put(charges, ChangedCharge(t)) /\ UNCHANGED topups
       [] t.op = "deleteCharge" -> charges' = Remove(charges, t.row) /\ UNCHANGED topups
       [] OTHER -> FALSE
  /\ raced' = (raced \/ t.row \notin (IF t.op \in {"updateCharge", "deleteCharge"} THEN charges ELSE topups))
  /\ Finish(w)
  /\ UNCHANGED <<config, nextId, records, phone, bounds, took, waived, forgiven, torn>>

-----------------------------------------------------------------------------
(* Calls.  The dialplan reads the configuration before it looks for a      *)
(* route, and then bridges the call unless a prepaid balance does not pay  *)
(* for it; the auto dialer originates on the gateway itself.               *)
Dialplan(w) == \E c \in Calls :
  /\ "dialplan" \in Ops /\ At(w, "idle") /\ call[c] = "none"
  /\ call' = [call EXCEPT ![c] = "asked"]
  /\ task' = [task EXCEPT ![w] = [Idle EXCEPT !.op = "dialplan", !.seen = config,
                                              !.record = <<c, Dialer>>, !.pc = "route"]]
  /\ UNCHANGED <<db, posts, bounds, history>>

Admitted(seen) == seen.prepaid => seen.balance >= Cost

Bridge(w) ==
  /\ At(w, "route")
  /\ call' = [call EXCEPT ![task[w].record[1]] = IF Admitted(task[w].seen) THEN "up" ELSE "refused"]
  /\ Finish(w)
  /\ UNCHANGED <<db, posts, bounds, history>>

Originate(c) ==
  /\ "originate" \in Ops /\ call[c] = "none"
  /\ call' = [call EXCEPT ![c] = "dialled"]
  /\ UNCHANGED <<db, posts, task, bounds, history>>

(* FreeSWITCH reports each leg of a call that ends to /fs/cdr.  A call of  *)
(* the dialer is reported to the dialer as well, which charges it once.    *)
HangUp(c) ==
  /\ call[c] \in {"up", "dialled"}
  /\ call' = [call EXCEPT ![c] = "over"]
  /\ posts' = [r \in Records |->
                 IF r[1] # c THEN posts[r]
                 ELSE IF r[2] # Dialer THEN Attempts
                 ELSE IF call[c] = "dialled" THEN 1 ELSE 0]
  /\ UNCHANGED <<db, task, bounds, history>>

(* A post, possibly while the one before it is still being served.         *)
Post(w, r) ==
  /\ At(w, "idle") /\ posts[r] > 0
  /\ posts' = [posts EXCEPT ![r] = @ - 1]
  /\ UNCHANGED <<db, call, bounds, history>>

(* computeBillingContext reads whether the tenant is prepaid.              *)
ingestCdr(w) == \E r \in Calls \X Legs :
  /\ Post(w, r)
  /\ task' = [task EXCEPT ![w] = [Idle EXCEPT !.op = "cdr", !.record = r, !.delta = -Cost, !.pc = "context"]]

(* Both computeBillingContext and applyCharge stop at a tenant that is not *)
(* prepaid; the record is saved all the same.                              *)
ChargeIfPrepaid(w, pc, next) ==
  /\ At(w, pc)
  /\ Goto(w, IF config.prepaid THEN next ELSE "row")
  /\ waived' = IF config.prepaid THEN waived ELSE [waived EXCEPT ![task[w].record] = @ + 1]
  /\ UNCHANGED <<db, phone, bounds, took, forgiven, raced, torn>>

(* Variant: the record is saved before the charge.                         *)
RecordFirst(w) ==
  /\ At(w, "context") /\ Goto(w, "row")
  /\ UNCHANGED <<db, phone, bounds, history>>

computeBillingContext(w) == ChargeIfPrepaid(w, "context", "apply")
applyCharge(w)           == ChargeIfPrepaid(w, "apply", "adjust")

(* A charge that fails is logged, and the record is saved all the same.    *)
ChargeFails(w) ==
  /\ task[w].op = "cdr" /\ task[w].pc \in {"apply", "adjust", "save"}
  /\ losses < MaxLosses /\ losses' = losses + 1
  /\ waived' = [waived EXCEPT ![task[w].record] = @ + 1]
  /\ Goto(w, "row")
  /\ UNCHANGED <<db, phone, requests, took, forgiven, raced, torn>>

(* call_uuid is not unique: every post that gets here inserts a row.  The  *)
(* answer may come too late for mod_xml_cdr, which then posts again.       *)
SaveRecord(w) ==
  LET r == task[w].record IN
  /\ At(w, "row") /\ task[w].op = "cdr"
  /\ records' = [records EXCEPT ![r] = @ + 1]
  /\ \E answered \in BOOLEAN : posts' = IF answered THEN [posts EXCEPT ![r] = 0] ELSE posts
  /\ Finish(w)
  /\ UNCHANGED <<config, topups, charges, nextId, call, bounds, history>>

(* applyPrepaidCharge of the auto dialer: no lower limit.                  *)
applyPrepaidCharge(w) == \E c \in Calls :
  LET r == <<c, Dialer>> IN
  /\ Post(w, r)
  /\ task' = IF config.prepaid
               THEN [task EXCEPT ![w] = [Idle EXCEPT !.op = "dialerCdr", !.record = r,
                                                     !.seen = config, !.delta = -Cost, !.pc = "deduct"]]
               ELSE task

Deduct(w) ==
  LET t == task[w] IN
  /\ At(w, "deduct")
  /\ config' = [t.seen EXCEPT !.balance = @ + t.delta]
  /\ raced' = (raced \/ config # t.seen)
  /\ took' = [took EXCEPT ![t.record] = @ + 1]
  /\ Finish(w)
  /\ UNCHANGED <<topups, charges, nextId, records, phone, bounds, waived, forgiven, torn>>

-----------------------------------------------------------------------------
(* A request is lost: its instance goes down or a database call fails.  A  *)
(* lookup that is lost leaves the caller without a route.                  *)
Lose(w) ==
  /\ ~At(w, "idle") /\ losses < MaxLosses
  /\ losses' = losses + 1
  /\ torn' = (torn \/ (At(w, "row") /\ task[w].op # "cdr"))
  /\ call' = IF At(w, "route") THEN [call EXCEPT ![task[w].record[1]] = "refused"] ELSE call
  /\ Finish(w)
  /\ UNCHANGED <<db, posts, requests, took, waived, forgiven, raced>>

Step(w) ==
  \/ topup(w) \/ addCharge(w) \/ updateLatestTopup(w) \/ deleteLatestTopup(w)
  \/ updateCharge(w) \/ deleteCharge(w) \/ updateConfig(w)
  \/ CheckBalance(w) \/ findLatestTopup(w) \/ SaveConfig(w)
  \/ ReadBalance(w) \/ SaveBalance(w) \/ SaveNewRow(w) \/ SaveChangedRow(w)
  \/ Dialplan(w) \/ Bridge(w)
  \/ ingestCdr(w) \/ computeBillingContext(w) \/ applyCharge(w) \/ ChargeFails(w) \/ SaveRecord(w)
  \/ applyPrepaidCharge(w) \/ Deduct(w)
  \/ Lose(w)

Next ==
  \/ \E w \in Workers : Step(w)
  \/ \E c \in Calls : Originate(c) \/ HangUp(c)

Spec == Init /\ [][Next]_vars

-----------------------------------------------------------------------------
TablesOK ==
  /\ config \in Config
  /\ topups \subseteq Row /\ charges \subseteq Row
  /\ nextId \in Nat
  /\ records \in [Records -> Nat]

PhoneOK ==
  /\ call \in [Calls -> {"none", "asked", "refused", "up", "dialled", "over"}]
  /\ posts \in [Records -> 0 .. Attempts + 1]

HistoryOK ==
  /\ requests \in 0 .. MaxRequests /\ losses \in 0 .. MaxLosses
  /\ took \in [Records -> Nat] /\ waived \in [Records -> Nat]
  /\ forgiven \in Nat /\ raced \in BOOLEAN /\ torn \in BOOLEAN

TypeOK == TablesOK /\ PhoneOK /\ HistoryOK /\ task \in [Workers -> Task]

Total(f(_), S) == MapThenSumSet(f, S)
Amount(row)    == row.amount
Taken(r)       == took[r] * Cost
Quiet          == \A w \in Workers : At(w, "idle")

(* The books are right: when no request is being served, the balance is    *)
(* what was there at the start, plus the top-ups, minus the charges and    *)
(* the calls since (the rows of the start cancel out), plus what           *)
(* adjustBalance forgave when the balance would have gone below 0 - unless *)
(* a save overwrote a change it had not read, or a request was lost        *)
(* between the balance and its row.                                        *)
Reconciled ==
  Quiet /\ ~raced /\ ~torn =>
    config.balance = Opening + Total(Amount, topups) - Total(Amount, charges)
                       - Total(Taken, Records) + forgiven

(* A call record is stored only after its charge was taken, or was let go  *)
(* because the tenant is not prepaid or the charge failed: a loss between  *)
(* the two costs a record, never a charge.                                 *)
RecordsPaid == \A r \in Records : records[r] <= took[r] + waived[r]

(* Whatever overwrites what, the requests of billing.service and           *)
(* cdr.service never bring the balance below 0: only the charge of a call  *)
(* that the auto dialer made does.                                         *)
NoneDialled == \A c \in Calls : took[<<c, Dialer>>] = 0
NonNegative == NoneDialled => config.balance >= 0

(* The form of the billing configuration: while prepaid is on, the fund of *)
(* the tenant is reduced after every outbound call.                        *)
DeductedPerCall ==
  Quiet /\ losses = 0 /\ config.prepaid =>
    config.balance = Clamp(Opening - Cost * Cardinality(
      {c \in Calls : \E leg \in Legs : records[<<c, leg>>] > 0}))
=============================================================================
