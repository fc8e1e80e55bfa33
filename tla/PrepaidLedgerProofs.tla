------------------------- MODULE PrepaidLedgerProofs -------------------------
(***************************************************************************)
(* Proofs about PrepaidLedger, for any number of workers, calls, legs and  *)
(* requests, any amounts, and any losses.                                  *)
(***************************************************************************)
EXTENDS PrepaidLedger, FiniteSetTheorems, WellFoundedInduction, TLAPS

(* What a request has read and checked before it comes to a step.          *)
TaskGood(t) ==
  /\ t.op \in {"topup", "addCharge", "updateCharge"} => t.amount > 0
  /\ t.op = "updateLatestTopup" /\ t.pc \notin {"check", "latest"} => t.amount > 0
  /\ t.op \in {"cdr", "dialerCdr", "dialplan"} => t.record \in Records
  /\ t.pc \in {"context", "apply"} => t.op = "cdr"
  /\ t.pc \in {"check", "latest"} => t.op \in {"updateLatestTopup", "deleteLatestTopup"}
  /\ t.pc = "deduct" => t.op = "dialerCdr"
  /\ t.pc = "route" => t.op = "dialplan"
  /\ t.pc = "row" /\ t.op = "topup" => t.seen.balance >= 0

TaskOK == \A w \in Workers : TaskGood(task[w])

TypeInv == TypeOK /\ TaskOK

USE DEF At

(* A step of a worker starts a request, carries one on, or ends one.       *)
LEMMA StepCases ==
  ASSUME NEW w \in Workers, Step(w)
  PROVE  \/ topup(w) \/ addCharge(w) \/ updateLatestTopup(w) \/ deleteLatestTopup(w)
         \/ updateCharge(w) \/ deleteCharge(w) \/ updateConfig(w)
         \/ CheckBalance(w) \/ findLatestTopup(w) \/ SaveConfig(w)
         \/ ReadBalance(w) \/ SaveBalance(w) \/ SaveNewRow(w) \/ SaveChangedRow(w)
         \/ Dialplan(w) \/ Bridge(w)
         \/ ingestCdr(w) \/ computeBillingContext(w) \/ applyCharge(w)
         \/ ChargeFails(w) \/ SaveRecord(w)
         \/ applyPrepaidCharge(w) \/ Deduct(w) \/ Lose(w)
  BY DEF Step

(* The steps that change no table.                                         *)
LEMMA TablesKept ==
  ASSUME NEW w \in Workers,
         \/ topup(w) \/ addCharge(w) \/ updateLatestTopup(w) \/ deleteLatestTopup(w)
         \/ updateCharge(w) \/ deleteCharge(w) \/ updateConfig(w)
         \/ CheckBalance(w) \/ findLatestTopup(w) \/ ReadBalance(w)
         \/ Dialplan(w) \/ Bridge(w) \/ ingestCdr(w)
         \/ computeBillingContext(w) \/ applyCharge(w) \/ ChargeFails(w)
         \/ applyPrepaidCharge(w) \/ Lose(w)
  PROVE  UNCHANGED db
  BY DEF topup, addCharge, updateLatestTopup, deleteLatestTopup, updateCharge, deleteCharge,
         updateConfig, Request, CheckBalance, findLatestTopup, ReadBalance, Dialplan, Bridge,
         ingestCdr, Post, computeBillingContext, applyCharge, ChargeIfPrepaid, ChargeFails,
         applyPrepaidCharge, Lose

(* Putting a row into a table or taking one out gives rows.                *)
LEMMA RowsKept ==
  ASSUME NEW rows, rows \subseteq Row, NEW row \in Row
  PROVE  Put(rows, row) \subseteq Row /\ Remove(rows, row) \subseteq Row
  BY DEF Put, Remove

LEMMA ClampNat == ASSUME NEW n \in Int PROVE Clamp(n) \in Nat
  BY DEF Clamp

LEMMA TaskType ==
  ASSUME TypeInv, NEW w \in Workers
  PROVE  /\ task[w] \in Task
         /\ task[w].seen \in Config /\ task[w].seen.balance \in Int
         /\ task[w].delta \in Int /\ task[w].amount \in Int /\ task[w].row \in Row
         /\ task[w].prepaid \in BOOLEAN
  BY DEF TypeInv, TypeOK, Task, Config

LEMMA TablesStep ==
  ASSUME TypeInv, [Next]_vars
  PROVE  TablesOK'
<1> USE TaskType
<1>1. TablesOK
  BY DEF TypeInv, TypeOK
<1>2. ASSUME NEW w \in Workers, Step(w) PROVE TablesOK'
  <2> DEFINE t == task[w]
  <2>1. CASE SaveConfig(w)
    <3>1. config' \in Config
      BY <2>1 DEF SaveConfig, Config
    <3> QED BY <1>1, <2>1, <3>1 DEF SaveConfig, TablesOK
  <2>2. CASE SaveBalance(w)
    <3>1. NextBalance(t) \in Nat
      BY ClampNat DEF NextBalance
    <3>2. config' \in Config
      BY <2>2, <3>1 DEF SaveBalance, Config
    <3> QED BY <1>1, <2>2, <3>2 DEF SaveBalance, TablesOK
  <2>3. CASE SaveNewRow(w)
    <3>1. t.amount \in Nat /\ nextId \in Nat /\ (t.op = "topup" => t.seen.balance \in Nat)
      BY <1>1, <2>3 DEF SaveNewRow, TypeInv, TaskOK, TaskGood, TablesOK
    <3>2. /\ t.op = "topup" => [id |-> nextId, amount |-> t.amount, after |-> t.seen.balance] \in Row
          /\ [id |-> nextId, amount |-> t.amount, after |-> 0] \in Row
      BY <3>1 DEF Row
    <3>3. CASE t.op = "topup"
      <4>1. topups' = Put(topups, [id |-> nextId, amount |-> t.amount, after |-> t.seen.balance])
        BY <2>3, <3>3 DEF SaveNewRow
      <4>2. topups' \subseteq Row
        BY <1>1, <3>2, <3>3, <4>1, RowsKept DEF TablesOK
      <4> QED BY <1>1, <2>3, <3>1, <3>3, <4>2 DEF SaveNewRow, TablesOK
    <3>4. CASE t.op # "topup"
      <4>1. charges' = Put(charges, [id |-> nextId, amount |-> t.amount, after |-> 0])
        BY <2>3, <3>4 DEF SaveNewRow
      <4>2. charges' \subseteq Row
        BY <1>1, <3>2, <4>1, RowsKept DEF TablesOK
      <4> QED BY <1>1, <2>3, <3>1, <3>4, <4>2 DEF SaveNewRow, TablesOK
    <3> QED BY <3>3, <3>4
  <2>4. CASE SaveChangedRow(w)
    <3>1. t.op = "updateLatestTopup" => ChangedTopup(t) \in Row
      <4> SUFFICES ASSUME t.op = "updateLatestTopup" PROVE ChangedTopup(t) \in Row
        OBVIOUS
      <4>1. t.amount \in Nat
        BY <2>4 DEF SaveChangedRow, TypeInv, TaskOK, TaskGood
      <4>2. t.row \in Row /\ t.row.after + t.delta \in Int
        BY DEF Row
      <4>3. Clamp(t.row.after + t.delta) \in Nat
        BY <4>2, ClampNat
      <4> QED BY <4>1, <4>2, <4>3 DEF ChangedTopup, Row
    <3>2. t.op = "updateCharge" => ChangedCharge(t) \in Row
      BY <2>4 DEF SaveChangedRow, TypeInv, TaskOK, TaskGood, ChangedCharge, Row
    <3>3. /\ Put(topups, ChangedTopup(t)) \subseteq Row \/ t.op # "updateLatestTopup"
          /\ Put(charges, ChangedCharge(t)) \subseteq Row \/ t.op # "updateCharge"
          /\ Remove(topups, t.row) \subseteq Row /\ Remove(charges, t.row) \subseteq Row
      BY <1>1, <3>1, <3>2, RowsKept DEF TablesOK
    <3>4. topups' \subseteq Row /\ charges' \subseteq Row
      <4>1. t.op \in {"updateLatestTopup", "deleteLatestTopup", "updateCharge", "deleteCharge"}
        BY <2>4 DEF SaveChangedRow
      <4> HIDE DEF t
      <4>2. CASE t.op = "updateLatestTopup"
        BY <1>1, <2>4, <3>3, <4>2 DEF SaveChangedRow, TablesOK, t
      <4>3. CASE t.op = "deleteLatestTopup"
        BY <1>1, <2>4, <3>3, <4>3 DEF SaveChangedRow, TablesOK, t
      <4>4. CASE t.op = "updateCharge"
        BY <1>1, <2>4, <3>3, <4>4 DEF SaveChangedRow, TablesOK, t
      <4>5. CASE t.op = "deleteCharge"
        BY <1>1, <2>4, <3>3, <4>5 DEF SaveChangedRow, TablesOK, t
      <4> QED BY <4>1, <4>2, <4>3, <4>4, <4>5
    <3> QED BY <1>1, <2>4, <3>4 DEF SaveChangedRow, TablesOK
  <2>5. CASE SaveRecord(w)
    <3>1. records' \in [Records -> Nat]
      <4>1. t.record \in Records
        BY <2>5 DEF SaveRecord, TypeInv, TaskOK, TaskGood
      <4>2. records' = [records EXCEPT ![t.record] = @ + 1]
        BY <2>5 DEF SaveRecord
      <4> QED BY <1>1, <4>1, <4>2 DEF TablesOK
    <3> QED BY <1>1, <2>5, <3>1 DEF SaveRecord, TablesOK
  <2>6. CASE Deduct(w)
    <3>1. config' \in Config
      BY <2>6 DEF Deduct, Config
    <3> QED BY <1>1, <2>6, <3>1 DEF Deduct, TablesOK
  <2>7. CASE UNCHANGED db
    BY <1>1, <2>7 DEF db, TablesOK
  <2> QED BY <1>2, <2>1, <2>2, <2>3, <2>4, <2>5, <2>6, <2>7, StepCases, TablesKept
<1>3. CASE UNCHANGED db
  BY <1>1, <1>3 DEF db, TablesOK
<1> QED BY <1>2, <1>3 DEF Next, vars, Originate, HangUp

LEMMA PhoneStep ==
  ASSUME TypeInv, [Next]_vars
  PROVE  PhoneOK'
<1>1. PhoneOK
  BY DEF TypeInv, TypeOK
<1>2. ASSUME NEW r \in Records, posts[r] > 0
      PROVE  [posts EXCEPT ![r] = @ - 1] \in [Records -> 0 .. Attempts + 1]
  BY <1>1, <1>2, ConstantsAssumption DEF PhoneOK
<1>3. ASSUME NEW w \in Workers, Step(w) PROVE PhoneOK'
  <2>1. CASE ingestCdr(w)
    BY <1>1, <1>2, <2>1 DEF ingestCdr, Post, PhoneOK, Records
  <2>2. CASE applyPrepaidCharge(w)
    BY <1>1, <1>2, <2>2 DEF applyPrepaidCharge, Post, PhoneOK, Records
  <2>3. CASE SaveRecord(w)
    <3>1. 0 \in 0 .. Attempts + 1
      BY ConstantsAssumption
    <3>2. posts' = [posts EXCEPT ![task[w].record] = 0] \/ posts' = posts
      BY <2>3 DEF SaveRecord
    <3> QED BY <1>1, <2>3, <3>1, <3>2 DEF SaveRecord, PhoneOK
  <2>4. CASE Dialplan(w) \/ Bridge(w) \/ Lose(w)
    BY <1>1, <2>4 DEF Dialplan, Bridge, Lose, PhoneOK
  <2>5. CASE UNCHANGED phone
    BY <1>1, <2>5 DEF phone, PhoneOK
  <2>6. Step(w) => \/ ingestCdr(w) \/ applyPrepaidCharge(w) \/ SaveRecord(w)
                   \/ Dialplan(w) \/ Bridge(w) \/ Lose(w) \/ UNCHANGED phone
    BY DEF Step, topup, addCharge, updateLatestTopup, deleteLatestTopup, updateCharge, deleteCharge,
           updateConfig, Request, CheckBalance, findLatestTopup, SaveConfig, ReadBalance, SaveBalance,
           SaveNewRow, SaveChangedRow, computeBillingContext, applyCharge, ChargeIfPrepaid,
           ChargeFails, Deduct
  <2> QED BY <1>3, <2>1, <2>2, <2>3, <2>4, <2>5, <2>6
<1>4. ASSUME NEW c \in Calls, Originate(c) PROVE PhoneOK'
  BY <1>1, <1>4 DEF Originate, PhoneOK
<1>5. ASSUME NEW c \in Calls, HangUp(c) PROVE PhoneOK'
  BY <1>1, <1>5, ConstantsAssumption DEF HangUp, PhoneOK
<1>6. CASE UNCHANGED vars
  BY <1>1, <1>6 DEF vars, phone, PhoneOK
<1> QED BY <1>3, <1>4, <1>5, <1>6 DEF Next

LEMMA HistoryStep ==
  ASSUME TypeInv, [Next]_vars
  PROVE  HistoryOK'
<1>1. HistoryOK
  BY DEF TypeInv, TypeOK
<1>2. MaxRequests \in Nat /\ MaxLosses \in Nat
  BY ConstantsAssumption
<1>3. ASSUME NEW f \in [Records -> Nat], NEW r \in Records
      PROVE  [f EXCEPT ![r] = @ + 1] \in [Records -> Nat]
  BY <1>3
<1>4. ASSUME NEW w \in Workers, Step(w) PROVE HistoryOK'
  <2>1. CASE \/ topup(w) \/ addCharge(w) \/ updateLatestTopup(w) \/ deleteLatestTopup(w)
             \/ updateCharge(w) \/ deleteCharge(w) \/ updateConfig(w)
    <3>1. requests < MaxRequests /\ requests' = requests + 1 /\ UNCHANGED <<losses, history>>
      BY <2>1 DEF topup, addCharge, updateLatestTopup, deleteLatestTopup, updateCharge,
                  deleteCharge, updateConfig, Request
    <3> QED BY <1>1, <1>2, <3>1 DEF HistoryOK, history
  <2>2. CASE SaveBalance(w)
    <3>1. Clamp(-(task[w].seen.balance + task[w].delta)) \in Nat
      BY TaskType, ClampNat
    <3>2. forgiven' \in Nat
      BY <1>1, <2>2, <3>1 DEF SaveBalance, HistoryOK
    <3>3. took' \in [Records -> Nat]
      BY <1>1, <1>3, <2>2 DEF SaveBalance, HistoryOK, TypeInv, TaskOK, TaskGood
    <3> QED BY <1>1, <2>2, <3>2, <3>3 DEF SaveBalance, HistoryOK, bounds
  <2>3. CASE SaveConfig(w) \/ SaveChangedRow(w)
    BY <1>1, <2>3 DEF SaveConfig, SaveChangedRow, HistoryOK, bounds
  <2>4. CASE computeBillingContext(w) \/ applyCharge(w)
    <3>1. task[w].record \in Records
      BY <2>4 DEF computeBillingContext, applyCharge, ChargeIfPrepaid, TypeInv, TaskOK, TaskGood
    <3>2. waived' = waived \/ waived' = [waived EXCEPT ![task[w].record] = @ + 1]
      BY <2>4 DEF computeBillingContext, applyCharge, ChargeIfPrepaid
    <3>3. waived' \in [Records -> Nat]
      BY <1>1, <1>3, <3>1, <3>2 DEF HistoryOK
    <3> QED BY <1>1, <2>4, <3>3
            DEF computeBillingContext, applyCharge, ChargeIfPrepaid, HistoryOK, bounds
  <2>5. CASE ChargeFails(w)
    <3>1. task[w].record \in Records
      BY <2>5 DEF ChargeFails, TypeInv, TaskOK, TaskGood
    <3>2. waived' \in [Records -> Nat]
      BY <1>1, <1>3, <2>5, <3>1 DEF ChargeFails, HistoryOK
    <3>3. losses' \in 0 .. MaxLosses
      BY <1>1, <1>2, <2>5 DEF ChargeFails, HistoryOK
    <3> QED BY <1>1, <2>5, <3>2, <3>3 DEF ChargeFails, HistoryOK
  <2>6. CASE Deduct(w)
    <3>1. took' \in [Records -> Nat]
      BY <1>1, <1>3, <2>6 DEF Deduct, HistoryOK, TypeInv, TaskOK, TaskGood
    <3> QED BY <1>1, <2>6, <3>1 DEF Deduct, HistoryOK, bounds
  <2>7. CASE Lose(w)
    <3>1. losses' \in 0 .. MaxLosses /\ torn' \in BOOLEAN
      BY <1>1, <1>2, <2>7 DEF Lose, HistoryOK
    <3> QED BY <1>1, <2>7, <3>1 DEF Lose, HistoryOK
  <2>8. CASE UNCHANGED <<bounds, history>>
    BY <1>1, <2>8 DEF HistoryOK, bounds, history
  <2>9. \/ CheckBalance(w) \/ findLatestTopup(w) \/ ReadBalance(w) \/ SaveNewRow(w) \/ Dialplan(w)
        \/ Bridge(w) \/ ingestCdr(w) \/ SaveRecord(w) \/ applyPrepaidCharge(w)
        => UNCHANGED <<bounds, history>>
    BY DEF CheckBalance, findLatestTopup, ReadBalance, SaveNewRow, Dialplan, Bridge, ingestCdr,
           SaveRecord, applyPrepaidCharge, Post
  <2> QED BY <1>4, <2>1, <2>2, <2>3, <2>4, <2>5, <2>6, <2>7, <2>8, <2>9, StepCases
<1>5. CASE UNCHANGED <<bounds, history>>
  BY <1>1, <1>5 DEF HistoryOK, bounds, history
<1> QED BY <1>4, <1>5 DEF Next, vars, Originate, HangUp

-----------------------------------------------------------------------------
(* The tasks.  A step gives its worker one new task.                       *)
NewTask(w) == \E t \in Task : TaskGood(t) /\ task' = [task EXCEPT ![w] = t]

(* A new request remembers no balance but the one there is, and has not    *)
(* decided a charge.                                                       *)
FreshTask(w) ==
  \E t \in Task : /\ TaskGood(t) /\ task' = [task EXCEPT ![w] = t]
                  /\ t.seen \in {Idle.seen, config}
                  /\ t.pc = "deduct" => applyPrepaidCharge(w)
                  /\ t.op = "cdr" => t.pc # "row"

LEMMA FreshIsNew == ASSUME NEW w, FreshTask(w) PROVE NewTask(w)
  BY DEF FreshTask, NewTask

LEMMA IdleGood == Idle \in Task /\ TaskGood(Idle)
  BY DEF Idle, Task, TaskGood, Config, Row, NoRow

LEMMA IdleFields == Idle.seen.balance = 0 /\ Idle.pc = "idle"
  BY DEF Idle

LEMMA FinishTask == ASSUME NEW w \in Workers, Finish(w) PROVE NewTask(w)
  BY IdleGood DEF Finish, NewTask

LEMMA AmountType == ASSUME NEW a \in Amounts PROVE a \in Int /\ -a \in Int
  BY ConstantsAssumption

LEMMA RequestTask ==
  ASSUME TypeInv, NEW w \in Workers,
         \/ topup(w) \/ addCharge(w) \/ updateLatestTopup(w) \/ deleteLatestTopup(w)
         \/ updateCharge(w) \/ deleteCharge(w) \/ updateConfig(w)
  PROVE  FreshTask(w)
<1>1. charges \subseteq Row /\ config \in Config
  BY DEF TypeInv, TypeOK, TablesOK
<1>2. CASE topup(w)
  <2>1. PICK a \in Amounts : a > 0 /\ task' = [task EXCEPT ![w] =
          [Idle EXCEPT !.op = "topup", !.pc = "adjust", !.delta = a, !.amount = a]]
    BY <1>2 DEF topup
  <2> DEFINE t == [Idle EXCEPT !.op = "topup", !.pc = "adjust", !.delta = a, !.amount = a]
  <2>2. t \in Task /\ TaskGood(t)
    <3>1. t \in Task
      BY <2>1, AmountType, IdleGood DEF Idle, Task, Config, Row, NoRow, AdminOps
    <3>2. TaskGood(t)
      BY <2>1, AmountType DEF Idle, TaskGood
    <3> QED BY <3>1, <3>2
  <2>9. t.seen \in {Idle.seen, config} /\ t.pc # "deduct" /\ (t.op = "cdr" => t.pc # "row")
    BY DEF Idle
  <2> QED BY <2>1, <2>2, <2>9 DEF FreshTask
<1>3. CASE addCharge(w)
  <2>1. PICK a \in Amounts : a > 0 /\ task' = [task EXCEPT ![w] =
          [Idle EXCEPT !.op = "addCharge", !.pc = "adjust", !.delta = -a, !.amount = a]]
    BY <1>3 DEF addCharge
  <2> DEFINE t == [Idle EXCEPT !.op = "addCharge", !.pc = "adjust", !.delta = -a, !.amount = a]
  <2>2. t \in Task /\ TaskGood(t)
    <3>1. t \in Task
      BY <2>1, AmountType, IdleGood DEF Idle, Task, Config, Row, NoRow, AdminOps
    <3>2. TaskGood(t)
      BY <2>1, AmountType DEF Idle, TaskGood
    <3> QED BY <3>1, <3>2
  <2>9. t.seen \in {Idle.seen, config} /\ t.pc # "deduct" /\ (t.op = "cdr" => t.pc # "row")
    BY DEF Idle
  <2> QED BY <2>1, <2>2, <2>9 DEF FreshTask
<1>4. CASE updateLatestTopup(w)
  <2>1. PICK a \in Amounts : task' = [task EXCEPT ![w] =
          [Idle EXCEPT !.op = "updateLatestTopup", !.pc = "check", !.amount = a]]
    BY <1>4 DEF updateLatestTopup
  <2> DEFINE t == [Idle EXCEPT !.op = "updateLatestTopup", !.pc = "check", !.amount = a]
  <2>2. t \in Task /\ TaskGood(t)
    <3>1. t \in Task
      BY <2>1, AmountType, IdleGood DEF Idle, Task, Config, Row, NoRow, AdminOps
    <3>2. TaskGood(t)
      BY <2>1, AmountType DEF Idle, TaskGood
    <3> QED BY <3>1, <3>2
  <2>9. t.seen \in {Idle.seen, config} /\ t.pc # "deduct" /\ (t.op = "cdr" => t.pc # "row")
    BY DEF Idle
  <2> QED BY <2>1, <2>2, <2>9 DEF FreshTask
<1>5. CASE deleteLatestTopup(w)
  <2> DEFINE t == [Idle EXCEPT !.op = "deleteLatestTopup", !.pc = "check"]
  <2>1. task' = [task EXCEPT ![w] = t]
    BY <1>5 DEF deleteLatestTopup
  <2>2. t \in Task /\ TaskGood(t)
    <3>1. t \in Task
      BY IdleGood DEF Idle, Task, Config, Row, NoRow, AdminOps
    <3>2. TaskGood(t)
      BY DEF Idle, TaskGood
    <3> QED BY <3>1, <3>2
  <2>9. t.seen \in {Idle.seen, config} /\ t.pc # "deduct" /\ (t.op = "cdr" => t.pc # "row")
    BY DEF Idle
  <2> QED BY <2>1, <2>2, <2>9 DEF FreshTask
<1>6. CASE updateCharge(w)
  <2>1. PICK charge \in charges, a \in Amounts : a > 0 /\ task' = [task EXCEPT ![w] =
          [Idle EXCEPT !.op = "updateCharge", !.row = charge, !.amount = a, !.delta = charge.amount - a,
                       !.pc = IF charge.amount - a = 0 THEN "row" ELSE "adjust"]]
    BY <1>6 DEF updateCharge
  <2> DEFINE t == [Idle EXCEPT !.op = "updateCharge", !.row = charge, !.amount = a,
                               !.delta = charge.amount - a,
                               !.pc = IF charge.amount - a = 0 THEN "row" ELSE "adjust"]
  <2>2. charge \in Row /\ charge.amount - a \in Int
    BY <1>1, AmountType DEF Row
  <2>3. t \in Task /\ TaskGood(t)
    <3>1. t \in Task
      BY <2>1, <2>2, AmountType, IdleGood DEF Idle, Task, Config, Row, NoRow, AdminOps
    <3>2. TaskGood(t)
      BY <2>1, <2>2, AmountType DEF Idle, TaskGood
    <3> QED BY <3>1, <3>2
  <2>9. t.seen \in {Idle.seen, config} /\ t.pc # "deduct" /\ (t.op = "cdr" => t.pc # "row")
    BY DEF Idle
  <2> QED BY <2>1, <2>3, <2>9 DEF FreshTask
<1>7. CASE deleteCharge(w)
  <2>1. PICK charge \in charges : task' = [task EXCEPT ![w] =
          [Idle EXCEPT !.op = "deleteCharge", !.row = charge, !.delta = charge.amount, !.pc = "adjust"]]
    BY <1>7 DEF deleteCharge
  <2> DEFINE t == [Idle EXCEPT !.op = "deleteCharge", !.row = charge, !.delta = charge.amount,
                               !.pc = "adjust"]
  <2>2. charge \in Row /\ charge.amount \in Int
    BY <1>1 DEF Row
  <2>3. t \in Task /\ TaskGood(t)
    <3>1. t \in Task
      BY <2>2, IdleGood DEF Idle, Task, Config, Row, NoRow, AdminOps
    <3>2. TaskGood(t)
      BY <2>2 DEF Idle, TaskGood
    <3> QED BY <3>1, <3>2
  <2>9. t.seen \in {Idle.seen, config} /\ t.pc # "deduct" /\ (t.op = "cdr" => t.pc # "row")
    BY DEF Idle
  <2> QED BY <2>1, <2>3, <2>9 DEF FreshTask
<1>8. CASE updateConfig(w)
  <2>1. PICK p \in BOOLEAN : task' = [task EXCEPT ![w] =
          [Idle EXCEPT !.op = "updateConfig", !.seen = config, !.prepaid = p, !.pc = "config"]]
    BY <1>8 DEF updateConfig
  <2> DEFINE t == [Idle EXCEPT !.op = "updateConfig", !.seen = config, !.prepaid = p, !.pc = "config"]
  <2>2. t \in Task /\ TaskGood(t)
    <3>1. t \in Task
      BY <1>1, IdleGood DEF Idle, Task, Config, Row, NoRow, AdminOps
    <3>2. TaskGood(t)
      BY <1>1 DEF Idle, TaskGood
    <3> QED BY <3>1, <3>2
  <2>9. t.seen \in {Idle.seen, config} /\ t.pc # "deduct" /\ (t.op = "cdr" => t.pc # "row")
    BY DEF Idle
  <2> QED BY <2>1, <2>2, <2>9 DEF FreshTask
<1> QED BY <1>2, <1>3, <1>4, <1>5, <1>6, <1>7, <1>8

(* A request is carried on.                                                *)
LEMMA GotoGood ==
  ASSUME NEW t \in Task, TaskGood(t), NEW pc \in {"latest", "row", "apply", "adjust"},
         t.op \in {"updateLatestTopup", "deleteLatestTopup", "cdr"},
         t.op = "updateLatestTopup" => pc = "latest",
         t.op = "deleteLatestTopup" => pc = "latest",
         pc = "latest" => t.op # "cdr"
  PROVE  [t EXCEPT !.pc = pc] \in Task /\ TaskGood([t EXCEPT !.pc = pc])
  BY DEF Task, TaskGood

LEMMA CarryOnTask ==
  ASSUME TypeInv, NEW w \in Workers,
         \/ CheckBalance(w) \/ findLatestTopup(w) \/ ReadBalance(w) \/ SaveBalance(w)
         \/ computeBillingContext(w) \/ applyCharge(w) \/ ChargeFails(w)
  PROVE  NewTask(w)
<1> DEFINE t == task[w]
<1>1. t \in Task /\ TaskGood(t) /\ config \in Config /\ topups \subseteq Row
  BY TaskType DEF TypeInv, TypeOK, TablesOK, TaskOK
<1>2. CASE CheckBalance(w)
  <2>1. CASE Finish(w)
    BY <2>1, FinishTask
  <2>2. CASE Goto(w, "latest")
    <3>1. [t EXCEPT !.pc = "latest"] \in Task /\ TaskGood([t EXCEPT !.pc = "latest"])
      BY <1>1, <1>2, GotoGood DEF CheckBalance, TaskGood
    <3> QED BY <2>2, <3>1 DEF Goto, NewTask
  <2> QED BY <1>2, <2>1, <2>2 DEF CheckBalance
<1>3. CASE findLatestTopup(w)
  <2>1. CASE Finish(w)
    BY <2>1, FinishTask
  <2>2. CASE ~Finish(w)
    <3> DEFINE delta(row) == (IF t.op = "updateLatestTopup" THEN t.amount ELSE 0) - row.amount
    <3>1. PICK row \in topups : task' = [task EXCEPT ![w] =
            [t EXCEPT !.row = row, !.delta = delta(row), !.pc = IF delta(row) = 0 THEN "row" ELSE "adjust"]]
      BY <1>1, <1>3, <2>2 DEF findLatestTopup, TypeInv, TypeOK
    <3>2. t.op = "updateLatestTopup" => t.amount > 0
      <4>1. t.op = "updateLatestTopup" => ~(t.amount <= 0)
        BY <1>3, <2>2 DEF findLatestTopup
      <4>2. t.amount \in Int
        BY TaskType
      <4> QED BY <4>1, <4>2
    <3>3. row \in Row /\ delta(row) \in Int
      BY <1>1 DEF Row, Task
    <3> HIDE DEF delta
    <3>4. t.op \in {"updateLatestTopup", "deleteLatestTopup"}
      BY <1>1, <1>3 DEF findLatestTopup, TaskGood
    <3> DEFINE u == [t EXCEPT !.row = row, !.delta = delta(row),
                              !.pc = IF delta(row) = 0 THEN "row" ELSE "adjust"]
    <3>5. u \in Task
      BY <1>1, <3>3 DEF Task
    <3>6. TaskGood(u)
      BY <1>1, <3>2, <3>4 DEF Task, TaskGood
    <3> QED BY <3>1, <3>5, <3>6 DEF NewTask
  <2> QED BY <2>1, <2>2
<1>4. CASE ReadBalance(w)
  <2> DEFINE u == [t EXCEPT !.seen = config, !.pc = "save"]
  <2>1. task' = [task EXCEPT ![w] = u]
    BY <1>4 DEF ReadBalance
  <2>2. t.pc = "adjust"
    BY <1>4 DEF ReadBalance
  <2>3. u \in Task
    BY <1>1 DEF Task
  <2>4. TaskGood(u)
    BY <1>1, <2>2 DEF Task, TaskGood
  <2> QED BY <2>1, <2>3, <2>4 DEF NewTask
<1>5. CASE SaveBalance(w)
  <2> DEFINE u == [t EXCEPT !.seen.balance = NextBalance(t), !.pc = "row"]
  <2>1. task' = [task EXCEPT ![w] = u] /\ t.pc = "save"
    BY <1>5 DEF SaveBalance
  <2>2. NextBalance(t) \in Nat
    BY TaskType, ClampNat DEF NextBalance
  <2>3. [t.seen EXCEPT !.balance = NextBalance(t)] \in Config
    BY <1>1, <2>2 DEF Task, Config
  <2>4. u = [t EXCEPT !.seen = [t.seen EXCEPT !.balance = NextBalance(t)], !.pc = "row"]
    BY <1>1 DEF Task
  <2>5. u \in Task
    BY <1>1, <2>3, <2>4 DEF Task
  <2>6. u.op = t.op /\ u.amount = t.amount /\ u.record = t.record /\ u.pc = "row"
        /\ u.seen.balance = NextBalance(t)
    BY <1>1, <2>3, <2>4 DEF Task, Config
  <2> HIDE DEF u
  <2>7. TaskGood(u)
    BY <1>1, <2>1, <2>2, <2>6 DEF TaskGood
  <2> QED BY <2>1, <2>5, <2>7 DEF NewTask, u
<1>6. CASE computeBillingContext(w) \/ applyCharge(w) \/ ChargeFails(w)
  <2>1. t.op = "cdr"
    BY <1>1, <1>6 DEF computeBillingContext, applyCharge, ChargeIfPrepaid, ChargeFails, TaskGood
  <2>2. PICK pc \in {"row", "apply", "adjust"} : Goto(w, pc)
    BY <1>6 DEF computeBillingContext, applyCharge, ChargeIfPrepaid, ChargeFails
  <2>3. [t EXCEPT !.pc = pc] \in Task /\ TaskGood([t EXCEPT !.pc = pc])
    BY <1>1, <2>1, GotoGood
  <2> QED BY <2>2, <2>3 DEF Goto, NewTask
<1> QED BY <1>2, <1>3, <1>4, <1>5, <1>6

(* The request that has found the latest top-up.                           *)
LEMMA FoundTopup ==
  ASSUME TypeInv, NEW w \in Workers, findLatestTopup(w), ~Finish(w),
         NEW u, task' = [task EXCEPT ![w] = u]
  PROVE  u.seen = task[w].seen /\ u.pc \in {"row", "adjust"} /\ u.op # "cdr"
<1> DEFINE t == task[w]
           delta(row) == (IF t.op = "updateLatestTopup" THEN t.amount ELSE 0) - row.amount
<1>1. PICK row \in topups : task' = [task EXCEPT ![w] =
        [t EXCEPT !.row = row, !.delta = delta(row), !.pc = IF delta(row) = 0 THEN "row" ELSE "adjust"]]
  BY DEF findLatestTopup
<1> HIDE DEF delta
<1>2. task \in [Workers -> Task] /\ t \in Task /\ TaskGood(t)
  BY DEF TypeInv, TypeOK, TaskOK
<1>3. t.op # "cdr"
  BY <1>2 DEF findLatestTopup, TaskGood
<1> HIDE DEF t
<1>4. u = [t EXCEPT !.row = row, !.delta = delta(row), !.pc = IF delta(row) = 0 THEN "row" ELSE "adjust"]
  BY <1>1, <1>2
<1>5. u.seen = t.seen /\ u.pc = (IF delta(row) = 0 THEN "row" ELSE "adjust") /\ u.op = t.op
  BY <1>2, <1>4 DEF Task
<1> QED BY <1>3, <1>5 DEF t

LEMMA CallTask ==
  ASSUME TypeInv, NEW w \in Workers,
         Dialplan(w) \/ ingestCdr(w) \/ applyPrepaidCharge(w)
  PROVE  FreshTask(w) \/ (applyPrepaidCharge(w) /\ task' = task)
<1>1. config \in Config /\ -Cost \in Int
  BY ConstantsAssumption DEF TypeInv, TypeOK, TablesOK
<1>2. CASE Dialplan(w)
  <2>1. PICK c \in Calls : task' = [task EXCEPT ![w] =
          [Idle EXCEPT !.op = "dialplan", !.seen = config, !.record = <<c, Dialer>>, !.pc = "route"]]
    BY <1>2 DEF Dialplan
  <2> DEFINE t == [Idle EXCEPT !.op = "dialplan", !.seen = config, !.record = <<c, Dialer>>, !.pc = "route"]
  <2>2. <<c, Dialer>> \in Records
    BY DEF Records
  <2>3. t \in Task /\ TaskGood(t)
    <3>1. t \in Task
      BY <1>1, <2>2, IdleGood DEF Idle, Task, Config, Row, NoRow, AdminOps
    <3>2. TaskGood(t)
      BY <1>1, <2>2 DEF Idle, TaskGood
    <3> QED BY <3>1, <3>2
  <2>9. t.seen \in {Idle.seen, config} /\ t.pc # "deduct" /\ (t.op = "cdr" => t.pc # "row")
    BY DEF Idle
  <2> QED BY <2>1, <2>3, <2>9 DEF FreshTask
<1>3. CASE ingestCdr(w)
  <2>1. PICK r \in Calls \X Legs : task' = [task EXCEPT ![w] =
          [Idle EXCEPT !.op = "cdr", !.record = r, !.delta = -Cost, !.pc = "context"]]
    BY <1>3 DEF ingestCdr
  <2> DEFINE t == [Idle EXCEPT !.op = "cdr", !.record = r, !.delta = -Cost, !.pc = "context"]
  <2>2. r \in Records
    BY DEF Records
  <2>3. t \in Task /\ TaskGood(t)
    <3>1. t \in Task
      BY <1>1, <2>2, IdleGood DEF Idle, Task, Config, Row, NoRow, AdminOps
    <3>2. TaskGood(t)
      BY <1>1, <2>2 DEF Idle, TaskGood
    <3> QED BY <3>1, <3>2
  <2>9. t.seen \in {Idle.seen, config} /\ t.pc # "deduct" /\ (t.op = "cdr" => t.pc # "row")
    BY DEF Idle
  <2> QED BY <2>1, <2>3, <2>9 DEF FreshTask
<1>4. CASE applyPrepaidCharge(w) /\ task' # task
  <2>1. PICK c \in Calls : task' = [task EXCEPT ![w] =
          [Idle EXCEPT !.op = "dialerCdr", !.record = <<c, Dialer>>, !.seen = config, !.delta = -Cost,
                       !.pc = "deduct"]]
    BY <1>4 DEF applyPrepaidCharge
  <2> DEFINE t == [Idle EXCEPT !.op = "dialerCdr", !.record = <<c, Dialer>>, !.seen = config,
                               !.delta = -Cost, !.pc = "deduct"]
  <2>2. <<c, Dialer>> \in Records
    BY DEF Records
  <2>3. t \in Task /\ TaskGood(t)
    <3>1. t \in Task
      BY <1>1, <2>2, IdleGood DEF Idle, Task, Config, Row, NoRow, AdminOps
    <3>2. TaskGood(t)
      BY <1>1, <2>2 DEF Idle, TaskGood
    <3> QED BY <3>1, <3>2
  <2>9. t.seen \in {Idle.seen, config} /\ t.op # "cdr"
    BY DEF Idle
  <2> QED BY <1>4, <2>1, <2>3, <2>9 DEF FreshTask
<1> QED BY <1>2, <1>3, <1>4

LEMMA StepTask ==
  ASSUME TypeInv, NEW w \in Workers, Step(w)
  PROVE  NewTask(w) \/ task' = task
<1>1. CASE \/ SaveConfig(w) \/ SaveNewRow(w) \/ SaveChangedRow(w) \/ Bridge(w)
           \/ SaveRecord(w) \/ Deduct(w) \/ Lose(w)
  <2>1. Finish(w)
    BY <1>1 DEF SaveConfig, SaveNewRow, SaveChangedRow, Bridge, SaveRecord, Deduct, Lose
  <2> QED BY <2>1, FinishTask
<1> QED BY <1>1, StepCases, RequestTask, CarryOnTask, CallTask, FreshIsNew

LEMMA TaskStep ==
  ASSUME TypeInv, [Next]_vars
  PROVE  (task \in [Workers -> Task])' /\ TaskOK'
<1>1. task \in [Workers -> Task] /\ TaskOK
  BY DEF TypeInv, TypeOK
<1>2. ASSUME NEW w \in Workers, NewTask(w)
      PROVE  (task \in [Workers -> Task])' /\ TaskOK'
  <2>1. PICK t \in Task : TaskGood(t) /\ task' = [task EXCEPT ![w] = t]
    BY <1>2 DEF NewTask
  <2>2. \A v \in Workers : task'[v] = t \/ task'[v] = task[v]
    BY <1>1, <2>1
  <2>3. \A v \in Workers : TaskGood(task'[v])
    BY <1>1, <2>1, <2>2 DEF TaskOK
  <2> QED BY <1>1, <2>1, <2>3 DEF TaskOK
<1>3. CASE task' = task
  BY <1>1, <1>3 DEF TaskOK
<1>4. (\E w \in Workers : Step(w)) \/ task' = task
  BY DEF Next, vars, Originate, HangUp
<1> QED BY <1>2, <1>3, <1>4, StepTask

LEMMA StartType == Init => TypeInv
<1> SUFFICES ASSUME Init PROVE TypeInv
  OBVIOUS
<1>1. TablesOK
  <2>1. Cardinality(Before) \in Nat /\ Before \subseteq Row
    BY ConstantsAssumption, FS_CardinalityType DEF Row
  <2>2. {[r EXCEPT !.after = 0] : r \in Before} \subseteq Row
    BY <2>1 DEF Row
  <2> QED BY <2>1, <2>2, ConstantsAssumption DEF Init, TablesOK, Config
<1>2. PhoneOK
  BY ConstantsAssumption DEF Init, PhoneOK
<1>3. HistoryOK
  <2>1. 0 \in 0 .. MaxRequests /\ 0 \in 0 .. MaxLosses
    BY ConstantsAssumption
  <2>2. took \in [Records -> Nat] /\ waived \in [Records -> Nat]
    BY DEF Init
  <2> QED BY <2>1, <2>2 DEF Init, HistoryOK
<1>4. task \in [Workers -> Task] /\ TaskOK
  BY IdleGood DEF Init, TaskOK
<1> QED BY <1>1, <1>2, <1>3, <1>4 DEF TypeInv, TypeOK

LEMMA StepType == TypeInv /\ [Next]_vars => TypeInv'
  BY TablesStep, PhoneStep, HistoryStep, TaskStep DEF TypeInv, TypeOK

(* Every reachable state is well typed, whatever requests run at once and  *)
(* whatever is lost.                                                       *)
THEOREM LedgerTypes == Spec => []TypeOK
<1>1. TypeInv => TypeOK
  BY DEF TypeInv
<1> QED BY <1>1, StartType, StepType, PTL DEF Spec

-----------------------------------------------------------------------------
(* As long as no dialled call was charged, every balance that a request    *)
(* remembers is at least 0; and only the records of dialled calls are      *)
(* charged by the dialer.                                                  *)
Funds    == config.balance >= 0 /\ \A w \in Workers : task[w].seen.balance >= 0
Deducts  == \A w \in Workers : task[w].pc = "deduct" => task[w].record \in Calls \X {Dialer}
NonNegInv == Deducts /\ (NoneDialled => Funds)

LEMMA StartNonNeg == Init => NonNegInv
  BY ConstantsAssumption DEF Init, NonNegInv, Funds, Deducts, Idle

LEMMA TookGrows ==
  ASSUME TypeInv, NonNegInv, NEW w \in Workers, Step(w), NoneDialled'
  PROVE  NoneDialled /\ ~Deduct(w)
<1>1. took \in [Records -> Nat] /\ \A c \in Calls : <<c, Dialer>> \in Records
  BY DEF TypeInv, TypeOK, HistoryOK, Records
<1>2. \/ took' = took
      \/ \E r \in Records : took' = [took EXCEPT ![r] = @ + 1]
  <2>1. CASE SaveBalance(w)
    BY <2>1 DEF SaveBalance, TypeInv, TaskOK, TaskGood
  <2>2. CASE Deduct(w)
    BY <2>2 DEF Deduct, TypeInv, TaskOK, TaskGood
  <2>3. CASE ~SaveBalance(w) /\ ~Deduct(w)
    BY <2>3, StepCases DEF topup, addCharge, updateLatestTopup, deleteLatestTopup, updateCharge,
       deleteCharge, updateConfig, Request, CheckBalance, findLatestTopup, SaveConfig, ReadBalance,
       SaveNewRow, SaveChangedRow, Dialplan, Bridge, ingestCdr, Post, computeBillingContext,
       applyCharge, ChargeIfPrepaid, ChargeFails, SaveRecord, applyPrepaidCharge, Lose, history
  <2> QED BY <2>1, <2>2, <2>3
<1>3. NoneDialled
  <2> SUFFICES ASSUME NEW c \in Calls PROVE took[<<c, Dialer>>] = 0
    BY DEF NoneDialled
  <2>1. took'[<<c, Dialer>>] = 0
    BY DEF NoneDialled
  <2>2. took[<<c, Dialer>>] \in Nat /\ took'[<<c, Dialer>>] >= took[<<c, Dialer>>]
    BY <1>1, <1>2
  <2> QED BY <2>1, <2>2
<1>4. ~Deduct(w)
  <2> SUFFICES ASSUME Deduct(w) PROVE FALSE
    OBVIOUS
  <2>1. PICK c \in Calls : task[w].record = <<c, Dialer>>
    BY DEF Deduct, NonNegInv, Deducts
  <2>2. took' = [took EXCEPT ![<<c, Dialer>>] = @ + 1]
    BY <2>1 DEF Deduct
  <2>3. took'[<<c, Dialer>>] = took[<<c, Dialer>>] + 1
    BY <1>1, <2>2
  <2> QED BY <1>1, <1>3, <2>3 DEF NoneDialled
<1> QED BY <1>3, <1>4

(* What a step leaves its worker with.                                     *)
Sound(w, u) ==
  /\ u.pc = "deduct" => u.record \in Calls \X {Dialer}
  /\ NoneDialled /\ ~Deduct(w) => u.seen.balance >= 0
  /\ task' = [task EXCEPT ![w] = u]

LEMMA StepSound ==
  ASSUME TypeInv, NonNegInv, NEW w \in Workers, Step(w)
  PROVE  \E u \in Task : Sound(w, u)
<1> DEFINE t == task[w]
<1>1. task \in [Workers -> Task]
  BY DEF TypeInv, TypeOK
<1>2. NoneDialled => t.seen.balance >= 0 /\ config.balance >= 0
  BY DEF NonNegInv, Funds
<1>3. ASSUME FreshTask(w), ~applyPrepaidCharge(w) PROVE \E u \in Task : Sound(w, u)
  <2>1. PICK u \in Task : /\ task' = [task EXCEPT ![w] = u]
                         /\ u.seen \in {Idle.seen, config} /\ u.pc # "deduct"
    BY <1>3 DEF FreshTask
  <2>2. NoneDialled => u.seen.balance >= 0
    BY <1>2, <2>1, IdleFields
  <2> QED BY <2>1, <2>2 DEF Sound
<1>4. ASSUME Finish(w) PROVE \E u \in Task : Sound(w, u)
  <2>1. Idle.seen.balance >= 0 /\ Idle.pc # "deduct"
    BY IdleFields
  <2> QED BY <1>4, <2>1, IdleGood DEF Finish, Sound
<1>5. ASSUME NEW pc, pc # "deduct", Goto(w, pc), NewTask(w) PROVE \E u \in Task : Sound(w, u)
  <2>1. PICK u \in Task : task' = [task EXCEPT ![w] = u]
    BY <1>5 DEF NewTask
  <2>2. u = [t EXCEPT !.pc = pc]
    BY <1>1, <1>5, <2>1 DEF Goto
  <2>3. u.seen = t.seen /\ u.pc = pc
    BY <1>1, <2>2 DEF Task
  <2> QED BY <1>2, <1>5, <2>1, <2>3 DEF Sound
<1>6. CASE \/ SaveConfig(w) \/ SaveNewRow(w) \/ SaveChangedRow(w) \/ Bridge(w)
           \/ SaveRecord(w) \/ Lose(w) \/ Deduct(w)
  BY <1>4, <1>6 DEF SaveConfig, SaveNewRow, SaveChangedRow, Bridge, SaveRecord, Lose, Deduct
<1>7. CASE CheckBalance(w) \/ computeBillingContext(w) \/ applyCharge(w) \/ ChargeFails(w)
  <2>1. NewTask(w)
    BY <1>7, CarryOnTask
  <2>2. Finish(w) \/ \E pc : pc # "deduct" /\ Goto(w, pc)
    BY <1>7 DEF CheckBalance, computeBillingContext, applyCharge, ChargeIfPrepaid, ChargeFails
  <2> QED BY <1>4, <1>5, <2>1, <2>2
<1>8. CASE /\ \/ topup(w) \/ addCharge(w) \/ updateLatestTopup(w) \/ deleteLatestTopup(w)
              \/ updateCharge(w) \/ deleteCharge(w) \/ updateConfig(w) \/ Dialplan(w) \/ ingestCdr(w)
           /\ ~applyPrepaidCharge(w)
  <2>1. FreshTask(w)
    BY <1>8, RequestTask, CallTask
  <2> QED BY <1>3, <1>8, <2>1
<1>9. CASE findLatestTopup(w) \/ ReadBalance(w) \/ SaveBalance(w)
  <2>1. PICK u \in Task : task' = [task EXCEPT ![w] = u]
    BY <1>9, CarryOnTask DEF NewTask
  <2>2. task'[w] = u
    BY <1>1, <2>1
  <2>3. CASE Finish(w)
    BY <1>4, <2>3
  <2>4. CASE findLatestTopup(w) /\ ~Finish(w)
    <3>1. u.seen = t.seen /\ u.pc \in {"row", "adjust"}
      BY <2>1, <2>4, FoundTopup
    <3> QED BY <1>2, <2>1, <3>1 DEF Sound
  <2>5. CASE ReadBalance(w)
    <3>1. u.seen = config /\ u.pc = "save"
      BY <1>1, <2>2, <2>5 DEF ReadBalance, Task
    <3> QED BY <1>2, <2>1, <3>1 DEF Sound
  <2>6. CASE SaveBalance(w)
    <3> HIDE DEF t
    <3>1. u = [t EXCEPT !.seen.balance = NextBalance(t), !.pc = "row"]
      BY <1>1, <2>2, <2>6 DEF SaveBalance, t
    <3>2. u.seen.balance = NextBalance(t) /\ u.pc = "row"
      <4>1. t \in Task
        BY TaskType DEF t
      <4> QED BY <3>1, <4>1 DEF Task, Config
    <3>3. NextBalance(t) \in Nat
      BY TaskType, ClampNat DEF NextBalance, t
    <3>4. u.seen.balance >= 0
      BY <3>2, <3>3
    <3> QED BY <2>1, <3>2, <3>4 DEF Sound
  <2> QED BY <1>9, <2>3, <2>4, <2>5, <2>6
<1>10. CASE applyPrepaidCharge(w)
  <2>1. PICK u \in Task : task' = [task EXCEPT ![w] = u]
    <3>1. CASE FreshTask(w)
      BY <3>1 DEF FreshTask
    <3>2. CASE task' = task
      <4>1. task' = [task EXCEPT ![w] = t] /\ t \in Task
        BY <1>1, <3>2
      <4> QED BY <4>1
    <3> QED BY <1>10, <3>1, <3>2, CallTask
  <2>2. task'[w] = u
    BY <1>1, <2>1
  <2>3. PICK c \in Calls :
          task' = IF config.prepaid
                    THEN [task EXCEPT ![w] = [Idle EXCEPT !.op = "dialerCdr", !.record = <<c, Dialer>>,
                                                          !.seen = config, !.delta = -Cost, !.pc = "deduct"]]
                    ELSE task
    BY <1>10 DEF applyPrepaidCharge
  <2>4. CASE config.prepaid
    <3>1. u = [Idle EXCEPT !.op = "dialerCdr", !.record = <<c, Dialer>>,
                           !.seen = config, !.delta = -Cost, !.pc = "deduct"]
      BY <1>1, <2>2, <2>3, <2>4
    <3>2. u.record = <<c, Dialer>> /\ u.seen = config
      BY <3>1 DEF Idle
    <3>3. u.record \in Calls \X {Dialer}
      BY <3>2
    <3>4. NoneDialled => u.seen.balance >= 0
      BY <1>2, <3>2
    <3> QED BY <2>1, <3>3, <3>4 DEF Sound
  <2>5. CASE ~config.prepaid
    <3>1. task' = task /\ u = t
      BY <2>2, <2>3, <2>5
    <3> QED BY <1>2, <2>1, <3>1 DEF Sound, NonNegInv, Deducts
  <2> QED BY <2>4, <2>5
<1> QED BY <1>6, <1>7, <1>8, <1>9, <1>10, StepCases

LEMMA StepNonNeg == ASSUME TypeInv, NonNegInv, [Next]_vars PROVE NonNegInv'
<1>1. task \in [Workers -> Task]
  BY DEF TypeInv, TypeOK
<1>2. ASSUME NEW w \in Workers, Step(w) PROVE NonNegInv'
  <2> DEFINE t == task[w]
  <2>1. PICK u \in Task : Sound(w, u)
    BY <1>2, StepSound
  <2>2. Deducts'
    BY <1>1, <2>1 DEF Sound, NonNegInv, Deducts
  <2>3. ASSUME NoneDialled' PROVE Funds'
    <3>1. NoneDialled /\ ~Deduct(w)
      BY <1>2, <2>3, TookGrows
    <3>2. Funds
      BY <3>1 DEF NonNegInv
    <3>3. \A v \in Workers : task'[v].seen.balance >= 0
      BY <1>1, <2>1, <3>1, <3>2 DEF Sound, Funds
    <3>4. config'.balance >= 0
      <4>1. CASE SaveConfig(w)
        BY <3>2, <4>1, TaskType DEF SaveConfig, Config, Funds
      <4>2. CASE SaveBalance(w)
        <5>1. NextBalance(t) \in Nat
          BY TaskType, ClampNat DEF NextBalance
        <5>2. config'.balance = NextBalance(t)
          BY <4>2, TaskType DEF SaveBalance, Config
        <5> QED BY <5>1, <5>2
      <4>3. CASE SaveNewRow(w) \/ SaveChangedRow(w) \/ SaveRecord(w)
        BY <3>2, <4>3 DEF SaveNewRow, SaveChangedRow, SaveRecord, Funds
      <4>4. CASE UNCHANGED db
        BY <3>2, <4>4 DEF db, Funds
      <4> QED BY <1>2, <3>1, <4>1, <4>2, <4>3, <4>4, StepCases, TablesKept
    <3> QED BY <3>3, <3>4 DEF Funds
  <2> QED BY <2>2, <2>3 DEF NonNegInv
<1>3. CASE UNCHANGED <<config, task, took>>
  BY <1>3 DEF NonNegInv, Deducts, Funds, NoneDialled
<1> QED BY <1>2, <1>3 DEF Next, Originate, HangUp, vars, db, history

(* Whatever saves overwrite each other, the balance does not go below 0    *)
(* before the auto dialer has charged a call: every balance a request      *)
(* saves comes from one that was at least 0 and is set to 0 where it would *)
(* be less.                                                                *)
THEOREM BalanceNonNegative == Spec => []NonNegative
<1>1. NonNegInv => NonNegative
  BY DEF NonNegInv, NonNegative, Funds
<1>2. TypeInv /\ NonNegInv /\ [Next]_vars => (TypeInv /\ NonNegInv)'
  BY StepType, StepNonNeg
<1> QED BY <1>1, <1>2, StartType, StartNonNeg, PTL DEF Spec

-----------------------------------------------------------------------------
(* The requests that are about to save a record have decided its charge.   *)
Saves(t, r) == t.pc = "row" /\ t.op = "cdr" /\ t.record = r
Saving(r)   == {w \in Workers : Saves(task[w], r)}
PaidInv     == \A r \in Records : records[r] + Cardinality(Saving(r)) <= took[r] + waived[r]

LEMMA SavingFinite ==
  ASSUME NEW S, S \subseteq Workers
  PROVE  IsFiniteSet(S) /\ Cardinality(S) \in Nat
  BY ConstantsAssumption, FS_Subset, FS_CardinalityType

(* A step changes one task, so it adds at most one to those that save a    *)
(* record, and none unless the new task saves it.                          *)
LEMMA SavingChange ==
  ASSUME task \in [Workers -> Task], NEW w \in Workers, NEW t, task' = [task EXCEPT ![w] = t], NEW r
  PROVE  /\ Cardinality(Saving(r)') <= Cardinality(Saving(r)) + 1
         /\ ~Saves(t, r) => Cardinality(Saving(r)') <= Cardinality(Saving(r))
         /\ ~Saves(t, r) /\ Saves(task[w], r) => Cardinality(Saving(r)') + 1 <= Cardinality(Saving(r))
<1> DEFINE S == Saving(r)
           T == {v \in Workers : Saves(task'[v], r)}
<1>1. Saving(r)' = T
  BY DEF Saving, Saves
<1>2. S \subseteq Workers /\ T \subseteq Workers /\ T \subseteq S \cup {w}
  BY DEF Saving, Saves
<1>3. ~Saves(t, r) => T \subseteq S \ {w}
  BY DEF Saving, Saves
<1>4. Saves(task[w], r) => w \in S
  BY DEF Saving
<1> HIDE DEF S, T
<1>5. /\ IsFiniteSet(S) /\ Cardinality(S) \in Nat
      /\ IsFiniteSet(S \cup {w}) /\ IsFiniteSet(S \ {w})
      /\ Cardinality(S \cup {w}) \in Nat /\ Cardinality(S \ {w}) \in Nat /\ Cardinality(T) \in Nat
  BY <1>2, SavingFinite
<1>6. Cardinality(S \cup {w}) <= Cardinality(S) + 1
  BY <1>5, FS_AddElement
<1>7. Cardinality(T) <= Cardinality(S \cup {w})
  BY <1>2, <1>5, FS_Subset
<1>8. w \in S => Cardinality(S \ {w}) = Cardinality(S) - 1
  BY <1>5, FS_RemoveElement
<1>9. Cardinality(S \ {w}) <= Cardinality(S)
  BY <1>5, FS_Subset
<1>10. ~Saves(t, r) => Cardinality(T) <= Cardinality(S \ {w})
  BY <1>3, <1>5, FS_Subset
<1>11. Cardinality(T) <= Cardinality(S) + 1
  BY <1>5, <1>6, <1>7
<1>12. ~Saves(t, r) => Cardinality(T) <= Cardinality(S)
  BY <1>5, <1>9, <1>10
<1>13. ~Saves(t, r) /\ w \in S => Cardinality(T) + 1 <= Cardinality(S)
  BY <1>5, <1>8, <1>10
<1> QED BY <1>1, <1>4, <1>11, <1>12, <1>13 DEF S

(* A step that saves no record, takes back no charge and whose new task    *)
(* is not about to save one keeps the invariant.                           *)
LEMMA PaidKept ==
  ASSUME TypeInv, PaidInv, TypeInv', records' = records,
         \A r \in Records : took'[r] + waived'[r] >= took[r] + waived[r],
         NEW w \in Workers, NEW t, task' = [task EXCEPT ![w] = t], \A r \in Records : ~Saves(t, r)
  PROVE  PaidInv'
<1> SUFFICES ASSUME NEW r \in Records
             PROVE  records[r] + Cardinality(Saving(r)') <= took'[r] + waived'[r]
  BY DEF PaidInv
<1>1. Cardinality(Saving(r)') <= Cardinality(Saving(r))
  BY SavingChange DEF TypeInv, TypeOK
<1>2. Cardinality(Saving(r)) \in Nat
  BY SavingFinite DEF Saving
<1>3. Cardinality(Saving(r)') \in Nat
  BY SavingFinite DEF Saving
<1>4. records[r] + Cardinality(Saving(r)) <= took[r] + waived[r]
  BY DEF PaidInv
<1>5. /\ records[r] \in Nat /\ took[r] \in Nat /\ waived[r] \in Nat
      /\ took'[r] \in Nat /\ waived'[r] \in Nat
  BY DEF TypeInv, TypeOK, TablesOK, HistoryOK
<1>6. took'[r] + waived'[r] >= took[r] + waived[r]
  OBVIOUS
<1> QED BY <1>1, <1>2, <1>3, <1>4, <1>5, <1>6

(* A step that decides the charge of one record may bring its request to   *)
(* saving that record.                                                     *)
LEMMA PaidDecided ==
  ASSUME TypeInv, PaidInv, TypeInv', records' = records, NEW q \in Records,
         \A r \in Records : took'[r] + waived'[r] = took[r] + waived[r] + (IF r = q THEN 1 ELSE 0),
         NEW w \in Workers, NEW t, task' = [task EXCEPT ![w] = t], t.record = q
  PROVE  PaidInv'
<1> SUFFICES ASSUME NEW r \in Records
             PROVE  records[r] + Cardinality(Saving(r)') <= took'[r] + waived'[r]
  BY DEF PaidInv
<1>1. /\ Cardinality(Saving(r)') <= Cardinality(Saving(r)) + 1
      /\ r # q => Cardinality(Saving(r)') <= Cardinality(Saving(r))
  BY SavingChange DEF TypeInv, TypeOK, Saves
<1>2. Cardinality(Saving(r)) \in Nat /\ Cardinality(Saving(r)') \in Nat
  BY SavingFinite DEF Saving
<1>3. records[r] + Cardinality(Saving(r)) <= took[r] + waived[r]
  BY DEF PaidInv
<1>4. /\ records[r] \in Nat /\ took[r] \in Nat /\ waived[r] \in Nat
      /\ took'[r] \in Nat /\ waived'[r] \in Nat
  BY DEF TypeInv, TypeOK, TablesOK, HistoryOK
<1>5. took'[r] + waived'[r] = took[r] + waived[r] + (IF r = q THEN 1 ELSE 0)
  OBVIOUS
<1> QED BY <1>1, <1>2, <1>3, <1>4, <1>5

LEMMA PaidStutter ==
  ASSUME PaidInv, UNCHANGED <<records, task, took, waived>>
  PROVE  PaidInv'
  BY DEF PaidInv, Saving, Saves

LEMMA StartPaid == Init => PaidInv
<1> SUFFICES ASSUME Init, NEW r \in Records
             PROVE  records[r] + Cardinality(Saving(r)) <= took[r] + waived[r]
  BY DEF PaidInv
<1>1. Saving(r) = {}
  BY DEF Init, Saving, Saves, Idle
<1> QED BY <1>1, FS_EmptySet DEF Init

LEMMA StepPaid ==
  ASSUME TypeInv, PaidInv, [Next]_vars
  PROVE  PaidInv'
<1>1. TypeInv'
  BY StepType
<1>2. /\ task \in [Workers -> Task] /\ records \in [Records -> Nat]
      /\ took \in [Records -> Nat] /\ waived \in [Records -> Nat]
  BY DEF TypeInv, TypeOK, TablesOK, HistoryOK
<1>3. ASSUME NEW f \in [Records -> Nat], NEW q \in Records, NEW g, g = [f EXCEPT ![q] = @ + 1]
      PROVE  \A r \in Records : g[r] = f[r] + (IF r = q THEN 1 ELSE 0)
  BY <1>3
<1>4. ASSUME NEW w \in Workers, Step(w) PROVE PaidInv'
  <2> DEFINE t == task[w]
  <2>1. t \in Task /\ TaskGood(t)
    BY DEF TypeInv, TypeOK, TaskOK
  <2>2. ASSUME NEW u, task' = [task EXCEPT ![w] = u], u.op # "cdr" \/ u.pc # "row",
               UNCHANGED <<records, waived>>, \A r \in Records : took'[r] >= took[r]
        PROVE  PaidInv'
    <3>1. \A r \in Records : took'[r] + waived'[r] >= took[r] + waived[r]
      <4>1. took' \in [Records -> Nat]
        BY <1>1 DEF TypeInv, TypeOK, HistoryOK
      <4> QED BY <1>2, <2>2, <4>1
    <3>2. \A r \in Records : ~Saves(u, r)
      BY <2>2 DEF Saves
    <3> QED BY <1>1, <2>2, <3>1, <3>2, PaidKept
  <2>3. CASE \/ SaveConfig(w) \/ SaveNewRow(w) \/ SaveChangedRow(w) \/ Bridge(w) \/ Lose(w)
    <3>1. Finish(w) /\ UNCHANGED <<records, waived, took>>
      BY <2>3 DEF SaveConfig, SaveNewRow, SaveChangedRow, Bridge, Lose, db, history
    <3>2. Idle.pc # "row"
      BY IdleFields
    <3>3. \A r \in Records : took'[r] >= took[r]
      BY <1>2, <3>1
    <3> QED BY <2>2, <3>1, <3>2, <3>3 DEF Finish
  <2>4. CASE Deduct(w)
    <3>1. Finish(w) /\ UNCHANGED <<records, waived>>
      BY <2>4 DEF Deduct
    <3>2. t.record \in Records /\ took' = [took EXCEPT ![t.record] = @ + 1]
      BY <2>1, <2>4 DEF Deduct, TaskGood
    <3>3. \A r \in Records : took'[r] >= took[r]
      BY <1>2, <3>2
    <3>4. Idle.pc # "row"
      BY IdleFields
    <3> QED BY <2>2, <3>1, <3>3, <3>4 DEF Finish
  <2>5. CASE \/ topup(w) \/ addCharge(w) \/ updateLatestTopup(w) \/ deleteLatestTopup(w)
             \/ updateCharge(w) \/ deleteCharge(w) \/ updateConfig(w)
             \/ CheckBalance(w) \/ findLatestTopup(w) \/ ReadBalance(w)
             \/ Dialplan(w) \/ ingestCdr(w) \/ applyPrepaidCharge(w)
    <3>1. UNCHANGED <<records, took, waived>>
      BY <2>5 DEF topup, addCharge, updateLatestTopup, deleteLatestTopup, updateCharge, deleteCharge,
              updateConfig, Request, CheckBalance, findLatestTopup, ReadBalance, Dialplan, ingestCdr,
              applyPrepaidCharge, Post, db, history
    <3>2. \A r \in Records : took'[r] >= took[r]
      BY <1>2, <3>1
    <3>3. CASE task' = task
      BY <3>1, <3>3, PaidStutter
    <3>4. CASE NewTask(w) /\ task' # task
      <4>1. PICK u : task' = [task EXCEPT ![w] = u] /\ (u.op # "cdr" \/ u.pc # "row")
        <5>1. CASE FreshTask(w)
          BY <5>1 DEF FreshTask
        <5>2. CASE Finish(w)
          BY <5>2, IdleFields DEF Finish
        <5>3. CASE CheckBalance(w) /\ ~Finish(w)
          <6> DEFINE u == [t EXCEPT !.pc = "latest"]
          <6>1. task' = [task EXCEPT ![w] = u]
            BY <5>3 DEF CheckBalance, Goto
          <6>2. u.pc = "latest"
            BY <2>1 DEF Task
          <6> QED BY <6>1, <6>2
        <5>4. CASE findLatestTopup(w) /\ ~Finish(w)
          BY <3>4, <5>4, FoundTopup DEF NewTask
        <5>5. CASE ReadBalance(w)
          <6> DEFINE u == [t EXCEPT !.seen = config, !.pc = "save"]
          <6>1. task' = [task EXCEPT ![w] = u]
            BY <5>5 DEF ReadBalance
          <6>2. u.pc = "save"
            BY <2>1 DEF Task
          <6> QED BY <6>1, <6>2
        <5> QED BY <2>5, <3>4, <5>1, <5>2, <5>3, <5>4, <5>5, RequestTask, CallTask
      <4> QED BY <2>2, <3>1, <3>2, <4>1
    <3> QED BY <1>4, <3>3, <3>4, StepTask
  <2>6. CASE SaveBalance(w)
    <3> DEFINE u == [t EXCEPT !.seen.balance = NextBalance(t), !.pc = "row"]
    <3>1. task' = [task EXCEPT ![w] = u] /\ UNCHANGED <<records, waived>>
      BY <2>6 DEF SaveBalance
    <3>2. u.op = t.op /\ u.record = t.record
      BY <2>1 DEF Task
    <3> HIDE DEF u
    <3>3. CASE t.op = "cdr"
      <4>1. t.record \in Records /\ took' = [took EXCEPT ![t.record] = @ + 1]
        BY <2>1, <2>6, <3>3 DEF SaveBalance, TaskGood
      <4>2. \A r \in Records : took'[r] = took[r] + (IF r = t.record THEN 1 ELSE 0)
        BY <1>2, <1>3, <4>1
      <4>3. \A r \in Records :
              took'[r] + waived'[r] = took[r] + waived[r] + (IF r = t.record THEN 1 ELSE 0)
        BY <1>2, <3>1, <4>2
      <4> QED BY <1>1, <3>1, <3>2, <4>1, <4>3, PaidDecided
    <3>4. CASE t.op # "cdr"
      <4>1. took' = took
        BY <2>6, <3>4 DEF SaveBalance
      <4>2. \A r \in Records : took'[r] >= took[r]
        BY <1>2, <4>1
      <4> QED BY <2>2, <3>1, <3>2, <3>4, <4>2
    <3> QED BY <3>3, <3>4
  <2>7. CASE computeBillingContext(w) \/ applyCharge(w) \/ ChargeFails(w)
    <3>1. t.op = "cdr" /\ t.record \in Records /\ UNCHANGED <<records, took>>
      BY <2>1, <2>7 DEF computeBillingContext, applyCharge, ChargeIfPrepaid, ChargeFails, TaskGood, db
    <3>2. PICK pc \in {"row", "apply", "adjust"} :
            /\ Goto(w, pc)
            /\ \/ pc = "row" /\ waived' = [waived EXCEPT ![t.record] = @ + 1]
               \/ pc # "row" /\ waived' = waived
      BY <2>7 DEF computeBillingContext, applyCharge, ChargeIfPrepaid, ChargeFails
    <3> DEFINE u == [t EXCEPT !.pc = pc]
    <3>3. task' = [task EXCEPT ![w] = u] /\ u.record = t.record /\ u.pc = pc
      BY <2>1, <3>2 DEF Goto, Task
    <3> HIDE DEF u
    <3>4. CASE pc = "row"
      <4>1. \A r \in Records : waived'[r] = waived[r] + (IF r = t.record THEN 1 ELSE 0)
        BY <1>2, <1>3, <3>1, <3>2, <3>4
      <4>2. \A r \in Records :
              took'[r] + waived'[r] = took[r] + waived[r] + (IF r = t.record THEN 1 ELSE 0)
        BY <1>2, <3>1, <4>1
      <4> QED BY <1>1, <3>1, <3>3, <4>2, PaidDecided
    <3>5. CASE pc # "row"
      <4>1. UNCHANGED <<records, waived>> /\ \A r \in Records : took'[r] >= took[r]
        BY <1>2, <3>1, <3>2, <3>5
      <4> QED BY <2>2, <3>3, <3>5, <4>1
    <3> QED BY <3>4, <3>5
  <2>8. CASE SaveRecord(w)
    <3>1. /\ task' = [task EXCEPT ![w] = Idle] /\ UNCHANGED <<took, waived>>
          /\ t.record \in Records /\ records' = [records EXCEPT ![t.record] = @ + 1]
          /\ Saves(t, t.record)
      BY <2>1, <2>8 DEF SaveRecord, Finish, history, TaskGood, Saves
    <3>2. SUFFICES ASSUME NEW r \in Records
                   PROVE  records'[r] + Cardinality(Saving(r)') <= took[r] + waived[r]
      BY <3>1 DEF PaidInv
    <3>3. ~Saves(Idle, r)
      BY IdleFields DEF Saves
    <3>4. /\ Cardinality(Saving(r)') <= Cardinality(Saving(r))
          /\ r = t.record => Cardinality(Saving(r)') + 1 <= Cardinality(Saving(r))
      BY <1>2, <3>1, <3>3, SavingChange
    <3>5. Cardinality(Saving(r)) \in Nat /\ Cardinality(Saving(r)') \in Nat
      BY SavingFinite DEF Saving
    <3>6. records[r] + Cardinality(Saving(r)) <= took[r] + waived[r]
      BY DEF PaidInv
    <3>7. records'[r] = records[r] + (IF r = t.record THEN 1 ELSE 0)
      BY <1>2, <1>3, <3>1
    <3> QED BY <1>2, <3>4, <3>5, <3>6, <3>7
  <2> QED BY <1>4, <2>3, <2>4, <2>5, <2>6, <2>7, <2>8, StepCases
<1>5. CASE UNCHANGED <<db, task, history>>
  BY <1>5, PaidStutter DEF db, history
<1> QED BY <1>4, <1>5 DEF Next, vars, Originate, HangUp

(* No call record is in the table whose charge was neither taken nor       *)
(* knowingly let go, whatever is posted again, overtaken or lost.          *)
THEOREM RecordsArePaid == Spec => []RecordsPaid
<1>1. TypeInv /\ PaidInv => RecordsPaid
  <2> SUFFICES ASSUME TypeInv, PaidInv, NEW r \in Records
               PROVE  records[r] <= took[r] + waived[r]
    BY DEF RecordsPaid
  <2>1. records[r] + Cardinality(Saving(r)) <= took[r] + waived[r]
    BY DEF PaidInv
  <2>2. Cardinality(Saving(r)) \in Nat
    BY SavingFinite DEF Saving
  <2>3. records[r] \in Nat /\ took[r] \in Nat /\ waived[r] \in Nat
    BY DEF TypeInv, TypeOK, TablesOK, HistoryOK
  <2> QED BY <2>1, <2>2, <2>3
<1>2. TypeInv /\ PaidInv /\ [Next]_vars => (TypeInv /\ PaidInv)'
  BY StepType, StepPaid
<1> QED BY <1>1, <1>2, StartType, StartPaid, PTL DEF Spec

-----------------------------------------------------------------------------
(* Sums over finite sets.                                                  *)
LEMMA Least == ASSUME NEW S, S \subseteq Nat, S # {} PROVE \E x \in S : \A y \in S : x <= y
<1> DEFINE R == {ss \in Nat \X Nat : ss[1] < ss[2]}
<1>1. IsWellFoundedOn(R, Nat)
  BY NatLessThanWellFounded DEF OpToRel
<1> HIDE DEF R
<1>2. PICK x \in S : \A y \in S : ~ (<<y, x>> \in R)
  BY <1>1, WFMin
<1>3. ASSUME NEW y \in S PROVE x <= y
  <2>1. ~ (y < x)
    BY <1>2 DEF R
  <2> QED BY <2>1
<1> QED BY <1>3

(* Among subsets of a finite set one contains no other.                    *)
LEMMA SmallestSet ==
  ASSUME NEW S, IsFiniteSet(S), NEW Q, Q \subseteq SUBSET S, Q # {}
  PROVE  \E T \in Q : \A t \in Q : t \subseteq T => t = T
<1> DEFINE N == {Cardinality(t) : t \in Q}
<1>1. \A t \in Q : IsFiniteSet(t) /\ Cardinality(t) \in Nat
  BY FS_Subset, FS_CardinalityType
<1>2. N \subseteq Nat /\ N # {}
  BY <1>1
<1>3. PICK n \in N : \A m \in N : n <= m
  <2> HIDE DEF N
  <2> QED BY <1>2, Least
<1>4. PICK T \in Q : n = Cardinality(T)
  OBVIOUS
<1>5. ASSUME NEW t \in Q, t \subseteq T PROVE t = T
  <2>1. Cardinality(T) <= Cardinality(t) /\ Cardinality(t) <= Cardinality(T)
    BY <1>1, <1>3, <1>4, <1>5, FS_Subset
  <2>2. Cardinality(t) = Cardinality(T)
    BY <1>1, <2>1
  <2> QED BY <1>1, <1>5, <2>2, FS_Subset
<1> QED BY <1>5

(* F is what the folds of the library compute: the sums of f over the      *)
(* subsets of S, one element after the other.                              *)
Some(s)        == CHOOSE x \in s : TRUE
IsSum(f, S, F) == F = [s \in SUBSET S |-> IF s = {} THEN 0 ELSE f[Some(s)] + F[s \ {Some(s)}]]

LEMMA SomeIn == ASSUME NEW s, s # {} PROVE Some(s) \in s /\ s \ {Some(s)} \subseteq s /\ s \ {Some(s)} # s
  BY DEF Some

LEMMA SumUnique ==
  ASSUME NEW f, NEW g, NEW A, NEW B, NEW C, NEW F, NEW G,
         IsSum(f, A, F), IsSum(g, B, G), IsFiniteSet(C), C \subseteq A, C \subseteq B,
         \A x \in C : f[x] = g[x]
  PROVE  \A s \in SUBSET C : F[s] = G[s]
<1> DEFINE Q == {s \in SUBSET C : F[s] # G[s]}
<1>1. SUFFICES ASSUME Q # {} PROVE FALSE
  OBVIOUS
<1>2. PICK T \in Q : \A t \in Q : t \subseteq T => t = T
  <2>1. Q \subseteq SUBSET C
    OBVIOUS
  <2> HIDE DEF Q
  <2> QED BY <1>1, <2>1, SmallestSet
<1>3. /\ F[T] = IF T = {} THEN 0 ELSE f[Some(T)] + F[T \ {Some(T)}]
      /\ G[T] = IF T = {} THEN 0 ELSE g[Some(T)] + G[T \ {Some(T)}]
  BY DEF IsSum
<1>4. CASE T = {}
  BY <1>2, <1>3, <1>4
<1>5. CASE T # {}
  <2>1. T \ {Some(T)} \notin Q /\ T \ {Some(T)} \in SUBSET C /\ Some(T) \in C
    BY <1>2, <1>5, SomeIn
  <2>2. F[T \ {Some(T)}] = G[T \ {Some(T)}]
    BY <2>1
  <2> QED BY <1>2, <1>3, <1>5, <2>1, <2>2
<1> QED BY <1>4, <1>5

LEMMA SumExists == ASSUME NEW f, NEW S, IsFiniteSet(S) PROVE \E F : IsSum(f, S, F)
<1> DEFINE Q == {s \in SUBSET S : ~ \E F : IsSum(f, s, F)}
<1>1. SUFFICES ASSUME Q # {} PROVE FALSE
  OBVIOUS
<1>2. PICK T \in Q : \A t \in Q : t \subseteq T => t = T
  <2>1. Q \subseteq SUBSET S
    OBVIOUS
  <2> HIDE DEF Q
  <2> QED BY <1>1, <2>1, SmallestSet
<1> DEFINE H(t) == CHOOSE F : IsSum(f, t, F)
<1>3. ASSUME NEW t, t \subseteq T, t # T PROVE IsSum(f, t, H(t))
  <2>1. t \notin Q /\ t \in SUBSET S
    BY <1>2, <1>3
  <2>2. \E F : IsSum(f, t, F)
    BY <2>1
  <2> QED BY <2>2
<1> DEFINE G == [s \in SUBSET T |-> IF s = {} THEN 0 ELSE f[Some(s)] + H(s \ {Some(s)})[s \ {Some(s)}]]
<1>4. ASSUME NEW s \in SUBSET T, s # T PROVE G[s] = H(s)[s]
  <2>1. IsSum(f, s, H(s))
    BY <1>3, <1>4
  <2>2. H(s)[s] = IF s = {} THEN 0 ELSE f[Some(s)] + H(s)[s \ {Some(s)}]
    <3> HIDE DEF H
    <3> QED BY <2>1 DEF IsSum
  <2>3. CASE s = {}
    BY <2>2, <2>3
  <2>4. CASE s # {}
    <3> DEFINE r == s \ {Some(s)}
    <3>1. r \subseteq s /\ r \subseteq T /\ r # T
      BY <1>4, <2>4, SomeIn
    <3>2. IsSum(f, r, H(r))
      BY <1>3, <3>1
    <3>3. IsFiniteSet(r)
      BY <1>2, <3>1, FS_Subset
    <3>4. H(s)[r] = H(r)[r]
      <4> HIDE DEF H, r
      <4> QED BY <2>1, <3>1, <3>2, <3>3, SumUnique
    <3>5. G[s] = f[Some(s)] + H(r)[r]
      BY <2>4
    <3>6. H(s)[s] = f[Some(s)] + H(s)[r]
      BY <2>2, <2>4
    <3> QED BY <3>4, <3>5, <3>6
  <2> QED BY <2>3, <2>4
<1>5. IsSum(f, T, G)
  <2>1. ASSUME NEW s \in SUBSET T
        PROVE  G[s] = IF s = {} THEN 0 ELSE f[Some(s)] + G[s \ {Some(s)}]
    <3>1. CASE s = {}
      BY <3>1
    <3>2. CASE s # {}
      <4> DEFINE r == s \ {Some(s)}
      <4>1. r \in SUBSET T /\ r # T
        BY <3>2, SomeIn
      <4>2. G[r] = H(r)[r]
        BY <1>4, <4>1
      <4>3. G[s] = f[Some(s)] + H(r)[r]
        BY <3>2
      <4> QED BY <3>2, <4>2, <4>3
    <3> QED BY <3>1, <3>2
  <2>2. G = [s \in SUBSET T |-> G[s]]
    OBVIOUS
  <2> HIDE DEF G
  <2> QED BY <2>1, <2>2 DEF IsSum
<1> QED BY <1>2, <1>5

LEMMA SumType ==
  ASSUME NEW S, IsFiniteSet(S), NEW f \in [S -> Int], NEW F, IsSum(f, S, F)
  PROVE  F \in [SUBSET S -> Int]
<1> DEFINE Q == {s \in SUBSET S : F[s] \notin Int}
<1>1. CASE Q = {}
  <2>1. F = [s \in SUBSET S |-> F[s]]
    BY DEF IsSum
  <2> QED BY <1>1, <2>1
<1>2. CASE Q # {}
  <2>1. PICK T \in Q : \A t \in Q : t \subseteq T => t = T
    <3>1. Q \subseteq SUBSET S
      OBVIOUS
    <3> HIDE DEF Q
    <3> QED BY <1>2, <3>1, SmallestSet
  <2>2. F[T] = IF T = {} THEN 0 ELSE f[Some(T)] + F[T \ {Some(T)}]
    BY DEF IsSum
  <2>3. T # {} => F[T \ {Some(T)}] \in Int /\ Some(T) \in S
    BY <2>1, SomeIn
  <2> QED BY <2>1, <2>2, <2>3
<1> QED BY <1>1, <1>2

(* The elements may be added in any order.                                 *)
LEMMA SumRemove ==
  ASSUME NEW S, IsFiniteSet(S), NEW f \in [S -> Int], NEW F, IsSum(f, S, F)
  PROVE  \A s \in SUBSET S : \A y \in s : F[s] = f[y] + F[s \ {y}]
<1> DEFINE Q == {s \in SUBSET S : \E y \in s : F[s] # f[y] + F[s \ {y}]}
<1>1. SUFFICES ASSUME Q # {} PROVE FALSE
  OBVIOUS
<1>2. PICK T \in Q : \A t \in Q : t \subseteq T => t = T
  <2>1. Q \subseteq SUBSET S
    OBVIOUS
  <2> HIDE DEF Q
  <2> QED BY <1>1, <2>1, SmallestSet
<1>3. PICK y \in T : F[T] # f[y] + F[T \ {y}]
  OBVIOUS
<1> DEFINE x == Some(T)
           R == (T \ {x}) \ {y}
<1>4. x \in T /\ x \in S /\ y \in S
  BY SomeIn
<1>5. F[T] = f[x] + F[T \ {x}]
  BY <1>4 DEF IsSum
<1>6. x # y
  BY <1>3, <1>5
<1>7. F[T \ {x}] = f[y] + F[R]
  <2>1. T \ {x} \in SUBSET S /\ T \ {x} \notin Q /\ y \in T \ {x}
    BY <1>2, <1>4, <1>6
  <2> QED BY <2>1
<1>8. F[T \ {y}] = f[x] + F[R]
  <2>1. T \ {y} \in SUBSET S /\ T \ {y} \notin Q /\ x \in T \ {y}
    BY <1>2, <1>4, <1>6
  <2>2. (T \ {y}) \ {x} = R
    OBVIOUS
  <2> QED BY <2>1, <2>2
<1>9. F[R] \in Int /\ f[x] \in Int /\ f[y] \in Int
  <2>1. F \in [SUBSET S -> Int]
    BY SumType
  <2> QED BY <1>4, <2>1
<1> QED BY <1>3, <1>5, <1>7, <1>8, <1>9

Sum(f) == (CHOOSE F : IsSum(f, DOMAIN f, F))[DOMAIN f]

LEMMA SumDef ==
  ASSUME NEW S, IsFiniteSet(S), NEW f \in [S -> Int]
  PROVE  Sum(f) \in Int /\ \E F : IsSum(f, S, F) /\ F \in [SUBSET S -> Int] /\ Sum(f) = F[S]
<1>1. DOMAIN f = S
  OBVIOUS
<1>2. PICK F : F = CHOOSE G : IsSum(f, S, G)
  OBVIOUS
<1>3. IsSum(f, S, F)
  BY <1>2, SumExists
<1>4. F \in [SUBSET S -> Int]
  BY <1>3, SumType
<1> QED BY <1>1, <1>2, <1>3, <1>4 DEF Sum

LEMMA SumSplit ==
  ASSUME NEW S, IsFiniteSet(S), NEW f \in [S -> Int], NEW y \in S
  PROVE  /\ Sum(f) = f[y] + Sum([x \in S \ {y} |-> f[x]])
         /\ Sum([x \in S \ {y} |-> f[x]]) \in Int
<1>1. PICK F : IsSum(f, S, F) /\ Sum(f) = F[S]
  BY SumDef
<1> DEFINE R == S \ {y}
           g == [x \in R |-> f[x]]
<1>2. IsFiniteSet(R) /\ g \in [R -> Int] /\ R \subseteq S
  BY FS_Subset
<1>3. PICK G : Sum(g) \in Int /\ IsSum(g, R, G) /\ Sum(g) = G[R]
  <2> HIDE DEF g, R
  <2> QED BY <1>2, SumDef
<1>4. F[R] = G[R]
  <2>1. \A x \in R : f[x] = g[x]
    OBVIOUS
  <2>2. \A s \in SUBSET R : F[s] = G[s]
    <3> HIDE DEF g, R
    <3> QED BY <1>1, <1>2, <1>3, <2>1, SumUnique
  <2> QED BY <2>2
<1>5. F[S] = f[y] + F[R]
  BY <1>1, SumRemove
<1> QED BY <1>1, <1>3, <1>4, <1>5

LEMMA SumChange ==
  ASSUME NEW S, IsFiniteSet(S), NEW f \in [S -> Int], NEW g \in [S -> Int], NEW y \in S,
         \A x \in S \ {y} : g[x] = f[x]
  PROVE  Sum(g) = Sum(f) - f[y] + g[y]
<1> DEFINE h == [x \in S \ {y} |-> f[x]]
<1>1. h = [x \in S \ {y} |-> g[x]]
  OBVIOUS
<1>2. Sum(f) = f[y] + Sum(h) /\ Sum(h) \in Int
  BY SumSplit
<1>3. Sum(g) = g[y] + Sum([x \in S \ {y} |-> g[x]]) /\ Sum([x \in S \ {y} |-> g[x]]) \in Int
  <2> HIDE DEF h
  <2> QED BY SumSplit
<1>4. f[y] \in Int /\ g[y] \in Int
  OBVIOUS
<1> HIDE DEF h
<1> QED BY <1>1, <1>2, <1>3, <1>4

LEMMA SumZero ==
  ASSUME NEW S, IsFiniteSet(S), NEW f \in [S -> Int], \A x \in S : f[x] = 0
  PROVE  Sum(f) = 0
<1>1. PICK F : IsSum(f, S, F) /\ Sum(f) = F[S]
  BY SumDef
<1> DEFINE Q == {s \in SUBSET S : F[s] # 0}
<1>2. CASE Q = {}
  BY <1>1, <1>2
<1>3. CASE Q # {}
  <2>1. PICK T \in Q : \A t \in Q : t \subseteq T => t = T
    <3>1. Q \subseteq SUBSET S
      OBVIOUS
    <3> HIDE DEF Q
    <3> QED BY <1>3, <3>1, SmallestSet
  <2>2. F[T] = IF T = {} THEN 0 ELSE f[Some(T)] + F[T \ {Some(T)}]
    BY <1>1 DEF IsSum
  <2>3. T # {} => F[T \ {Some(T)}] = 0 /\ Some(T) \in S
    BY <2>1, SomeIn
  <2> QED BY <2>1, <2>2, <2>3
<1> QED BY <1>2, <1>3

(* The totals of the books are sums of this kind.                          *)
LEMMA TotalAmount ==
  ASSUME NEW rows, rows \subseteq Row, IsFiniteSet(rows)
  PROVE  Total(Amount, rows) = Sum([r \in rows |-> r.amount])
<1> DEFINE f == [r \in rows |-> r.amount]
           E(G) == [s \in SUBSET rows |-> IF s = {} THEN 0
                      ELSE Amount(CHOOSE x \in s : TRUE) + G[s \ {CHOOSE x \in s : TRUE}]]
<1>1. Total(Amount, rows) = (CHOOSE G : G = E(G))[rows]
  BY DEF Total, MapThenSumSet, MapThenFoldSet
<1>2. ASSUME NEW G PROVE E(G) = [s \in SUBSET rows |-> IF s = {} THEN 0 ELSE f[Some(s)] + G[s \ {Some(s)}]]
  <2>1. ASSUME NEW s \in SUBSET rows, s # {} PROVE Amount(Some(s)) = f[Some(s)]
    BY <2>1, SomeIn DEF Amount
  <2>2. ASSUME NEW s \in SUBSET rows
        PROVE  (IF s = {} THEN 0 ELSE Amount(Some(s)) + G[s \ {Some(s)}])
                 = (IF s = {} THEN 0 ELSE f[Some(s)] + G[s \ {Some(s)}])
    BY <2>1
  <2>3. E(G) = [s \in SUBSET rows |-> IF s = {} THEN 0 ELSE Amount(Some(s)) + G[s \ {Some(s)}]]
    BY DEF Some
  <2> HIDE DEF E, f
  <2> QED BY <2>2, <2>3
<1>3. ASSUME NEW G PROVE G = E(G) <=> IsSum(f, rows, G)
  BY <1>2 DEF IsSum
<1>4. PICK G : G = CHOOSE H : H = E(H)
  OBVIOUS
<1>5. G = E(G)
  <2>1. \E H : H = E(H)
    <3>1. PICK H : IsSum(f, rows, H)
      BY SumExists
    <3>2. H = E(H)
      <4> HIDE DEF E, f
      <4> QED BY <1>3, <3>1
    <3> QED BY <3>2
  <2> HIDE DEF E
  <2> QED BY <1>4, <2>1
<1>6. f \in [rows -> Int]
  BY DEF Row
<1>7. PICK F : IsSum(f, rows, F) /\ Sum(f) = F[rows]
  <2> HIDE DEF f
  <2> QED BY <1>6, SumDef
<1>8. F[rows] = G[rows]
  <2>1. IsSum(f, rows, G)
    BY <1>3, <1>5
  <2>2. \A s \in SUBSET rows : F[s] = G[s]
    <3> HIDE DEF f
    <3> QED BY <1>7, <2>1, SumUnique
  <2> QED BY <2>2
<1> QED BY <1>1, <1>4, <1>7, <1>8
-----------------------------------------------------------------------------
LEMMA FiniteRecords == IsFiniteSet(Records)
  BY ConstantsAssumption, FS_Product, FS_AddElement DEF Records

(* What the rows of a table amount to, what was taken for calls, and what  *)
(* requests have moved but not yet entered in a row.                       *)
AmountOf(rows)  == Sum([r \in rows |-> r.amount])
TakenOf(counts) == Sum([r \in Records |-> counts[r] * Cost])
Pending(t)      == IF t.pc = "row" /\ t.op # "cdr" THEN t.delta ELSE 0
PendingOf(work) == Sum([w \in Workers |-> Pending(work[w])])

LEMMA AmountIsInt ==
  ASSUME NEW rows, rows \subseteq Row, IsFiniteSet(rows)
  PROVE  [r \in rows |-> r.amount] \in [rows -> Int] /\ AmountOf(rows) \in Int
<1>1. [r \in rows |-> r.amount] \in [rows -> Int]
  BY DEF Row
<1> DEFINE f == [r \in rows |-> r.amount]
<1> HIDE DEF f
<1>2. Sum(f) \in Int
  BY <1>1, SumDef DEF f
<1> QED BY <1>1, <1>2 DEF AmountOf, f

LEMMA AmountDrop ==
  ASSUME NEW rows, rows \subseteq Row, IsFiniteSet(rows), NEW q \in rows
  PROVE  IsFiniteSet(rows \ {q}) /\ AmountOf(rows \ {q}) = AmountOf(rows) - q.amount
<1> DEFINE f == [r \in rows |-> r.amount]
           g == [r \in rows \ {q} |-> r.amount]
<1>1. IsFiniteSet(rows \ {q})
  BY FS_Subset
<1>2. f \in [rows -> Int] /\ f[q] = q.amount /\ q.amount \in Int
  BY DEF Row
<1>3. g = [x \in rows \ {q} |-> f[x]]
  OBVIOUS
<1>4. AmountOf(rows) = Sum(f) /\ AmountOf(rows \ {q}) = Sum(g)
  BY DEF AmountOf
<1> HIDE DEF f, g
<1>5. Sum(f) = f[q] + Sum([x \in rows \ {q} |-> f[x]]) /\ Sum([x \in rows \ {q} |-> f[x]]) \in Int
  BY <1>2, SumSplit
<1> QED BY <1>1, <1>2, <1>3, <1>4, <1>5

LEMMA AmountAdd ==
  ASSUME NEW rows, rows \subseteq Row, IsFiniteSet(rows), NEW q \in Row, q \notin rows
  PROVE  IsFiniteSet(rows \cup {q}) /\ AmountOf(rows \cup {q}) = AmountOf(rows) + q.amount
<1> DEFINE more == rows \cup {q}
<1>1. more \subseteq Row /\ IsFiniteSet(more) /\ q \in more
  BY FS_AddElement
<1>2. more \ {q} = rows
  OBVIOUS
<1>3. AmountOf(more) \in Int /\ AmountOf(rows) \in Int /\ q.amount \in Int
  BY <1>1, AmountIsInt DEF Row
<1> HIDE DEF more
<1>4. AmountOf(more \ {q}) = AmountOf(more) - q.amount
  BY <1>1, AmountDrop
<1>5. AmountOf(rows) = AmountOf(more) - q.amount
  BY <1>2, <1>4
<1>6. AmountOf(more) = AmountOf(rows) + q.amount
  BY <1>3, <1>5
<1> QED BY <1>1, <1>6 DEF more

UniqueIds(rows) == \A r \in rows, s \in rows : r.id = s.id => r = s

(* A row is put into a table in place of the one with its id.              *)
LEMMA PutKeeps ==
  ASSUME NEW rows, rows \subseteq Row, IsFiniteSet(rows), UniqueIds(rows), NEW row \in Row
  PROVE  /\ Put(rows, row) \subseteq Row /\ IsFiniteSet(Put(rows, row)) /\ UniqueIds(Put(rows, row))
         /\ Remove(rows, row) \subseteq Row /\ IsFiniteSet(Remove(rows, row)) /\ UniqueIds(Remove(rows, row))
<1>1. Remove(rows, row) \subseteq rows /\ Put(rows, row) = Remove(rows, row) \cup {row}
  BY DEF Remove, Put
<1>2. IsFiniteSet(Remove(rows, row))
  BY <1>1, FS_Subset
<1>3. IsFiniteSet(Put(rows, row))
  BY <1>1, <1>2, FS_AddElement
<1>4. UniqueIds(Put(rows, row)) /\ UniqueIds(Remove(rows, row))
  BY DEF UniqueIds, Remove, Put
<1> QED BY <1>1, <1>2, <1>3, <1>4

LEMMA PutNew ==
  ASSUME NEW rows, rows \subseteq Row, IsFiniteSet(rows), NEW row \in Row, \A r \in rows : r.id # row.id
  PROVE  AmountOf(Put(rows, row)) = AmountOf(rows) + row.amount
<1>1. Put(rows, row) = rows \cup {row} /\ row \notin rows
  BY DEF Put
<1> QED BY <1>1, AmountAdd

LEMMA RemoveOne ==
  ASSUME NEW rows, rows \subseteq Row, IsFiniteSet(rows), UniqueIds(rows), NEW q \in rows
  PROVE  AmountOf(Remove(rows, q)) = AmountOf(rows) - q.amount
<1>1. Remove(rows, q) = rows \ {q}
  BY DEF Remove, UniqueIds
<1> QED BY <1>1, AmountDrop

LEMMA PutChanged ==
  ASSUME NEW rows, rows \subseteq Row, IsFiniteSet(rows), UniqueIds(rows), NEW q \in rows,
         NEW row \in Row, row.id = q.id
  PROVE  AmountOf(Put(rows, row)) = AmountOf(rows) - q.amount + row.amount
<1> DEFINE rest == rows \ {q}
<1>1. Put(rows, row) = rest \cup {row} /\ row \notin rest /\ rest \subseteq Row
  BY DEF Put, UniqueIds
<1>2. IsFiniteSet(rest) /\ AmountOf(rest) = AmountOf(rows) - q.amount
  BY AmountDrop
<1> HIDE DEF rest
<1>3. AmountOf(rest \cup {row}) = AmountOf(rest) + row.amount
  BY <1>1, <1>2, AmountAdd
<1> QED BY <1>1, <1>2, <1>3

LEMMA TakenType ==
  ASSUME NEW counts \in [Records -> Nat]
  PROVE  [r \in Records |-> counts[r] * Cost] \in [Records -> Int] /\ TakenOf(counts) \in Int
<1>1. [r \in Records |-> counts[r] * Cost] \in [Records -> Int]
  BY ConstantsAssumption
<1> DEFINE f == [r \in Records |-> counts[r] * Cost]
<1> HIDE DEF f
<1>2. Sum(f) \in Int
  BY <1>1, FiniteRecords, SumDef DEF f
<1> QED BY <1>1, <1>2 DEF TakenOf, f

LEMMA TakenMore ==
  ASSUME NEW counts \in [Records -> Nat], NEW q \in Records
  PROVE  TakenOf([counts EXCEPT ![q] = @ + 1]) = TakenOf(counts) + Cost
<1> DEFINE more == [counts EXCEPT ![q] = @ + 1]
           f == [r \in Records |-> counts[r] * Cost]
           g == [r \in Records |-> more[r] * Cost]
<1>1. more \in [Records -> Nat]
  OBVIOUS
<1>2. f \in [Records -> Int] /\ TakenOf(counts) \in Int
  BY TakenType
<1>3. g \in [Records -> Int]
  BY <1>1, TakenType
<1>4. g[q] = f[q] + Cost
  <2>1. more[q] = counts[q] + 1 /\ counts[q] \in Nat /\ Cost \in Nat
    BY ConstantsAssumption
  <2>2. (counts[q] + 1) * Cost = counts[q] * Cost + Cost
    BY <2>1
  <2> QED BY <2>1, <2>2
<1>5. \A x \in Records \ {q} : g[x] = f[x]
  OBVIOUS
<1>6. TakenOf(counts) = Sum(f) /\ TakenOf(more) = Sum(g)
  BY DEF TakenOf
<1>7. f[q] \in Int /\ Cost \in Int
  BY <1>2, ConstantsAssumption
<1> HIDE DEF f, g, more
<1>8. Sum(g) = Sum(f) - f[q] + g[q]
  BY <1>2, <1>3, <1>5, FiniteRecords, SumChange
<1> QED BY <1>2, <1>4, <1>6, <1>7, <1>8 DEF more

LEMMA PendingType ==
  ASSUME NEW work \in [Workers -> Task]
  PROVE  /\ [v \in Workers |-> Pending(work[v])] \in [Workers -> Int]
         /\ PendingOf(work) \in Int
<1>1. \A t \in Task : Pending(t) \in Int
  BY DEF Pending, Task
<1>2. [v \in Workers |-> Pending(work[v])] \in [Workers -> Int]
  BY <1>1
<1> DEFINE f == [v \in Workers |-> Pending(work[v])]
<1> HIDE DEF f
<1>3. Sum(f) \in Int
  BY <1>2, ConstantsAssumption, SumDef DEF f
<1> QED BY <1>2, <1>3 DEF PendingOf, f

LEMMA PendingChange ==
  ASSUME NEW work \in [Workers -> Task], NEW w \in Workers, NEW t \in Task
  PROVE  PendingOf([work EXCEPT ![w] = t]) = PendingOf(work) - Pending(work[w]) + Pending(t)
<1> DEFINE next == [work EXCEPT ![w] = t]
           f == [v \in Workers |-> Pending(work[v])]
           g == [v \in Workers |-> Pending(next[v])]
<1>1. next \in [Workers -> Task]
  OBVIOUS
<1>2. f \in [Workers -> Int] /\ g \in [Workers -> Int]
  BY <1>1, PendingType
<1>3. g[w] = Pending(t) /\ f[w] = Pending(work[w]) /\ \A x \in Workers \ {w} : g[x] = f[x]
  OBVIOUS
<1>4. PendingOf(work) = Sum(f) /\ PendingOf(next) = Sum(g)
  BY DEF PendingOf
<1> HIDE DEF f, g, next
<1>5. Sum(g) = Sum(f) - f[w] + g[w]
  BY <1>2, <1>3, ConstantsAssumption, SumChange
<1> QED BY <1>3, <1>4, <1>5 DEF next
LEMMA TotalTaken ==
  ASSUME took \in [Records -> Nat]
  PROVE  Total(Taken, Records) = TakenOf(took)
<1> DEFINE f == [r \in Records |-> took[r] * Cost]
           E(G) == [s \in SUBSET Records |-> IF s = {} THEN 0
                      ELSE Taken(CHOOSE x \in s : TRUE) + G[s \ {CHOOSE x \in s : TRUE}]]
<1>1. Total(Taken, Records) = (CHOOSE G : G = E(G))[Records]
  BY DEF Total, MapThenSumSet, MapThenFoldSet
<1>2. ASSUME NEW G
      PROVE  E(G) = [s \in SUBSET Records |-> IF s = {} THEN 0 ELSE f[Some(s)] + G[s \ {Some(s)}]]
  <2>1. ASSUME NEW s \in SUBSET Records, s # {} PROVE Taken(Some(s)) = f[Some(s)]
    BY <2>1, SomeIn DEF Taken
  <2>2. ASSUME NEW s \in SUBSET Records
        PROVE  (IF s = {} THEN 0 ELSE Taken(Some(s)) + G[s \ {Some(s)}])
                 = (IF s = {} THEN 0 ELSE f[Some(s)] + G[s \ {Some(s)}])
    BY <2>1
  <2>3. E(G) = [s \in SUBSET Records |-> IF s = {} THEN 0 ELSE Taken(Some(s)) + G[s \ {Some(s)}]]
    BY DEF Some
  <2> HIDE DEF E, f
  <2> QED BY <2>2, <2>3
<1>3. ASSUME NEW G PROVE G = E(G) <=> IsSum(f, Records, G)
  BY <1>2 DEF IsSum
<1>4. PICK G : G = CHOOSE H : H = E(H)
  OBVIOUS
<1>5. G = E(G)
  <2>1. \E H : H = E(H)
    <3>1. PICK H : IsSum(f, Records, H)
      BY FiniteRecords, SumExists
    <3>2. H = E(H)
      <4> HIDE DEF E, f
      <4> QED BY <1>3, <3>1
    <3> QED BY <3>2
  <2> HIDE DEF E
  <2> QED BY <1>4, <2>1
<1>6. f \in [Records -> Int]
  BY TakenType
<1>7. PICK F : IsSum(f, Records, F) /\ Sum(f) = F[Records]
  <2> HIDE DEF f
  <2> QED BY <1>6, FiniteRecords, SumDef
<1>8. F[Records] = G[Records]
  <2>1. IsSum(f, Records, G)
    BY <1>3, <1>5
  <2>2. \A s \in SUBSET Records : F[s] = G[s]
    <3> HIDE DEF f
    <3> QED BY <1>7, <2>1, FiniteRecords, SumUnique
  <2> QED BY <2>2
<1> QED BY <1>1, <1>4, <1>7, <1>8 DEF TakenOf

(* What a request means to do to the balance is what its row will say.     *)
Agrees(t, id) ==
  /\ t.row.id < id
  /\ t.op = "topup" => t.delta = t.amount
  /\ t.op = "addCharge" => t.delta = -t.amount
  /\ t.op = "updateLatestTopup" /\ t.pc \notin {"check", "latest"} => t.delta = t.amount - t.row.amount
  /\ t.op = "deleteLatestTopup" /\ t.pc \notin {"check", "latest"} => t.delta = -t.row.amount
  /\ t.op = "updateCharge" => t.delta = t.row.amount - t.amount
  /\ t.op = "deleteCharge" => t.delta = t.row.amount
  /\ t.op \in {"cdr", "dialerCdr"} => t.delta = -Cost

RowsKnown ==
  /\ IsFiniteSet(topups) /\ UniqueIds(topups)
  /\ IsFiniteSet(charges) /\ UniqueIds(charges)
  /\ nextId > 0 /\ \A r \in topups \cup charges : r.id < nextId

Expected == Opening + AmountOf(topups) - AmountOf(charges) - TakenOf(took) + forgiven + PendingOf(task)

(* The balance is what the rows and records say and what is still to be    *)
(* entered in a row.                                                       *)
BooksInv ==
  /\ RowsKnown
  /\ \A w \in Workers : Agrees(task[w], nextId)
  /\ ~raced /\ ~torn => config.balance = Expected

LEMMA BooksTypes ==
  ASSUME TypeInv, RowsKnown
  PROVE  /\ AmountOf(topups) \in Int /\ AmountOf(charges) \in Int /\ TakenOf(took) \in Int
         /\ PendingOf(task) \in Int /\ forgiven \in Int /\ Opening \in Int
         /\ config.balance \in Int /\ nextId \in Int /\ Cost \in Int
<1>1. AmountOf(topups) \in Int /\ AmountOf(charges) \in Int
  BY AmountIsInt DEF TypeInv, TypeOK, TablesOK, RowsKnown
<1>2. TakenOf(took) \in Int
  BY TakenType DEF TypeInv, TypeOK, HistoryOK
<1>3. PendingOf(task) \in Int
  BY PendingType DEF TypeInv, TypeOK
<1> QED BY <1>1, <1>2, <1>3, ConstantsAssumption DEF TypeInv, TypeOK, TablesOK, HistoryOK, Config

(* A step that moves no money and enters no row.                           *)
LEMMA BooksKept ==
  ASSUME TypeInv, BooksInv, TypeInv', UNCHANGED <<topups, charges, nextId, took, forgiven>>,
         raced => raced', torn => torn', raced' \/ config'.balance = config.balance,
         NEW w \in Workers, NEW u, task' = [task EXCEPT ![w] = u],
         Agrees(u, nextId), torn' \/ Pending(u) = Pending(task[w])
  PROVE  BooksInv'
<1>0. u \in Task
  BY DEF TypeInv, TypeOK
<1>1. RowsKnown'
  BY DEF BooksInv, RowsKnown
<1>2. \A v \in Workers : Agrees(task'[v], nextId')
  BY DEF BooksInv, TypeInv, TypeOK
<1>3. ASSUME ~raced', ~torn' PROVE config'.balance = Expected'
  <2>1. config'.balance = config.balance /\ config.balance = Expected
    BY <1>3 DEF BooksInv
  <2>2. PendingOf(task') = PendingOf(task) - Pending(task[w]) + Pending(u)
    BY <1>0, PendingChange DEF TypeInv, TypeOK
  <2>3. Pending(task[w]) \in Int /\ Pending(u) = Pending(task[w]) /\ PendingOf(task) \in Int
    BY <1>3, BooksTypes DEF Pending, TypeInv, TypeOK, Task, BooksInv
  <2>4. PendingOf(task') = PendingOf(task)
    BY <2>2, <2>3
  <2>5. Expected' = Opening + AmountOf(topups) - AmountOf(charges) - TakenOf(took) + forgiven + PendingOf(task')
    BY DEF Expected
  <2> QED BY <2>1, <2>4, <2>5 DEF Expected
<1> QED BY <1>1, <1>2, <1>3 DEF BooksInv

LEMMA IdleAgrees == ASSUME RowsKnown PROVE Agrees(Idle, nextId) /\ Pending(Idle) = 0
  BY DEF RowsKnown, Agrees, Pending, Idle, NoRow

(* A step that neither comes from a row nor to one, and moves no money.    *)
Light(w) ==
  /\ UNCHANGED <<config, topups, charges, nextId, took, forgiven, raced, torn>>
  /\ Pending(task[w]) = 0
  /\ \E u : task' = [task EXCEPT ![w] = u] /\ Agrees(u, nextId) /\ Pending(u) = 0

LEMMA LightBooks ==
  ASSUME TypeInv, BooksInv, TypeInv', NEW w \in Workers, Light(w)
  PROVE  BooksInv'
<1>1. PICK u : task' = [task EXCEPT ![w] = u] /\ Agrees(u, nextId) /\ Pending(u) = 0
  BY DEF Light
<1> QED BY <1>1, BooksKept DEF Light

LEMMA RequestIsLight ==
  ASSUME TypeInv, BooksInv, NEW w \in Workers,
         \/ topup(w) \/ addCharge(w) \/ updateLatestTopup(w) \/ deleteLatestTopup(w)
         \/ updateCharge(w) \/ deleteCharge(w) \/ updateConfig(w)
  PROVE  Light(w)
<1>1. /\ UNCHANGED <<config, topups, charges, nextId, took, forgiven, raced, torn>>
      /\ Pending(task[w]) = 0
  BY DEF topup, addCharge, updateLatestTopup, deleteLatestTopup, updateCharge, deleteCharge,
         updateConfig, Request, db, history, Pending
<1>2. nextId > 0 /\ (\A r \in charges : r.id < nextId) /\ charges \subseteq Row
  BY DEF BooksInv, RowsKnown, TypeInv, TypeOK, TablesOK
<1>3. SUFFICES \E u : task' = [task EXCEPT ![w] = u] /\ Agrees(u, nextId) /\ Pending(u) = 0
  BY <1>1 DEF Light
<1>4. CASE topup(w)
  <2>1. PICK a \in Amounts : task' = [task EXCEPT ![w] =
          [Idle EXCEPT !.op = "topup", !.pc = "adjust", !.delta = a, !.amount = a]]
    BY <1>4 DEF topup
  <2> DEFINE u == [Idle EXCEPT !.op = "topup", !.pc = "adjust", !.delta = a, !.amount = a]
  <2>2. Agrees(u, nextId) /\ Pending(u) = 0
    BY <1>2 DEF Idle, NoRow, Agrees, Pending
  <2> QED BY <2>1, <2>2
<1>5. CASE addCharge(w)
  <2>1. PICK a \in Amounts : task' = [task EXCEPT ![w] =
          [Idle EXCEPT !.op = "addCharge", !.pc = "adjust", !.delta = -a, !.amount = a]]
    BY <1>5 DEF addCharge
  <2> DEFINE u == [Idle EXCEPT !.op = "addCharge", !.pc = "adjust", !.delta = -a, !.amount = a]
  <2>2. Agrees(u, nextId) /\ Pending(u) = 0
    BY <1>2 DEF Idle, NoRow, Agrees, Pending
  <2> QED BY <2>1, <2>2
<1>6. CASE updateLatestTopup(w)
  <2>1. PICK a \in Amounts : task' = [task EXCEPT ![w] =
          [Idle EXCEPT !.op = "updateLatestTopup", !.pc = "check", !.amount = a]]
    BY <1>6 DEF updateLatestTopup
  <2> DEFINE u == [Idle EXCEPT !.op = "updateLatestTopup", !.pc = "check", !.amount = a]
  <2>2. Agrees(u, nextId) /\ Pending(u) = 0
    BY <1>2 DEF Idle, NoRow, Agrees, Pending
  <2> QED BY <2>1, <2>2
<1>7. CASE deleteLatestTopup(w)
  <2> DEFINE u == [Idle EXCEPT !.op = "deleteLatestTopup", !.pc = "check"]
  <2>1. task' = [task EXCEPT ![w] = u]
    BY <1>7 DEF deleteLatestTopup
  <2>2. Agrees(u, nextId) /\ Pending(u) = 0
    BY <1>2 DEF Idle, NoRow, Agrees, Pending
  <2> QED BY <2>1, <2>2
<1>8. CASE updateCharge(w)
  <2>1. PICK charge \in charges, a \in Amounts : task' = [task EXCEPT ![w] =
          [Idle EXCEPT !.op = "updateCharge", !.row = charge, !.amount = a, !.delta = charge.amount - a,
                       !.pc = IF charge.amount - a = 0 THEN "row" ELSE "adjust"]]
    BY <1>8 DEF updateCharge
  <2> DEFINE u == [Idle EXCEPT !.op = "updateCharge", !.row = charge, !.amount = a,
                               !.delta = charge.amount - a,
                               !.pc = IF charge.amount - a = 0 THEN "row" ELSE "adjust"]
  <2>2. Agrees(u, nextId) /\ Pending(u) = 0
    BY <1>2 DEF Idle, Agrees, Pending
  <2> QED BY <2>1, <2>2
<1>9. CASE deleteCharge(w)
  <2>1. PICK charge \in charges : task' = [task EXCEPT ![w] =
          [Idle EXCEPT !.op = "deleteCharge", !.row = charge, !.delta = charge.amount, !.pc = "adjust"]]
    BY <1>9 DEF deleteCharge
  <2> DEFINE u == [Idle EXCEPT !.op = "deleteCharge", !.row = charge, !.delta = charge.amount,
                               !.pc = "adjust"]
  <2>2. Agrees(u, nextId) /\ Pending(u) = 0
    BY <1>2 DEF Idle, Agrees, Pending
  <2> QED BY <2>1, <2>2
<1>10. CASE updateConfig(w)
  <2>1. PICK p \in BOOLEAN : task' = [task EXCEPT ![w] =
          [Idle EXCEPT !.op = "updateConfig", !.seen = config, !.prepaid = p, !.pc = "config"]]
    BY <1>10 DEF updateConfig
  <2> DEFINE u == [Idle EXCEPT !.op = "updateConfig", !.seen = config, !.prepaid = p, !.pc = "config"]
  <2>2. Agrees(u, nextId) /\ Pending(u) = 0
    BY <1>2 DEF Idle, NoRow, Agrees, Pending
  <2> QED BY <2>1, <2>2
<1> QED BY <1>4, <1>5, <1>6, <1>7, <1>8, <1>9, <1>10

LEMMA CallIsLight ==
  ASSUME TypeInv, BooksInv, NEW w \in Workers,
         Dialplan(w) \/ ingestCdr(w) \/ (applyPrepaidCharge(w) /\ task' # task)
  PROVE  Light(w)
<1>1. /\ UNCHANGED <<config, topups, charges, nextId, took, forgiven, raced, torn>>
      /\ Pending(task[w]) = 0
  BY DEF Dialplan, ingestCdr, applyPrepaidCharge, Post, db, history, Pending
<1>2. nextId > 0
  BY DEF BooksInv, RowsKnown
<1>3. SUFFICES \E u : task' = [task EXCEPT ![w] = u] /\ Agrees(u, nextId) /\ Pending(u) = 0
  BY <1>1 DEF Light
<1>4. CASE Dialplan(w)
  <2>1. PICK c \in Calls : task' = [task EXCEPT ![w] =
          [Idle EXCEPT !.op = "dialplan", !.seen = config, !.record = <<c, Dialer>>, !.pc = "route"]]
    BY <1>4 DEF Dialplan
  <2> DEFINE u == [Idle EXCEPT !.op = "dialplan", !.seen = config, !.record = <<c, Dialer>>, !.pc = "route"]
  <2>2. Agrees(u, nextId) /\ Pending(u) = 0
    BY <1>2 DEF Idle, NoRow, Agrees, Pending
  <2> QED BY <2>1, <2>2
<1>5. CASE ingestCdr(w)
  <2>1. PICK r \in Calls \X Legs : task' = [task EXCEPT ![w] =
          [Idle EXCEPT !.op = "cdr", !.record = r, !.delta = -Cost, !.pc = "context"]]
    BY <1>5 DEF ingestCdr
  <2> DEFINE u == [Idle EXCEPT !.op = "cdr", !.record = r, !.delta = -Cost, !.pc = "context"]
  <2>2. Agrees(u, nextId) /\ Pending(u) = 0
    BY <1>2 DEF Idle, NoRow, Agrees, Pending
  <2> QED BY <2>1, <2>2
<1>6. CASE applyPrepaidCharge(w) /\ task' # task
  <2>1. PICK c \in Calls : task' = [task EXCEPT ![w] =
          [Idle EXCEPT !.op = "dialerCdr", !.record = <<c, Dialer>>, !.seen = config, !.delta = -Cost,
                       !.pc = "deduct"]]
    BY <1>6 DEF applyPrepaidCharge
  <2> DEFINE u == [Idle EXCEPT !.op = "dialerCdr", !.record = <<c, Dialer>>, !.seen = config,
                               !.delta = -Cost, !.pc = "deduct"]
  <2>2. Agrees(u, nextId) /\ Pending(u) = 0
    BY <1>2 DEF Idle, NoRow, Agrees, Pending
  <2> QED BY <2>1, <2>2
<1> QED BY <1>4, <1>5, <1>6

(* Carrying on, before the balance is saved.                               *)
LEMMA CarryOnIsLight ==
  ASSUME TypeInv, BooksInv, NEW w \in Workers,
         \/ CheckBalance(w) \/ findLatestTopup(w) \/ ReadBalance(w) \/ Bridge(w)
         \/ computeBillingContext(w) \/ applyCharge(w) \/ ChargeFails(w) \/ SaveRecord(w)
  PROVE  Light(w)
<1> DEFINE t == task[w]
<1>1. t \in Task /\ TaskGood(t) /\ Agrees(t, nextId) /\ RowsKnown
  BY DEF TypeInv, TypeOK, TaskOK, BooksInv
<1>2. /\ UNCHANGED <<config, topups, charges, nextId, took, forgiven, raced, torn>>
      /\ Pending(t) = 0
  BY DEF CheckBalance, findLatestTopup, ReadBalance, Bridge, computeBillingContext, applyCharge,
         ChargeIfPrepaid, ChargeFails, SaveRecord, db, history, Pending
<1>3. SUFFICES \E u : task' = [task EXCEPT ![w] = u] /\ Agrees(u, nextId) /\ Pending(u) = 0
  BY <1>2 DEF Light
<1>4. CASE Finish(w)
  BY <1>1, <1>4, IdleAgrees DEF Finish
<1>5. CASE Bridge(w) \/ SaveRecord(w)
  BY <1>4, <1>5 DEF Bridge, SaveRecord
<1>6. CASE CheckBalance(w) /\ ~Finish(w)
  <2> DEFINE u == [t EXCEPT !.pc = "latest"]
  <2>1. task' = [task EXCEPT ![w] = u] /\ t.op \in {"updateLatestTopup", "deleteLatestTopup"}
    BY <1>1, <1>6 DEF CheckBalance, Goto, TaskGood
  <2>2. u.row = t.row /\ u.op = t.op /\ u.pc = "latest"
    BY <1>1 DEF Task
  <2> HIDE DEF u
  <2>3. Agrees(u, nextId) /\ Pending(u) = 0
    BY <1>1, <2>1, <2>2 DEF Agrees, Pending
  <2> QED BY <2>1, <2>3
<1>7. CASE findLatestTopup(w) /\ ~Finish(w)
  <2> DEFINE delta(row) == (IF t.op = "updateLatestTopup" THEN t.amount ELSE 0) - row.amount
  <2>1. PICK row \in topups : task' = [task EXCEPT ![w] =
          [t EXCEPT !.row = row, !.delta = delta(row), !.pc = IF delta(row) = 0 THEN "row" ELSE "adjust"]]
    BY <1>7 DEF findLatestTopup
  <2> DEFINE u == [t EXCEPT !.row = row, !.delta = delta(row), !.pc = IF delta(row) = 0 THEN "row" ELSE "adjust"]
  <2>2. t.op \in {"updateLatestTopup", "deleteLatestTopup"}
    BY <1>1, <1>7 DEF findLatestTopup, TaskGood
  <2>3. /\ u.row = row /\ u.op = t.op /\ u.delta = delta(row) /\ u.amount = t.amount
        /\ u.pc = IF delta(row) = 0 THEN "row" ELSE "adjust"
    BY <1>1 DEF Task
  <2>4. row.id < nextId /\ row.amount \in Int /\ t.amount \in Int
    BY <1>1 DEF RowsKnown, TypeInv, TypeOK, TablesOK, Row, Task
  <2> HIDE DEF u
  <2>5. Agrees(u, nextId)
    BY <2>2, <2>3, <2>4 DEF Agrees
  <2>6. Pending(u) = 0
    BY <2>2, <2>3, <2>4 DEF Pending
  <2> QED BY <2>1, <2>5, <2>6 DEF u
<1>8. CASE ReadBalance(w)
  <2> DEFINE u == [t EXCEPT !.seen = config, !.pc = "save"]
  <2>1. task' = [task EXCEPT ![w] = u] /\ t.pc = "adjust"
    BY <1>8 DEF ReadBalance
  <2>2. u.row = t.row /\ u.op = t.op /\ u.pc = "save" /\ u.delta = t.delta /\ u.amount = t.amount
    BY <1>1 DEF Task
  <2> HIDE DEF u
  <2>3. Agrees(u, nextId) /\ Pending(u) = 0
    BY <1>1, <2>1, <2>2 DEF Agrees, Pending
  <2> QED BY <2>1, <2>3
<1>9. CASE computeBillingContext(w) \/ applyCharge(w) \/ ChargeFails(w)
  <2>1. t.op = "cdr"
    BY <1>1, <1>9 DEF computeBillingContext, applyCharge, ChargeIfPrepaid, ChargeFails, TaskGood
  <2>2. PICK pc \in {"row", "apply", "adjust"} : Goto(w, pc)
    BY <1>9 DEF computeBillingContext, applyCharge, ChargeIfPrepaid, ChargeFails
  <2> DEFINE u == [t EXCEPT !.pc = pc]
  <2>3. u.row = t.row /\ u.op = t.op /\ u.pc = pc /\ u.delta = t.delta /\ u.amount = t.amount
    BY <1>1 DEF Task
  <2>4. task' = [task EXCEPT ![w] = u]
    BY <2>2 DEF Goto
  <2> HIDE DEF u
  <2>5. Agrees(u, nextId) /\ Pending(u) = 0
    BY <1>1, <2>1, <2>3 DEF Agrees, Pending
  <2> QED BY <2>4, <2>5
<1> QED BY <1>4, <1>5, <1>6, <1>7, <1>8, <1>9

LEMMA BooksStutter ==
  ASSUME BooksInv, UNCHANGED <<config, topups, charges, nextId, took, forgiven, raced, torn, task>>
  PROVE  BooksInv'
  BY DEF BooksInv, RowsKnown, Expected

(* A save that overwrites nothing adds to the balance what it wants to,    *)
(* and what it may not take is forgiven.                                   *)
LEMMA BooksSave ==
  ASSUME TypeInv, BooksInv, TypeInv', UNCHANGED <<topups, charges, nextId>>,
         raced => raced', torn => torn',
         NEW w \in Workers, NEW u, task' = [task EXCEPT ![w] = u], Agrees(u, nextId),
         ~raced' => config'.balance - config.balance =
                      (TakenOf(took) - TakenOf(took')) + (forgiven' - forgiven) + (Pending(u) - Pending(task[w]))
  PROVE  BooksInv'
<1>1. u \in Task
  BY DEF TypeInv, TypeOK
<1>2. RowsKnown'
  BY DEF BooksInv, RowsKnown
<1>3. \A v \in Workers : Agrees(task'[v], nextId')
  BY DEF BooksInv, TypeInv, TypeOK
<1>4. ASSUME ~raced', ~torn' PROVE config'.balance = Expected'
  <2>1. config.balance = Expected
    BY <1>4 DEF BooksInv
  <2>2. PendingOf(task') = PendingOf(task) - Pending(task[w]) + Pending(u)
    BY <1>1, PendingChange DEF TypeInv, TypeOK
  <2>3. Pending(task[w]) \in Int /\ Pending(u) \in Int
    BY <1>1 DEF Pending, TypeInv, TypeOK, Task
  <2>4. /\ AmountOf(topups) \in Int /\ AmountOf(charges) \in Int /\ TakenOf(took) \in Int
        /\ PendingOf(task) \in Int /\ forgiven \in Int /\ Opening \in Int /\ config.balance \in Int
    BY BooksTypes DEF BooksInv
  <2>5. TakenOf(took') \in Int /\ forgiven' \in Int /\ config'.balance \in Int
    BY TakenType DEF TypeInv, TypeOK, HistoryOK, TablesOK, Config
  <2>6. Expected' = Opening + AmountOf(topups) - AmountOf(charges) - TakenOf(took') + forgiven' + PendingOf(task')
    BY DEF Expected
  <2>7. config'.balance - config.balance =
          (TakenOf(took) - TakenOf(took')) + (forgiven' - forgiven) + (Pending(u) - Pending(task[w]))
    BY <1>4
  <2> QED BY <2>1, <2>2, <2>3, <2>4, <2>5, <2>6, <2>7 DEF Expected
<1> QED BY <1>2, <1>3, <1>4 DEF BooksInv

LEMMA ClampSplit == ASSUME NEW n \in Int PROVE Clamp(n) = n + Clamp(-n)
  BY DEF Clamp

LEMMA SaveBalanceBooks ==
  ASSUME TypeInv, BooksInv, TypeInv', NEW w \in Workers, SaveBalance(w)
  PROVE  BooksInv'
<1> DEFINE t == task[w]
           u == [t EXCEPT !.seen.balance = NextBalance(t), !.pc = "row"]
<1>1. t \in Task /\ TaskGood(t) /\ Agrees(t, nextId) /\ RowsKnown
  BY DEF TypeInv, TypeOK, TaskOK, BooksInv
<1>2. /\ t.pc = "save" /\ task' = [task EXCEPT ![w] = u]
      /\ config' = [t.seen EXCEPT !.balance = NextBalance(t)]
      /\ raced' = (raced \/ config # t.seen) /\ torn' = torn
      /\ forgiven' = forgiven + Clamp(-(t.seen.balance + t.delta))
      /\ took' = IF t.op = "cdr" THEN [took EXCEPT ![t.record] = @ + 1] ELSE took
      /\ UNCHANGED <<topups, charges, nextId>>
  BY DEF SaveBalance
<1>3. u.row = t.row /\ u.op = t.op /\ u.pc = "row" /\ u.delta = t.delta /\ u.amount = t.amount
  BY <1>1 DEF Task
<1> HIDE DEF t, u
<1>4. Agrees(u, nextId)
  BY <1>1, <1>2, <1>3 DEF Agrees
<1>5. ASSUME ~raced'
      PROVE  config'.balance - config.balance =
               (TakenOf(took) - TakenOf(took')) + (forgiven' - forgiven) + (Pending(u) - Pending(t))
  <2>1. config = t.seen
    BY <1>2, <1>5
  <2>2. t.seen.balance \in Int /\ t.delta \in Int /\ forgiven \in Int /\ t.seen \in Config
    BY <1>1, BooksTypes DEF Task, Config
  <2> DEFINE n == t.seen.balance + t.delta
             short == Clamp(-n)
  <2>3. Clamp(n) = n + short /\ short \in Int
    BY <2>2, ClampSplit, ClampNat
  <2>4. config'.balance = Clamp(n) /\ forgiven' = forgiven + short
    BY <1>2, <2>2 DEF Config, NextBalance
  <2> HIDE DEF short
  <2>5. config'.balance - config.balance = t.delta + (forgiven' - forgiven)
    BY <2>1, <2>2, <2>3, <2>4
  <2>6. Pending(t) = 0
    BY <1>2 DEF Pending
  <2>7. CASE t.op = "cdr"
    <3>1. Pending(u) = 0 /\ t.delta = -Cost
      BY <1>1, <1>3, <2>7 DEF Pending, Agrees
    <3>2. TakenOf(took') = TakenOf(took) + Cost
      BY <1>1, <1>2, <2>7, TakenMore DEF TaskGood, TypeInv, TypeOK, HistoryOK
    <3>3. TakenOf(took) \in Int /\ Cost \in Int
      BY <1>1, BooksTypes
    <3> QED BY <2>2, <2>3, <2>4, <2>5, <2>6, <3>1, <3>2, <3>3
  <2>8. CASE t.op # "cdr"
    <3>1. Pending(u) = t.delta /\ took' = took
      BY <1>2, <1>3, <2>8 DEF Pending
    <3>2. TakenOf(took) \in Int
      BY <1>1, BooksTypes
    <3>3. TakenOf(took') = TakenOf(took)
      BY <3>1
    <3> QED BY <2>2, <2>3, <2>4, <2>5, <2>6, <3>1, <3>2, <3>3
  <2> QED BY <2>7, <2>8
<1> QED BY <1>2, <1>4, <1>5, BooksSave DEF t

LEMMA DeductBooks ==
  ASSUME TypeInv, BooksInv, TypeInv', NEW w \in Workers, Deduct(w)
  PROVE  BooksInv'
<1> DEFINE t == task[w]
<1>1. t \in Task /\ TaskGood(t) /\ Agrees(t, nextId) /\ RowsKnown
  BY DEF TypeInv, TypeOK, TaskOK, BooksInv
<1>2. /\ t.pc = "deduct" /\ task' = [task EXCEPT ![w] = Idle]
      /\ config' = [t.seen EXCEPT !.balance = @ + t.delta]
      /\ raced' = (raced \/ config # t.seen) /\ torn' = torn /\ forgiven' = forgiven
      /\ took' = [took EXCEPT ![t.record] = @ + 1]
      /\ UNCHANGED <<topups, charges, nextId>>
  BY DEF Deduct, Finish
<1> HIDE DEF t
<1>3. t.record \in Records /\ t.delta = -Cost
  BY <1>1, <1>2 DEF TaskGood, Agrees
<1>4. Agrees(Idle, nextId) /\ Pending(Idle) = 0 /\ Pending(t) = 0
  BY <1>1, <1>2, IdleAgrees DEF Pending
<1>5. ASSUME ~raced'
      PROVE  config'.balance - config.balance =
               (TakenOf(took) - TakenOf(took')) + (forgiven' - forgiven) + (Pending(Idle) - Pending(t))
  <2>1. config = t.seen /\ t.seen \in Config /\ config.balance \in Int
    BY <1>1, <1>2, <1>5 DEF Task, Config
  <2>2. config'.balance = config.balance + t.delta
    BY <1>2, <2>1 DEF Config
  <2>3. TakenOf(took') = TakenOf(took) + Cost
    BY <1>2, <1>3, TakenMore DEF TypeInv, TypeOK, HistoryOK
  <2>4. TakenOf(took) \in Int /\ Cost \in Int /\ forgiven \in Int
    BY <1>1, BooksTypes
  <2> QED BY <1>2, <1>3, <1>4, <2>1, <2>2, <2>3, <2>4
<1> QED BY <1>2, <1>4, <1>5, BooksSave DEF t

(* A row that is entered says what the request has moved.                  *)
LEMMA BooksEntered ==
  ASSUME TypeInv, BooksInv, TypeInv', UNCHANGED <<config, took, forgiven, torn>>, raced => raced',
         NEW w \in Workers, Finish(w), RowsKnown', nextId' >= nextId,
         ~raced' => AmountOf(topups') - AmountOf(charges')
                      = AmountOf(topups) - AmountOf(charges) + Pending(task[w])
  PROVE  BooksInv'
<1>1. \A v \in Workers : Agrees(task'[v], nextId')
  <2> SUFFICES ASSUME NEW v \in Workers PROVE Agrees(task'[v], nextId')
    OBVIOUS
  <2>1. CASE v = w
    <3>1. task'[v] = Idle /\ Idle.row.id = 0 /\ Idle.op = "none" /\ nextId' > 0
      BY <2>1 DEF Finish, TypeInv, TypeOK, Idle, NoRow, RowsKnown
    <3> QED BY <3>1 DEF Agrees
  <2>2. CASE v # w
    <3>1. task'[v] = task[v] /\ Agrees(task[v], nextId) /\ task[v].row.id \in Int
      BY <2>2 DEF Finish, TypeInv, TypeOK, BooksInv, Task, Row
    <3>2. nextId \in Int /\ nextId' \in Int
      BY DEF TypeInv, TypeOK, TablesOK
    <3>3. task[v].row.id < nextId'
      BY <3>1, <3>2 DEF Agrees
    <3> QED BY <3>1, <3>3 DEF Agrees
  <2> QED BY <2>1, <2>2
<1>2. ASSUME ~raced', ~torn' PROVE config'.balance = Expected'
  <2>1. config.balance = Expected /\ config'.balance = config.balance
    BY <1>2 DEF BooksInv
  <2>2. PendingOf(task') = PendingOf(task) - Pending(task[w]) + Pending(Idle)
    BY IdleGood, PendingChange DEF TypeInv, TypeOK, Finish
  <2>3. Pending(task[w]) \in Int /\ Pending(Idle) = 0
    BY IdleAgrees DEF Pending, TypeInv, TypeOK, Task, BooksInv
  <2>4. /\ AmountOf(topups) \in Int /\ AmountOf(charges) \in Int /\ TakenOf(took) \in Int
        /\ PendingOf(task) \in Int /\ forgiven \in Int /\ Opening \in Int
    BY BooksTypes DEF BooksInv
  <2>5. AmountOf(topups') \in Int /\ AmountOf(charges') \in Int
    BY AmountIsInt DEF TypeInv, TypeOK, TablesOK, RowsKnown
  <2>6. Expected' = Opening + AmountOf(topups') - AmountOf(charges') - TakenOf(took) + forgiven + PendingOf(task')
    BY DEF Expected
  <2>7. AmountOf(topups') - AmountOf(charges') = AmountOf(topups) - AmountOf(charges) + Pending(task[w])
    BY <1>2
  <2> QED BY <2>1, <2>2, <2>3, <2>4, <2>5, <2>6, <2>7 DEF Expected
<1> QED BY <1>1, <1>2 DEF BooksInv

LEMMA NewRowBooks ==
  ASSUME TypeInv, BooksInv, TypeInv', NEW w \in Workers, SaveNewRow(w)
  PROVE  BooksInv'
<1> DEFINE t == task[w]
           top == [id |-> nextId, amount |-> t.amount, after |-> t.seen.balance]
           chg == [id |-> nextId, amount |-> t.amount, after |-> 0]
<1>1. t \in Task /\ TaskGood(t) /\ Agrees(t, nextId) /\ RowsKnown
  BY DEF TypeInv, TypeOK, TaskOK, BooksInv
<1>2. /\ t.pc = "row" /\ t.op \in {"topup", "addCharge"} /\ nextId' = nextId + 1
      /\ t.op = "topup" => topups' = Put(topups, top) /\ charges' = charges
      /\ t.op = "addCharge" => charges' = Put(charges, chg) /\ topups' = topups
      /\ Finish(w) /\ UNCHANGED <<config, took, forgiven, torn, raced>>
  BY DEF SaveNewRow, history
<1>3. /\ nextId \in Nat /\ topups \subseteq Row /\ charges \subseteq Row
      /\ IsFiniteSet(topups) /\ UniqueIds(topups) /\ IsFiniteSet(charges) /\ UniqueIds(charges)
      /\ (\A r \in topups : r.id < nextId) /\ (\A r \in charges : r.id < nextId) /\ nextId > 0
      /\ AmountOf(topups) \in Int /\ AmountOf(charges) \in Int
  BY <1>1, BooksTypes DEF TypeInv, TypeOK, TablesOK, RowsKnown
<1>4. t.amount \in Nat /\ t.amount > 0 /\ (t.op = "topup" => t.seen.balance \in Nat)
  BY <1>1, <1>2 DEF TaskGood, Task, Config
<1>5. CASE t.op = "topup"
  <2>1. top \in Row /\ top.id = nextId /\ top.amount = t.amount
    BY <1>3, <1>4, <1>5 DEF Row
  <2> HIDE DEF top, t
  <2>2. \A r \in topups : r.id # top.id
    BY <1>3, <2>1 DEF Row
  <2>3. AmountOf(Put(topups, top)) = AmountOf(topups) + t.amount
    BY <1>3, <2>1, <2>2, PutNew
  <2>4. IsFiniteSet(topups') /\ UniqueIds(topups') /\ topups' \subseteq Row
    BY <1>2, <1>3, <1>5, <2>1, PutKeeps
  <2>5. \A r \in topups' \cup charges' : r.id < nextId'
    <3>1. \A r \in topups : r.id < nextId + 1
      BY <1>3 DEF Row
    <3>2. \A r \in charges : r.id < nextId + 1
      BY <1>3 DEF Row
    <3> QED BY <1>2, <1>3, <1>5, <2>1, <3>1, <3>2 DEF Put
  <2>6. RowsKnown'
    BY <1>2, <1>3, <1>5, <2>4, <2>5 DEF RowsKnown
  <2>7. Pending(t) = t.amount
    BY <1>1, <1>2, <1>5 DEF Pending, Agrees
  <2>8. AmountOf(topups') - AmountOf(charges') = AmountOf(topups) - AmountOf(charges) + Pending(t)
    BY <1>2, <1>3, <1>4, <1>5, <2>3, <2>7
  <2> QED BY <1>2, <1>3, <2>6, <2>8, BooksEntered DEF t
<1>6. CASE t.op = "addCharge"
  <2>1. chg \in Row /\ chg.id = nextId /\ chg.amount = t.amount
    BY <1>3, <1>4, <1>6 DEF Row
  <2> HIDE DEF chg, t
  <2>2. \A r \in charges : r.id # chg.id
    BY <1>3, <2>1 DEF Row
  <2>3. AmountOf(Put(charges, chg)) = AmountOf(charges) + t.amount
    BY <1>3, <2>1, <2>2, PutNew
  <2>4. IsFiniteSet(charges') /\ UniqueIds(charges') /\ charges' \subseteq Row
    BY <1>2, <1>3, <1>6, <2>1, PutKeeps
  <2>5. \A r \in topups' \cup charges' : r.id < nextId'
    <3>1. \A r \in topups : r.id < nextId + 1
      BY <1>3 DEF Row
    <3>2. \A r \in charges : r.id < nextId + 1
      BY <1>3 DEF Row
    <3> QED BY <1>2, <1>3, <1>6, <2>1, <3>1, <3>2 DEF Put
  <2>6. RowsKnown'
    BY <1>2, <1>3, <1>6, <2>4, <2>5 DEF RowsKnown
  <2>7. Pending(t) = -t.amount
    BY <1>1, <1>2, <1>6 DEF Pending, Agrees
  <2>8. AmountOf(topups') - AmountOf(charges') = AmountOf(topups) - AmountOf(charges) + Pending(t)
    BY <1>2, <1>3, <1>4, <1>6, <2>3, <2>7
  <2> QED BY <1>2, <1>3, <2>6, <2>8, BooksEntered DEF t
<1> QED BY <1>2, <1>5, <1>6

LEMMA ChangedRowBooks ==
  ASSUME TypeInv, BooksInv, TypeInv', NEW w \in Workers, SaveChangedRow(w)
  PROVE  BooksInv'
<1> DEFINE t == task[w]
           top == ChangedTopup(t)
           chg == ChangedCharge(t)
<1>1. t \in Task /\ TaskGood(t) /\ Agrees(t, nextId) /\ RowsKnown
  BY DEF TypeInv, TypeOK, TaskOK, BooksInv
<1>2. /\ t.pc = "row" /\ Finish(w) /\ nextId' = nextId
      /\ UNCHANGED <<config, took, forgiven, torn>> /\ (raced => raced')
  BY DEF SaveChangedRow
<1>3. /\ topups \subseteq Row /\ charges \subseteq Row
      /\ IsFiniteSet(topups) /\ UniqueIds(topups) /\ IsFiniteSet(charges) /\ UniqueIds(charges)
      /\ (\A r \in topups : r.id < nextId) /\ (\A r \in charges : r.id < nextId) /\ nextId > 0
      /\ nextId \in Nat /\ AmountOf(topups) \in Int /\ AmountOf(charges) \in Int
      /\ t.row \in Row /\ t.row.id < nextId /\ t.row.amount \in Int
  BY <1>1, BooksTypes DEF TypeInv, TypeOK, TablesOK, RowsKnown, Task, Row, Agrees
<1>4. t.op \in {"updateLatestTopup", "deleteLatestTopup", "updateCharge", "deleteCharge"}
  BY DEF SaveChangedRow
<1>5. CASE t.op = "updateLatestTopup"
  <2>1. topups' = Put(topups, top) /\ charges' = charges /\ (~raced' => t.row \in topups)
    BY <1>5 DEF SaveChangedRow
  <2>2. top \in Row /\ top.id = t.row.id /\ top.amount = t.amount /\ t.amount \in Nat
    <3>1. t.amount \in Nat
      BY <1>1, <1>2, <1>5 DEF TaskGood, Task
    <3>2. t.row.after + t.delta \in Int
      BY <1>1, <1>3 DEF Row, Task
    <3> QED BY <1>3, <3>1, <3>2, ClampNat DEF ChangedTopup, Row
  <2> HIDE DEF top, t
  <2>3. IsFiniteSet(topups') /\ UniqueIds(topups')
    BY <1>3, <2>1, <2>2, PutKeeps
  <2>4. RowsKnown'
    BY <1>2, <1>3, <2>1, <2>2, <2>3 DEF RowsKnown, Put
  <2>5. ASSUME ~raced' PROVE AmountOf(topups') - AmountOf(charges') = AmountOf(topups) - AmountOf(charges) + Pending(t)
    <3>1. AmountOf(topups') = AmountOf(topups) - t.row.amount + t.amount
      BY <1>3, <2>1, <2>2, <2>5, PutChanged
    <3>2. Pending(t) = t.amount - t.row.amount
      BY <1>1, <1>2, <1>5 DEF Pending, Agrees
    <3> QED BY <1>3, <2>1, <2>2, <3>1, <3>2
  <2> QED BY <1>2, <1>3, <2>4, <2>5, BooksEntered DEF t
<1>6. CASE t.op = "deleteLatestTopup"
  <2>1. topups' = Remove(topups, t.row) /\ charges' = charges /\ (~raced' => t.row \in topups)
    BY <1>6 DEF SaveChangedRow
  <2> HIDE DEF t
  <2>3. IsFiniteSet(topups') /\ UniqueIds(topups')
    BY <1>3, <2>1, PutKeeps
  <2>4. RowsKnown'
    BY <1>2, <1>3, <2>1, <2>3 DEF RowsKnown, Remove
  <2>5. ASSUME ~raced' PROVE AmountOf(topups') - AmountOf(charges') = AmountOf(topups) - AmountOf(charges) + Pending(t)
    <3>1. AmountOf(topups') = AmountOf(topups) - t.row.amount
      BY <1>3, <2>1, <2>5, RemoveOne
    <3>2. Pending(t) = -t.row.amount
      BY <1>1, <1>2, <1>6 DEF Pending, Agrees
    <3> QED BY <1>3, <2>1, <3>1, <3>2
  <2> QED BY <1>2, <1>3, <2>4, <2>5, BooksEntered DEF t
<1>7. CASE t.op = "updateCharge"
  <2>1. charges' = Put(charges, chg) /\ topups' = topups /\ (~raced' => t.row \in charges)
    BY <1>7 DEF SaveChangedRow
  <2>2. chg \in Row /\ chg.id = t.row.id /\ chg.amount = t.amount /\ t.amount \in Nat
    BY <1>1, <1>3, <1>7 DEF TaskGood, Task, ChangedCharge, Row
  <2> HIDE DEF chg, t
  <2>3. IsFiniteSet(charges') /\ UniqueIds(charges')
    BY <1>3, <2>1, <2>2, PutKeeps
  <2>4. RowsKnown'
    BY <1>2, <1>3, <2>1, <2>2, <2>3 DEF RowsKnown, Put
  <2>5. ASSUME ~raced' PROVE AmountOf(topups') - AmountOf(charges') = AmountOf(topups) - AmountOf(charges) + Pending(t)
    <3>1. AmountOf(charges') = AmountOf(charges) - t.row.amount + t.amount
      BY <1>3, <2>1, <2>2, <2>5, PutChanged
    <3>2. Pending(t) = t.row.amount - t.amount
      BY <1>1, <1>2, <1>7 DEF Pending, Agrees
    <3> QED BY <1>3, <2>1, <2>2, <3>1, <3>2
  <2> QED BY <1>2, <1>3, <2>4, <2>5, BooksEntered DEF t
<1>8. CASE t.op = "deleteCharge"
  <2>1. charges' = Remove(charges, t.row) /\ topups' = topups /\ (~raced' => t.row \in charges)
    BY <1>8 DEF SaveChangedRow
  <2> HIDE DEF t
  <2>3. IsFiniteSet(charges') /\ UniqueIds(charges')
    BY <1>3, <2>1, PutKeeps
  <2>4. RowsKnown'
    BY <1>2, <1>3, <2>1, <2>3 DEF RowsKnown, Remove
  <2>5. ASSUME ~raced' PROVE AmountOf(topups') - AmountOf(charges') = AmountOf(topups) - AmountOf(charges) + Pending(t)
    <3>1. AmountOf(charges') = AmountOf(charges) - t.row.amount
      BY <1>3, <2>1, <2>5, RemoveOne
    <3>2. Pending(t) = t.row.amount
      BY <1>1, <1>2, <1>8 DEF Pending, Agrees
    <3> QED BY <1>3, <2>1, <3>1, <3>2
  <2> QED BY <1>2, <1>3, <2>4, <2>5, BooksEntered DEF t
<1> QED BY <1>4, <1>5, <1>6, <1>7, <1>8

LEMMA StepBooks == ASSUME TypeInv, BooksInv, [Next]_vars PROVE BooksInv'
<1>1. TypeInv'
  BY StepType
<1>2. ASSUME NEW w \in Workers, Step(w) PROVE BooksInv'
  <2> DEFINE t == task[w]
  <2>0. t \in Task /\ Agrees(Idle, nextId) /\ Pending(Idle) = 0
    BY IdleAgrees DEF TypeInv, TypeOK, BooksInv
  <2>1. CASE SaveConfig(w)
    <3>1. /\ UNCHANGED <<topups, charges, nextId, took, forgiven, torn>> /\ (raced => raced')
          /\ task' = [task EXCEPT ![w] = Idle] /\ t.pc = "config"
      BY <2>1 DEF SaveConfig, Finish
    <3>2. raced' \/ config'.balance = config.balance
      BY <2>0, <2>1 DEF SaveConfig, Task, Config
    <3>3. Pending(Idle) = Pending(t)
      BY <2>0, <3>1 DEF Pending
    <3> QED BY <1>1, <2>0, <3>1, <3>2, <3>3, BooksKept
  <2>2. CASE Lose(w)
    <3>1. /\ UNCHANGED <<config, topups, charges, nextId, took, forgiven, raced>> /\ (torn => torn')
          /\ task' = [task EXCEPT ![w] = Idle]
      BY <2>2 DEF Lose, Finish, db
    <3>2. torn' \/ Pending(Idle) = Pending(t)
      BY <2>0, <2>2 DEF Lose, Pending
    <3> QED BY <1>1, <2>0, <3>1, <3>2, BooksKept
  <2>3. CASE SaveBalance(w)
    BY <1>1, <2>3, SaveBalanceBooks
  <2>4. CASE Deduct(w)
    BY <1>1, <2>4, DeductBooks
  <2>5. CASE SaveNewRow(w)
    BY <1>1, <2>5, NewRowBooks
  <2>6. CASE SaveChangedRow(w)
    BY <1>1, <2>6, ChangedRowBooks
  <2>7. CASE Light(w)
    BY <1>1, <2>7, LightBooks
  <2>8. CASE applyPrepaidCharge(w) /\ task' = task
    <3>1. UNCHANGED <<config, topups, charges, nextId, took, forgiven, raced, torn, task>>
      BY <2>8 DEF applyPrepaidCharge, Post, db, history
    <3> QED BY <3>1, BooksStutter
  <2> QED BY <1>2, <2>1, <2>2, <2>3, <2>4, <2>5, <2>6, <2>7, <2>8, StepCases,
             RequestIsLight, CallIsLight, CarryOnIsLight
<1>3. CASE UNCHANGED <<db, task, history>>
  BY <1>3, BooksStutter DEF db, history
<1> QED BY <1>2, <1>3 DEF Next, vars, Originate, HangUp

LEMMA ImageFinite ==
  ASSUME NEW rows, IsFiniteSet(rows)
  PROVE  IsFiniteSet({[r EXCEPT !.after = 0] : r \in rows})
<1> DEFINE image == {[r EXCEPT !.after = 0] : r \in rows}
           f == [r \in rows |-> [r EXCEPT !.after = 0]]
<1>1. f \in [rows -> image] /\ \A x \in image : \E r \in rows : f[r] = x
  OBVIOUS
<1> HIDE DEF image, f
<1>2. f \in Surjection(rows, image)
  BY <1>1 DEF Surjection
<1>3. IsFiniteSet(image)
  BY <1>2, FS_Surjection
<1> QED BY <1>3 DEF image

(* The rows there are at the start cancel out.                             *)
LEMMA SameAmounts == AmountOf({[r EXCEPT !.after = 0] : r \in Before}) = AmountOf(Before)
<1> DEFINE Image(S) == {[r EXCEPT !.after = 0] : r \in S}
           Q == {S \in SUBSET Before : AmountOf(Image(S)) # AmountOf(S)}
<1>1. Before \subseteq Row /\ IsFiniteSet(Before) /\ \A r \in Before : \A s \in Before : s.id = r.id => s = r
  BY ConstantsAssumption DEF Row
<1>2. SUFFICES ASSUME Q # {} PROVE FALSE
  OBVIOUS
<1>3. PICK S \in Q : \A s \in Q : s \subseteq S => s = S
  <2>1. Q \subseteq SUBSET Before
    OBVIOUS
  <2> HIDE DEF Q
  <2> QED BY <1>1, <1>2, <2>1, SmallestSet
<1>4. S \subseteq Before /\ IsFiniteSet(S) /\ S \subseteq Row
  BY <1>1, FS_Subset
<1>5. CASE S = {}
  <2>1. Image(S) = S
    BY <1>5
  <2> QED BY <1>3, <2>1
<1>6. CASE S # {}
  <2>1. PICK q \in S : TRUE
    BY <1>6
  <2> DEFINE R == S \ {q}
             p == [q EXCEPT !.after = 0]
  <2>2. R \subseteq Before /\ R \subseteq Row /\ R # S /\ R \notin Q
    BY <1>3, <1>4
  <2>3. AmountOf(Image(R)) = AmountOf(R)
    BY <2>2
  <2>4. AmountOf(R) = AmountOf(S) - q.amount /\ AmountOf(S) \in Int /\ IsFiniteSet(R)
    BY <1>4, AmountDrop, AmountIsInt
  <2>5. p \in Row /\ p.amount = q.amount /\ p.id = q.id /\ q.amount \in Int
    BY <1>4 DEF Row
  <2>6. Image(S) = Image(R) \cup {p}
    OBVIOUS
  <2>7. p \notin Image(R)
    <3> SUFFICES ASSUME NEW r \in R, p = [r EXCEPT !.after = 0] PROVE FALSE
      OBVIOUS
    <3>1. r \in Row /\ r \in Before /\ q \in Before /\ r # q
      BY <1>4, <2>2
    <3>2. r.id = q.id
      BY <2>5, <3>1 DEF Row
    <3> QED BY <1>1, <3>1, <3>2
  <2>8. Image(R) \subseteq Row /\ IsFiniteSet(Image(R))
    <3>1. Image(R) \subseteq Row
      BY <2>2 DEF Row
    <3>2. IsFiniteSet(Image(R))
      BY <2>4, ImageFinite
    <3> QED BY <3>1, <3>2
  <2> HIDE DEF Image, p, R
  <2>9. AmountOf(Image(S)) = AmountOf(Image(R)) + q.amount
    BY <2>5, <2>6, <2>7, <2>8, AmountAdd
  <2>10. AmountOf(Image(S)) = AmountOf(S)
    BY <2>3, <2>4, <2>5, <2>9
  <2> QED BY <1>3, <2>10
<1> QED BY <1>5, <1>6

LEMMA StartBooks == Init => BooksInv
<1> SUFFICES ASSUME Init PROVE BooksInv
  OBVIOUS
<1>1. TypeInv
  BY StartType
<1>2. Before \subseteq Row /\ IsFiniteSet(Before) /\ Cardinality(Before) \in Nat
      /\ \A r \in Before : r.id <= Cardinality(Before) /\ \A s \in Before : s.id = r.id => s = r
  BY ConstantsAssumption, FS_CardinalityType DEF Row
<1>3. topups = Before /\ charges = {[r EXCEPT !.after = 0] : r \in Before} /\ nextId = Cardinality(Before) + 1
  BY DEF Init
<1>4. RowsKnown
  <2>1. IsFiniteSet(charges)
    BY <1>2, <1>3, ImageFinite
  <2>2. UniqueIds(topups)
    BY <1>2, <1>3 DEF UniqueIds
  <2>3. UniqueIds(charges)
    <3>1. ASSUME NEW r \in Before, NEW s \in Before,
                 [r EXCEPT !.after = 0].id = [s EXCEPT !.after = 0].id
          PROVE  [r EXCEPT !.after = 0] = [s EXCEPT !.after = 0]
      <4>1. r.id = s.id
        BY <1>2, <3>1 DEF Row
      <4> QED BY <1>2, <4>1
    <3> QED BY <1>3, <3>1 DEF UniqueIds
  <2>4. \A r \in topups \cup charges : r.id < nextId
    BY <1>2, <1>3 DEF Row
  <2> QED BY <1>2, <1>3, <2>1, <2>2, <2>3, <2>4 DEF RowsKnown
<1>5. \A w \in Workers : Agrees(task[w], nextId)
  BY <1>4, IdleAgrees DEF Init
<1>6. config.balance = Expected
  <2>1. AmountOf(topups) = AmountOf(charges)
    BY <1>3, SameAmounts
  <2>2. TakenOf(took) = 0
    <3> DEFINE f == [r \in Records |-> took[r] * Cost]
    <3>1. \A r \in Records : f[r] = 0
      BY ConstantsAssumption DEF Init
    <3>2. f \in [Records -> Int]
      BY <3>1
    <3> HIDE DEF f
    <3>3. Sum(f) = 0
      BY <3>1, <3>2, FiniteRecords, SumZero
    <3> QED BY <3>3 DEF TakenOf, f
  <2>3. PendingOf(task) = 0
    <3> DEFINE f == [v \in Workers |-> Pending(task[v])]
    <3>1. \A v \in Workers : f[v] = 0
      BY <1>4, IdleAgrees DEF Init
    <3>2. f \in [Workers -> Int]
      BY <3>1
    <3> HIDE DEF f
    <3>3. Sum(f) = 0
      BY <3>1, <3>2, ConstantsAssumption, SumZero
    <3> QED BY <3>3 DEF PendingOf, f
  <2>4. config.balance = Opening /\ forgiven = 0
    BY DEF Init
  <2>5. AmountOf(topups) \in Int /\ Opening \in Int
    BY <1>1, <1>4, BooksTypes
  <2> QED BY <2>1, <2>2, <2>3, <2>4, <2>5 DEF Expected
<1> QED BY <1>4, <1>5, <1>6 DEF BooksInv

(* The books are right whenever no request is being served, for any        *)
(* numbers of requests and calls: a request owes the tables just what it   *)
(* has taken from or added to the balance, and a row is found again by its *)
(* id.                                                                     *)
THEOREM BooksReconciled == Spec => []Reconciled
<1>1. TypeInv /\ BooksInv => Reconciled
  <2> SUFFICES ASSUME TypeInv, BooksInv, Quiet, ~raced, ~torn
               PROVE  config.balance = Opening + Total(Amount, topups) - Total(Amount, charges)
                                         - Total(Taken, Records) + forgiven
    BY DEF Reconciled
  <2>1. RowsKnown /\ config.balance = Expected
    BY DEF BooksInv
  <2>2. Total(Amount, topups) = AmountOf(topups) /\ Total(Amount, charges) = AmountOf(charges)
    BY <2>1, TotalAmount DEF AmountOf, RowsKnown, TypeInv, TypeOK, TablesOK
  <2>3. Total(Taken, Records) = TakenOf(took)
    BY TotalTaken DEF TypeInv, TypeOK, HistoryOK
  <2>4. PendingOf(task) = 0
    <3> DEFINE f == [v \in Workers |-> Pending(task[v])]
    <3>1. \A v \in Workers : f[v] = 0
      BY DEF Quiet, Pending
    <3>2. f \in [Workers -> Int]
      BY <3>1
    <3> HIDE DEF f
    <3>3. Sum(f) = 0
      BY <3>1, <3>2, ConstantsAssumption, SumZero
    <3> QED BY <3>3 DEF PendingOf, f
  <2>5. /\ AmountOf(topups) \in Int /\ AmountOf(charges) \in Int /\ TakenOf(took) \in Int
        /\ forgiven \in Int /\ Opening \in Int
    BY <2>1, BooksTypes
  <2> QED BY <2>1, <2>2, <2>3, <2>4, <2>5 DEF Expected
<1>2. TypeInv /\ BooksInv /\ [Next]_vars => (TypeInv /\ BooksInv)'
  BY StepType, StepBooks
<1> QED BY <1>1, <1>2, StartType, StartBooks, PTL DEF Spec
=============================================================================
