------------------------- MODULE SecurityAgentProofs -------------------------
(***************************************************************************)
(* No rule is deleted for another, the rules of administrators agree, and  *)
(* fail2ban runs what is on disk: for any addresses and rules, any number  *)
(* of refreshes and requests at a time, and any faults.                    *)
(***************************************************************************)
EXTENDS SecurityAgent, WellFoundedInduction, FiniteSetTheorems, TLAPS

Ruled == [id : Ids, handle : Nat]       \* a row that names a rule

(* What a worker holds, by where it is.                                    *)
Fits(t) ==
  /\ t.pc = "idle" => t = Idle
  /\ t.todo \subseteq Ips /\ t.rows \subseteq Ruled
  /\ t.pc = "found" => t.id \in Ips
  /\ t.pc \in {"added", "record"} => IF t.op = "addRule" THEN t.id \in Manual /\ ~t.flag ELSE t.id \in Ips
  /\ t.pc = "deleted" => t.op = "deleteRule" /\ t.id \in Ids
  /\ t.pc \in {"remove", "drop"} => t.id \in Ips
  /\ t.pc \in {"save", "write"} => t.id = NoId
  /\ t.pc \in {"orphans", "drop"} => \A r \in t.rows : r.id \in Ips
  /\ t.pc = "drop" => \A r \in t.rows : r.id = t.id
  /\ t.op = "addRule" => t.pc \in {"added", "record"} \/ (t.pc \in {"save", "write"} /\ t.then = "idle")
  /\ t.op = "deleteRule" => t.pc = "deleted" \/ (t.pc \in {"save", "write"} /\ t.then = "idle")
  /\ t.op = "ban" => t.pc \in {"loop", "found", "added", "record"} \/ (t.pc \in {"save", "write"} /\ t.then = "idle")
  /\ t.pc \in {"jail", "jailCopy", "filter", "filterCopy", "reload"} => t.op = "config"
  /\ t.pc = "restore" => t.op = "start"

TasksOK ==
  /\ task \in [Workers -> Task]
  /\ \A w \in Workers : Fits(task[w])

KernelOK ==
  /\ kernel \subseteq [id : Ids, handle : Nat \ {0}] /\ nextHandle \in Nat \ {0}
  /\ \A r \in kernel : r.handle < nextHandle
  /\ \A r, s \in kernel : r.handle = s.handle => r = s

StoreOK ==
  /\ bans \subseteq Ips
  /\ rules \subseteq Ruled
  /\ file = Garbled \/ file \subseteq Ruled
  /\ live \in [Files -> Nat] /\ mirror \in [Files -> Nat] /\ active \in [Files -> Nat]
  /\ events \in 0 .. MaxEvents /\ failed \in BOOLEAN /\ crashed \in BOOLEAN

(* The agent that starts does one thing at a time.                         *)
ControlOK ==
  /\ up \in {"down", "starting", "up"}
  /\ up = "down" => \A w \in Workers : task[w] = Idle
  /\ up = "starting" <=> \E w \in Workers : task[w].op = "start"
  /\ \A v \in Workers : task[v].op = "start" => \A w \in Workers \ {v} : task[w] = Idle

Shape == TasksOK /\ KernelOK /\ StoreOK /\ ControlOK

-----------------------------------------------------------------------------
LEMMA Least == ASSUME NEW S, S \subseteq Nat, S # {} PROVE \E x \in S : \A y \in S : x <= y
<1> DEFINE R == {ss \in Nat \X Nat : ss[1] < ss[2]}
<1>1. IsWellFoundedOn(R, Nat)
  BY NatLessThanWellFounded DEF OpToRel
<1> HIDE DEF R
<1>2. PICK x \in S : \A y \in S : ~ (<<y, x>> \in R)
  BY <1>1, WFMin
<1>3. ASSUME NEW y \in S PROVE x <= y
  <2>1. ~ (y < x)
    BY <1>2 DEF R
  <2> QED BY <2>1
<1> QED BY <1>3

(* The handle of a set of rules is that of one of them.                    *)
LEMMA FirstIsOne ==
  ASSUME NEW S, S \subseteq Ruled
  PROVE  (S = {} /\ First(S) = NoHandle) \/ (S # {} /\ \E r \in S : First(S) = r.handle)
<1>1. CASE S = {}
  BY <1>1 DEF First
<1>2. CASE S # {}
  <2> DEFINE H == {r.handle : r \in S}
  <2>1. H \subseteq Nat /\ H # {}
    BY <1>2 DEF Ruled
  <2>2. \E x \in H : \A y \in H : x <= y
    <3> HIDE DEF H
    <3> QED BY <2>1, Least
  <2>3. Min(H) \in H
    BY <2>2 DEF Min
  <2> QED BY <2>3, <1>2 DEF First
<1> QED BY <1>1, <1>2

LEMMA FoundOne ==
  ASSUME KernelOK, NEW id \in Ids
  PROVE  \/ Found(id) = NoHandle /\ \A r \in kernel : r.id # id
         \/ \E r \in kernel : Found(id) = r.handle /\ Begins(id, r.id)
<1> DEFINE S == {r \in kernel : Begins(id, r.id)}
<1>1. S \subseteq Ruled
  BY DEF KernelOK, Ruled
<1>2. (S = {} /\ First(S) = NoHandle) \/ (S # {} /\ \E r \in S : First(S) = r.handle)
  <2> HIDE DEF S
  <2> QED BY <1>1, FirstIsOne
<1> QED BY <1>2 DEF Found, Begins

(* Only names of bans begin alike.                                         *)
LEMMA ManualBegins ==
  ASSUME NEW id, NEW other, Begins(id, other), id \in Manual \/ other \in Manual
  PROVE  id = other
BY AgentAssumption DEF Begins

LEMMA BanBegins ==
  ASSUME NEW id \in Ips, NEW other, Begins(id, other)
  PROVE  other \in Ips
BY AgentAssumption DEF Begins

-----------------------------------------------------------------------------
LEMMA IdleFits == Idle \in Task /\ Fits(Idle)
BY DEF Idle, Task, Fits, Ruled, AgentOps, Row, Ids, NoId, NoHandle

LEMMA GotoFits ==
  ASSUME TasksOK, NEW w \in Workers, NEW t \in Task, Fits(t), Goto(w, t)
  PROVE  TasksOK'
BY DEF TasksOK, Goto

(* A worker that is at work goes on with its operation, with a refresh, or *)
(* ends it.                                                                *)
LEMMA GotoWorks ==
  ASSUME TasksOK, ControlOK, NEW w \in Workers, NEW t \in Task, Fits(t), Goto(w, t), up' = up,
         task[w].pc # "idle",
         t.op = task[w].op \/ (t.op # "start" /\ task[w].op # "start") \/ (t = Idle /\ task[w].op # "start")
  PROVE  TasksOK' /\ ControlOK'
<1>1. TasksOK'
  BY GotoFits
<1>2. task[w] # Idle /\ Idle.op # "start"
  BY DEF Idle
<1>3. up # "down"
  BY <1>2 DEF ControlOK
<1>4. \A v \in Workers : task'[v] = IF v = w THEN t ELSE task[v]
  BY DEF Goto, TasksOK
<1>5. (\E v \in Workers : task'[v].op = "start") <=> (\E v \in Workers : task[v].op = "start")
  BY <1>2, <1>4
<1>6. ASSUME NEW v \in Workers, task'[v].op = "start", NEW u \in Workers \ {v} PROVE task'[u] = Idle
  BY <1>2, <1>4, <1>6 DEF ControlOK
<1> QED BY <1>1, <1>3, <1>5, <1>6 DEF ControlOK

(* A request, or a refresh, is taken by the agent that is up.              *)
LEMMA GotoAsked ==
  ASSUME TasksOK, ControlOK, NEW w \in Workers, NEW t \in Task, Fits(t), Goto(w, t), up' = up,
         up = "up", t.op # "start"
  PROVE  TasksOK' /\ ControlOK'
<1>1. TasksOK'
  BY GotoFits
<1>2. \A v \in Workers : task'[v] = IF v = w THEN t ELSE task[v]
  BY DEF Goto, TasksOK
<1>3. \A v \in Workers : task'[v].op # "start"
  BY <1>2 DEF ControlOK
<1> QED BY <1>1, <1>3 DEF ControlOK

-----------------------------------------------------------------------------
(* A handle that is remembered for a rule is that of no other rule but,    *)
(* when its name begins that of another ban, the other ban's.  A row read  *)
(* from the chain has its own.                                             *)
Fresh(r) ==
  /\ r.handle < nextHandle
  /\ \A k \in kernel : k.handle = r.handle => Begins(r.id, k.id)

Own(r) ==
  /\ r.handle < nextHandle
  /\ \A k \in kernel : k.handle = r.handle => k.id = r.id

Restoring(r) == \E w \in Workers : task[w].pc = "restore" /\ r \in task[w].rows

TaskFresh(t) ==
  /\ t.pc = "orphans" => \A r \in t.rows : Own(r)
  /\ t.pc = "drop" => \A r \in t.rows : Fresh(r)
  /\ t.pc = "record" => Fresh([id |-> t.id, handle |-> t.handle])

HandlesOK ==
  ~failed => /\ \A r \in rules : Fresh(r) \/ Restoring(r)
             /\ \A w \in Workers : TaskFresh(task[w])

-----------------------------------------------------------------------------
Adds(w, id)    == task[w].op = "addRule" /\ task[w].id = id
Deletes(w, id) == task[w].op = "deleteRule" /\ task[w].id = id

(* A rule that is being added is in the chain and not yet in the list, and *)
(* one that is being deleted has left the chain.                           *)
ManualOK ==
  ~failed /\ ~crashed =>
    /\ up = "up"
    /\ \A r, s \in kernel : r.id = s.id /\ r.id \in Manual => r = s
    /\ \A id \in Manual :
         /\ ~BusyWith(id) => (id \in IdsOf(kernel) <=> id \in IdsOf(rules))
         /\ \A w \in Workers : Deletes(w, id) => id \notin IdsOf(kernel)
         /\ \A w \in Workers : Adds(w, id) =>
              /\ id \in IdsOf(kernel) /\ id \notin IdsOf(rules)
              /\ \A v \in Workers \ {w} : ~Adds(v, id)

Changing(t) == t.op = "config" /\ t.pc \in {"jailCopy", "filter", "filterCopy", "reload"}

ConfigOK == ~failed /\ up # "down" => active = live \/ \E w \in Workers : Changing(task[w])
-----------------------------------------------------------------------------
LEMMA KernelStays == ASSUME KernelOK, UNCHANGED <<kernel, nextHandle>> PROVE KernelOK'
BY DEF KernelOK

LEMMA KernelAdds == ASSUME KernelOK, NEW id \in Ids, AddRule(id) PROVE KernelOK'
<1> DEFINE new == [id |-> id, handle |-> nextHandle]
<1>1. kernel' = kernel \cup {new} /\ nextHandle' = nextHandle + 1
  BY DEF AddRule
<1>2. new \in [id : Ids, handle : Nat \ {0}] /\ new.handle = nextHandle
  BY DEF KernelOK
<1> HIDE DEF new
<1>3. \A r \in kernel : r.handle \in Nat /\ r.handle < nextHandle
  BY DEF KernelOK
<1>4. \A r, s \in kernel' : r.handle = s.handle => r = s
  BY <1>1, <1>2, <1>3 DEF KernelOK
<1>5. \A r \in kernel' : r.handle < nextHandle'
  BY <1>1, <1>2, <1>3 DEF KernelOK
<1> QED BY <1>1, <1>2, <1>4, <1>5 DEF KernelOK

LEMMA KernelDrops == ASSUME KernelOK, NEW h, DeleteHandle(h), UNCHANGED nextHandle PROVE KernelOK'
BY DEF KernelOK, DeleteHandle

LEMMA CountsKept ==
  ASSUME StoreOK, Works \/ Fails \/ Accepted
  PROVE  events' \in 0 .. MaxEvents /\ failed' \in BOOLEAN
<1>1. events' = events \/ (events < MaxEvents /\ events' = events + 1)
  BY DEF Works, Fails, Accepted, Event
<1>2. events \in 0 .. MaxEvents
  BY DEF StoreOK
<1>3. events' \in 0 .. MaxEvents
  BY <1>1, <1>2, AgentAssumption
<1>4. failed' = failed \/ failed' = TRUE
  BY DEF Works, Fails, Accepted
<1>5. failed' \in BOOLEAN
  BY <1>4 DEF StoreOK
<1> QED BY <1>3, <1>5

LEMMA StoreStays ==
  ASSUME StoreOK, UNCHANGED <<bans, rules, file, live, mirror, active, crashed>>, Works \/ Fails \/ Accepted
  PROVE  StoreOK'
BY CountsKept DEF StoreOK

LEMMA SaveFits ==
  ASSUME TasksOK, NEW w \in Workers, NEW then \in {"idle", "loop", "list"},
         task[w].op \in {"addRule", "deleteRule", "ban"} => then = "idle"
  PROVE  LET t == Save(task[w], then) IN t \in Task /\ Fits(t) /\ t.op = task[w].op
<1>1. task[w] \in Task /\ Fits(task[w])
  BY DEF TasksOK
<1>2. Save(task[w], then) \in Task
  BY ZenonT(30), <1>1, IdleFits DEF Save, Task, Idle
<1> DEFINE t == Save(task[w], then)
<1>3. /\ t.op = task[w].op /\ t.pc = "save" /\ t.then = then /\ t.todo = task[w].todo
      /\ t.id = NoId /\ t.rows = {}
  BY <1>1 DEF Save, Idle, Task
<1> HIDE DEF t
<1>4. Fits(t)
  BY <1>1, <1>3 DEF Fits
<1> QED BY <1>2, <1>3, <1>4 DEF t

LEMMA ReturnedFits ==
  ASSUME TasksOK, NEW w \in Workers, task[w].pc = "found"
  PROVE  LET t == Returned(task[w]) IN t \in Task /\ Fits(t) /\ (t.op = task[w].op \/ (t = Idle /\ task[w].op # "start"))
<1>1. task[w] \in Task /\ Fits(task[w])
  BY DEF TasksOK
<1>2. Returned(task[w]) \in Task
  BY <1>1, IdleFits DEF Returned, Task, Idle
<1> QED BY <1>1, <1>2, IdleFits DEF Returned, Idle, Fits, Task

-----------------------------------------------------------------------------
(* Every step of a worker keeps the shape of the state.                    *)
LEMMA WorkerIs ==
  ASSUME TasksOK, NEW w \in Workers
  PROVE  /\ task[w] \in Task /\ Fits(task[w])
         /\ task[w].rows \subseteq Ruled /\ task[w].todo \subseteq Ips
BY DEF TasksOK, Fits

LEMMA RefreshShape ==
  ASSUME Shape, NEW w \in Workers, refreshFail2banState(w)
  PROVE  Shape'
<1> DEFINE t == [Idle EXCEPT !.op = "refresh", !.pc = "list"]
<1>1. t \in Task /\ Fits(t) /\ t.op = "refresh"
  BY IdleFits DEF Task, Fits, Idle
<1>2. Goto(w, t) /\ up = "up" /\ up' = up
  BY DEF refreshFail2banState
<1> HIDE DEF t
<1>3. TasksOK' /\ ControlOK'
  BY <1>1, <1>2, GotoAsked DEF Shape
<1>4. KernelOK' /\ StoreOK'
  BY KernelStays DEF refreshFail2banState, Shape, StoreOK, host, store, config, bounds
<1> QED BY <1>3, <1>4 DEF Shape

LEMMA ListShape ==
  ASSUME Shape, NEW w \in Workers, listBans(w)
  PROVE  Shape'
<1>1. PICK seen \in {bans, {}} :
        /\ task[w].pc = "list" /\ (Works \/ Fails)
        /\ Goto(w, [Idle EXCEPT !.op = Syncs(task[w]), !.seen = seen, !.todo = seen, !.pc = "loop"])
  BY DEF listBans, Await, At
<1> DEFINE t == [Idle EXCEPT !.op = Syncs(task[w]), !.seen = seen, !.todo = seen, !.pc = "loop"]
<1>2. seen \subseteq Ips
  BY DEF Shape, StoreOK
<1>3. task[w] \in Task /\ Fits(task[w])
  BY WorkerIs DEF Shape
<1>4. task[w].op \notin {"addRule", "deleteRule"}
  BY <1>1, <1>3 DEF Fits
<1>a. PICK op \in {"start", "refresh"} : op = Syncs(task[w])
  BY DEF Syncs
<1>b. [Idle EXCEPT !.op = op, !.seen = seen, !.todo = seen, !.pc = "loop"] \in Task
  BY <1>2, IdleFits DEF Task, Idle, Ids
<1>5. t \in Task
  BY <1>a, <1>b
<1>6. /\ t.op = Syncs(task[w]) /\ t.pc = "loop" /\ t.todo = seen /\ t.rows = {} /\ t.id = NoId
      /\ t.op = task[w].op \/ (t.op = "refresh" /\ task[w].op # "start")
  BY DEF Idle, Syncs
<1>7. Goto(w, t)
  BY <1>1
<1> HIDE DEF t
<1>8. Fits(t)
  BY <1>2, <1>4, <1>6 DEF Fits
<1>9. UNCHANGED <<host, up, store, config, crashed>>
  BY DEF listBans, Await
<1>10. TasksOK' /\ ControlOK'
  BY <1>1, <1>5, <1>6, <1>7, <1>8, <1>9, GotoWorks DEF Shape
<1>11. KernelOK' /\ StoreOK'
  BY <1>1, <1>9, KernelStays, StoreStays DEF Shape, host, store, config
<1> QED BY <1>10, <1>11 DEF Shape

LEMMA RuledRow == Ruled \subseteq Row
BY DEF Ruled, Row

LEMMA KernelIsRuled == ASSUME KernelOK PROVE kernel \subseteq Ruled
BY DEF KernelOK, Ruled

LEMMA EnsureShape ==
  ASSUME Shape, NEW w \in Workers, ensureBanFirewallRule(w)
  PROVE  Shape'
<1>1. PICK id \in task[w].todo, h \in {NoHandle} \cup {r.handle : r \in kernel} :
        /\ Await(w, "loop") /\ findRuleHandle(id, h)
        /\ Goto(w, [task[w] EXCEPT !.id = id, !.todo = @ \ {id}, !.flag = id \in IdsOf(rules),
                             !.handle = h, !.pc = IF h = NoHandle THEN "found" ELSE "record"])
  BY DEF ensureBanFirewallRule
<1> DEFINE known == id \in IdsOf(rules)
           next  == IF h = NoHandle THEN "found" ELSE "record"
           t     == [task[w] EXCEPT !.id = id, !.todo = @ \ {id}, !.flag = known, !.handle = h, !.pc = next]
<1>2. task[w] \in Task /\ Fits(task[w]) /\ task[w].pc = "loop" /\ id \in Ips
  BY <1>1, WorkerIs DEF Shape, Await, At
<1>3. h \in Nat
  BY KernelIsRuled DEF Shape, NoHandle, Ruled
<1>4. t \in Task
  <2>1. known \in BOOLEAN /\ next \in {"found", "record"} /\ id \in Ids
    BY <1>2 DEF Ids
  <2> HIDE DEF known, next
  <2> QED BY <1>2, <1>3, <2>1 DEF Task
<1>5. /\ t.op = task[w].op /\ t.pc \in {"found", "record"} /\ t.todo \subseteq Ips
      /\ t.rows = task[w].rows /\ t.id = id
  BY <1>2 DEF Task, Fits
<1>6. Goto(w, t)
  BY <1>1
<1> HIDE DEF t
<1>7. task[w].op \notin {"addRule", "deleteRule"}
  BY <1>2 DEF Fits
<1>8. Fits(t)
  BY <1>2, <1>5, <1>7 DEF Fits
<1>9. UNCHANGED <<host, up, store, config, crashed>> /\ (Works \/ Fails)
  BY <1>1 DEF ensureBanFirewallRule, Await, findRuleHandle
<1>10. TasksOK' /\ ControlOK'
  BY <1>2, <1>4, <1>5, <1>6, <1>8, <1>9, GotoWorks DEF Shape
<1>11. KernelOK' /\ StoreOK'
  BY <1>9, KernelStays, StoreStays DEF Shape, host, store, config
<1> QED BY <1>10, <1>11 DEF Shape

LEMMA AddShape ==
  ASSUME Shape, NEW w \in Workers, addFirewallRule(w)
  PROVE  Shape'
<1>1. /\ task[w].pc = "found" /\ UNCHANGED <<bans, up, rules, file, live, mirror, active, crashed>>
      /\ \/ AddRule(task[w].id) /\ Works /\ Goto(w, [task[w] EXCEPT !.pc = "added"])
         \/ Fails /\ Goto(w, Returned(task[w])) /\ UNCHANGED <<kernel, nextHandle>>
  BY DEF addFirewallRule, Await, At, store, config
<1>2. task[w] \in Task /\ Fits(task[w])
  BY WorkerIs DEF Shape
<1>3. task[w].id \in Ips /\ task[w].id \in Ids
  BY <1>1, <1>2 DEF Fits, Ids
<1>4. StoreOK'
  BY <1>1, StoreStays DEF Shape
<1>5. CASE AddRule(task[w].id) /\ Works /\ Goto(w, [task[w] EXCEPT !.pc = "added"])
  <2> DEFINE t == [task[w] EXCEPT !.pc = "added"]
  <2>1. t \in Task
    BY <1>2 DEF Task
  <2>2. /\ t.op = task[w].op /\ t.pc = "added" /\ t.id = task[w].id /\ t.todo = task[w].todo
        /\ t.rows = task[w].rows
    BY <1>2 DEF Task
  <2> HIDE DEF t
  <2>3. Fits(t)
    BY <1>1, <1>2, <1>3, <2>2 DEF Fits
  <2>4. Goto(w, t)
    BY <1>5 DEF t
  <2>5. TasksOK' /\ ControlOK'
    BY <1>1, <2>1, <2>2, <2>3, <2>4, GotoWorks DEF Shape
  <2>6. KernelOK'
    BY <1>3, <1>5, KernelAdds DEF Shape
  <2> QED BY <1>4, <2>5, <2>6 DEF Shape
<1>6. CASE Fails /\ Goto(w, Returned(task[w])) /\ UNCHANGED <<kernel, nextHandle>>
  <2> DEFINE t == Returned(task[w])
  <2>1. t \in Task /\ Fits(t) /\ (t.op = task[w].op \/ (t = Idle /\ task[w].op # "start"))
    BY <1>1, ReturnedFits DEF Shape
  <2>2. Goto(w, t)
    BY <1>6
  <2> HIDE DEF t
  <2>3. TasksOK' /\ ControlOK'
    BY <1>1, <2>1, <2>2, GotoWorks DEF Shape
  <2> QED BY <1>4, <1>6, <2>3, KernelStays DEF Shape
<1> QED BY <1>1, <1>5, <1>6

LEMMA HandleShape ==
  ASSUME Shape, NEW w \in Workers, HandleOfAdded(w)
  PROVE  Shape'
<1>1. PICK h \in {NoHandle} \cup {r.handle : r \in kernel} :
        /\ Await(w, "added") /\ findRuleHandle(task[w].id, h)
        /\ Goto(w, [task[w] EXCEPT !.handle = h, !.pc = "record"])
  BY DEF HandleOfAdded
<1> DEFINE t == [task[w] EXCEPT !.handle = h, !.pc = "record"]
<1>2. task[w] \in Task /\ Fits(task[w]) /\ task[w].pc = "added"
  BY <1>1, WorkerIs DEF Shape, Await, At
<1>3. h \in Nat
  BY KernelIsRuled DEF Shape, NoHandle, Ruled
<1>4. t \in Task
  BY <1>2, <1>3 DEF Task
<1>5. /\ t.op = task[w].op /\ t.pc = "record" /\ t.todo = task[w].todo /\ t.flag = task[w].flag
      /\ t.rows = task[w].rows /\ t.id = task[w].id
  BY <1>2 DEF Task
<1>6. Goto(w, t)
  BY <1>1
<1> HIDE DEF t
<1>7. Fits(t)
  BY <1>2, <1>5 DEF Fits
<1>8. UNCHANGED <<host, up, store, config, crashed>> /\ (Works \/ Fails)
  BY <1>1 DEF HandleOfAdded, Await, findRuleHandle
<1>9. TasksOK' /\ ControlOK'
  BY <1>2, <1>4, <1>5, <1>6, <1>7, <1>8, GotoWorks DEF Shape
<1>10. KernelOK' /\ StoreOK'
  BY <1>8, KernelStays, StoreStays DEF Shape, host, store, config
<1> QED BY <1>9, <1>10 DEF Shape

LEMMA RecordShape ==
  ASSUME Shape, NEW w \in Workers, RecordRule(w)
  PROVE  Shape'
<1> DEFINE row == [id |-> task[w].id, handle |-> task[w].handle]
           then == IF task[w].op \in {"ban", "addRule"} THEN "idle" ELSE "loop"
<1>1. /\ task[w].pc = "record" /\ Works /\ UNCHANGED <<host, up, file, config, crashed>>
      /\ rules' \subseteq rules \cup {row} /\ Goto(w, Save(task[w], then))
  BY DEF RecordRule, Await, At
<1>2. task[w] \in Task /\ Fits(task[w])
  BY WorkerIs DEF Shape
<1>3. row \in Ruled
  BY <1>1, <1>2 DEF Fits, Ruled, Ids, Task
<1>4. task[w].op # "deleteRule"
  BY <1>1, <1>2 DEF Fits
<1>5. StoreOK'
  <2> HIDE DEF row, then
  <2> QED BY <1>1, <1>3, CountsKept DEF Shape, StoreOK, host, config
<1>6. TasksOK' /\ ControlOK'
  <2> DEFINE t == Save(task[w], then)
  <2>1. t \in Task /\ Fits(t) /\ t.op = task[w].op
    <3>1. then \in {"idle", "loop", "list"} /\ (task[w].op \in {"addRule", "deleteRule", "ban"} => then = "idle")
      BY <1>4
    <3> HIDE DEF then
    <3> QED BY <3>1, SaveFits DEF Shape
  <2>2. Goto(w, t)
    BY <1>1
  <2> HIDE DEF t
  <2> QED BY <1>1, <2>1, <2>2, GotoWorks DEF Shape
<1> QED BY <1>1, <1>5, <1>6, KernelStays DEF Shape, host

LEMMA SaveStateShape ==
  ASSUME Shape, NEW w \in Workers, saveState(w)
  PROVE  Shape'
<1> DEFINE t == [task[w] EXCEPT !.rows = rules, !.pc = "write"]
<1>1. /\ task[w].pc = "save" /\ Works /\ UNCHANGED <<host, up, store, config, crashed>>
      /\ Goto(w, t)
  BY DEF saveState, Await, At
<1>2. task[w] \in Task /\ Fits(task[w]) /\ rules \subseteq Ruled
  BY WorkerIs DEF Shape, StoreOK
<1>3. t \in Task
  BY <1>2, RuledRow DEF Task
<1>4. /\ t.op = task[w].op /\ t.pc = "write" /\ t.todo = task[w].todo /\ t.then = task[w].then
      /\ t.rows = rules /\ t.id = task[w].id
  BY <1>2 DEF Task
<1> HIDE DEF t
<1>5. Fits(t)
  BY <1>1, <1>2, <1>4 DEF Fits
<1>6. TasksOK' /\ ControlOK'
  BY <1>1, <1>3, <1>4, <1>5, GotoWorks DEF Shape
<1> QED BY <1>1, <1>6, KernelStays, StoreStays DEF Shape, host, store, config

LEMMA WriteShape ==
  ASSUME Shape, NEW w \in Workers, WriteFile(w)
  PROVE  Shape'
<1> DEFINE on == [task[w] EXCEPT !.pc = task[w].then, !.then = "idle", !.rows = {}]
           t  == IF task[w].then = "idle" THEN Idle ELSE on
<1>1. /\ task[w].pc = "write" /\ Goto(w, t) /\ UNCHANGED <<host, rules, config, crashed>>
      /\ up' = IF task[w].op = "start" /\ task[w].then = "idle" THEN "up" ELSE up
      /\ Works \/ Fails
  BY DEF WriteFile, Await, At
<1>2. file' \in {task[w].rows, Garbled, file}
  BY DEF WriteFile
<1>3. task[w] \in Task /\ Fits(task[w]) /\ task[w].rows \subseteq Ruled
  BY WorkerIs DEF Shape
<1>4. StoreOK'
  BY <1>1, <1>2, <1>3, CountsKept DEF Shape, StoreOK, host, config
<1>5. CASE task[w].then # "idle"
  <2>1. on \in Task /\ on.op = task[w].op /\ on.pc = task[w].then /\ on.todo = task[w].todo
    BY <1>3, <1>5 DEF Task
  <2>2. on.rows = {} /\ on.id = task[w].id /\ on.pc \in {"loop", "list"}
    BY <1>3, <1>5 DEF Task
  <2>3. Goto(w, on) /\ up' = up
    BY <1>1, <1>5
  <2> HIDE DEF on
  <2>4. Fits(on)
    BY <1>1, <1>3, <1>5, <2>1, <2>2 DEF Fits
  <2> QED BY <1>1, <1>4, <2>1, <2>3, <2>4, GotoWorks, KernelStays DEF Shape, host
<1>6. CASE task[w].then = "idle" /\ task[w].op # "start"
  <2>1. Goto(w, Idle) /\ up' = up
    BY <1>1, <1>6
  <2> QED BY <1>1, <1>4, <1>6, <2>1, IdleFits, GotoWorks, KernelStays DEF Shape, host
<1>7. CASE task[w].then = "idle" /\ task[w].op = "start"
  <2>1. Goto(w, Idle) /\ up' = "up"
    BY <1>1, <1>7
  <2>2. TasksOK'
    BY <2>1, IdleFits, GotoFits DEF Shape
  <2>3. \A v \in Workers : task'[v] = Idle
    BY <1>7, <2>1 DEF Shape, TasksOK, ControlOK, Goto
  <2>4. ControlOK'
    BY <2>1, <2>3 DEF ControlOK, Idle
  <2> QED BY <1>1, <1>4, <2>2, <2>4, KernelStays DEF Shape, host
<1> QED BY <1>5, <1>6, <1>7

LEMMA ListRulesShape ==
  ASSUME Shape, NEW w \in Workers, listPortalBanRulesFromNft(w)
  PROVE  Shape'
<1>1. PICK rows \in {BanRules, {}} :
        /\ Await(w, "loop") /\ task[w].op # "ban" /\ (Works \/ Fails)
        /\ Goto(w, [task[w] EXCEPT !.rows = rows, !.pc = "orphans"])
  BY DEF listPortalBanRulesFromNft
<1> DEFINE t == [task[w] EXCEPT !.rows = rows, !.pc = "orphans"]
<1>2. task[w] \in Task /\ Fits(task[w]) /\ task[w].pc = "loop"
  BY <1>1, WorkerIs DEF Shape, Await, At
<1>3. rows \subseteq Ruled /\ \A r \in rows : r.id \in Ips
  BY KernelIsRuled DEF Shape, BanRules
<1>4. t \in Task
  BY <1>2, <1>3, RuledRow DEF Task
<1>5. t.op = task[w].op /\ t.pc = "orphans" /\ t.todo = task[w].todo /\ t.rows = rows
  BY <1>2 DEF Task
<1>6. Goto(w, t)
  BY <1>1
<1> HIDE DEF t
<1>7. Fits(t)
  BY <1>1, <1>2, <1>3, <1>5 DEF Fits
<1>8. UNCHANGED <<host, up, store, config, crashed>>
  BY DEF listPortalBanRulesFromNft, Await
<1>9. TasksOK' /\ ControlOK'
  BY <1>2, <1>4, <1>5, <1>6, <1>7, <1>8, GotoWorks DEF Shape
<1> QED BY <1>1, <1>8, <1>9, KernelStays, StoreStays DEF Shape, host, store, config

LEMMA OrphanShape ==
  ASSUME Shape, NEW w \in Workers, DeleteOrphan(w)
  PROVE  Shape'
<1>1. PICK r \in Orphans(task[w]) :
        /\ Await(w, "orphans")
        /\ (DeleteHandle(r.handle) /\ Works) \/ (UNCHANGED kernel /\ Fails)
        /\ Goto(w, [task[w] EXCEPT !.rows = @ \ {r}])
  BY DEF DeleteOrphan
<1> DEFINE t == [task[w] EXCEPT !.rows = @ \ {r}]
<1>2. task[w] \in Task /\ Fits(task[w]) /\ task[w].pc = "orphans"
  BY <1>1, WorkerIs DEF Shape, Await, At
<1>3. t \in Task
  BY <1>2 DEF Task
<1>4. t.op = task[w].op /\ t.pc = "orphans" /\ t.todo = task[w].todo /\ t.rows = task[w].rows \ {r}
  BY <1>2 DEF Task
<1>5. Goto(w, t)
  BY <1>1
<1> HIDE DEF t
<1>6. Fits(t)
  BY <1>2, <1>4 DEF Fits
<1>7. UNCHANGED <<bans, nextHandle, up, store, config, crashed>>
  BY DEF DeleteOrphan, Await
<1>8. TasksOK' /\ ControlOK'
  BY <1>2, <1>3, <1>4, <1>5, <1>6, <1>7, GotoWorks DEF Shape
<1>9. KernelOK' /\ StoreOK'
  BY <1>1, <1>7, KernelStays, KernelDrops, StoreStays DEF Shape, store, config
<1> QED BY <1>8, <1>9 DEF Shape

LEMMA KeptRuled ==
  ASSUME rules \subseteq Ruled, NEW t, t.rows \subseteq Ruled
  PROVE  Kept(t) \subseteq Ruled
<1> SUFFICES ASSUME NEW q \in Kept(t) PROVE q \in Ruled
  OBVIOUS
<1>1. PICK r \in rules :
        q = IF r.id \in Ips /\ With(t.rows, r.id) # {} THEN [r EXCEPT !.handle = First(With(t.rows, r.id))] ELSE r
  BY DEF Kept
<1>2. CASE r.id \in Ips /\ With(t.rows, r.id) # {}
  <2> DEFINE S == With(t.rows, r.id)
  <2>1. S \subseteq Ruled /\ S # {}
    BY <1>2 DEF With
  <2> HIDE DEF S
  <2>2. First(S) \in Nat
    BY <2>1, FirstIsOne DEF Ruled
  <2>3. q = [r EXCEPT !.handle = First(S)]
    BY <1>1, <1>2 DEF S
  <2> QED BY <2>2, <2>3 DEF Ruled
<1> QED BY <1>1, <1>2

LEMMA DropRowsShape ==
  ASSUME Shape, NEW w \in Workers, DropRows(w)
  PROVE  Shape'
<1> DEFINE t == Save(task[w], "idle")
<1>1. /\ task[w].pc = "orphans" /\ Works /\ rules' = Kept(task[w]) /\ Goto(w, t)
      /\ UNCHANGED <<host, up, file, config, crashed>>
  BY DEF DropRows, Await, At
<1>2. t \in Task /\ Fits(t) /\ t.op = task[w].op
  BY SaveFits DEF Shape
<1> HIDE DEF t
<1>3. TasksOK' /\ ControlOK'
  BY <1>1, <1>2, GotoWorks DEF Shape
<1>4. rules' \subseteq Ruled
  BY <1>1, WorkerIs, KeptRuled DEF Shape, StoreOK
<1>5. StoreOK'
  BY <1>1, <1>4, CountsKept DEF Shape, StoreOK, host, config
<1> QED BY <1>1, <1>3, <1>5, KernelStays DEF Shape, host

LEMMA RemoveShape ==
  ASSUME Shape, NEW w \in Workers, removeBanFirewallRule(w)
  PROVE  Shape'
<1> DEFINE targets == IF task[w].flag THEN With(rules, task[w].id) ELSE {}
           pc      == IF targets = {} THEN "list" ELSE "drop"
           t       == [task[w] EXCEPT !.rows = targets, !.flag = FALSE, !.pc = pc]
<1>1. /\ task[w].pc = "remove" /\ Works /\ Goto(w, t)
      /\ UNCHANGED <<host, up, store, config, crashed>>
  BY DEF removeBanFirewallRule, Await, At
<1>2. task[w] \in Task /\ Fits(task[w]) /\ task[w].id \in Ips
  BY <1>1, WorkerIs DEF Shape, Fits
<1>3. targets \subseteq Ruled /\ (\A r \in targets : r.id \in Ips /\ r.id = task[w].id) /\ pc \in {"list", "drop"}
  BY <1>2 DEF Shape, StoreOK, With
<1> HIDE DEF targets, pc
<1>4. t \in Task
  BY <1>2, <1>3, RuledRow DEF Task
<1>5. /\ t.op = task[w].op /\ t.pc = pc /\ t.todo = task[w].todo /\ t.rows = targets
      /\ t.id = task[w].id
  BY <1>2 DEF Task
<1> HIDE DEF t
<1>6. Fits(t)
  BY <1>1, <1>2, <1>3, <1>5 DEF Fits
<1>7. TasksOK' /\ ControlOK'
  BY <1>1, <1>4, <1>5, <1>6, GotoWorks DEF Shape
<1> QED BY <1>1, <1>7, KernelStays, StoreStays DEF Shape, host, store, config

LEMMA DropShape ==
  ASSUME Shape, NEW w \in Workers, DropTarget(w)
  PROVE  Shape'
<1>1. PICK r \in task[w].rows :
        /\ Await(w, "drop")
        /\ \/ DeleteHandle(HandleOf(r)) /\ Works /\ Goto(w, [task[w] EXCEPT !.rows = @ \ {r}])
           \/ /\ UNCHANGED kernel /\ (Works \/ Fails)
              /\ Goto(w, [task[w] EXCEPT !.rows = @ \ {r}, !.flag = TRUE])
  BY DEF DropTarget
<1>2. PICK flag \in BOOLEAN : Goto(w, [task[w] EXCEPT !.rows = @ \ {r}, !.flag = flag])
  <2>1. task[w] \in Task
    BY WorkerIs DEF Shape
  <2>2. task[w].flag \in BOOLEAN
        /\ [task[w] EXCEPT !.rows = @ \ {r}, !.flag = task[w].flag] = [task[w] EXCEPT !.rows = @ \ {r}]
    BY <2>1 DEF Task
  <2> QED BY <1>1, <2>2
<1> DEFINE t == [task[w] EXCEPT !.rows = @ \ {r}, !.flag = flag]
<1>3. task[w] \in Task /\ Fits(task[w]) /\ task[w].pc = "drop"
  BY <1>1, WorkerIs DEF Shape, Await, At
<1>4. t \in Task
  BY <1>3 DEF Task
<1>5. /\ t.op = task[w].op /\ t.pc = "drop" /\ t.todo = task[w].todo /\ t.rows = task[w].rows \ {r}
      /\ t.id = task[w].id
  BY <1>3 DEF Task
<1>6. Goto(w, t)
  BY <1>2
<1> HIDE DEF t
<1>7. Fits(t)
  BY <1>3, <1>5 DEF Fits
<1>8. UNCHANGED <<bans, nextHandle, up, store, config, crashed>>
  BY DEF DropTarget, Await
<1>9. TasksOK' /\ ControlOK'
  BY <1>3, <1>4, <1>5, <1>6, <1>7, <1>8, GotoWorks DEF Shape
<1>10. KernelOK' /\ StoreOK'
  BY <1>1, <1>8, KernelStays, KernelDrops, StoreStays DEF Shape, store, config
<1> QED BY <1>9, <1>10 DEF Shape

LEMMA ForgetShape ==
  ASSUME Shape, NEW w \in Workers, Dropped(w) \/ ForgetRule(w)
  PROVE  Shape'
<1>1. PICK then \in {"list", "idle"} :
        /\ task[w].pc = IF then = "list" THEN "drop" ELSE "deleted"
        /\ Goto(w, Save(task[w], then))
  BY DEF Dropped, ForgetRule, Await, At
<1> DEFINE t == Save(task[w], then)
<1>2. task[w] \in Task /\ Fits(task[w]) /\ task[w].pc # "idle"
  BY <1>1, WorkerIs DEF Shape
<1>3. task[w].op \in {"addRule", "deleteRule", "ban"} => then = "idle"
  BY <1>1, <1>2 DEF Fits
<1>4. t \in Task /\ Fits(t) /\ t.op = task[w].op
  BY <1>3, SaveFits DEF Shape
<1>5. Goto(w, t)
  BY <1>1
<1> HIDE DEF t
<1>6. Works /\ UNCHANGED <<host, up, file, config, crashed>> /\ rules' \subseteq rules
  BY DEF Dropped, ForgetRule, Await, Without
<1>7. TasksOK' /\ ControlOK'
  BY <1>2, <1>4, <1>5, <1>6, GotoWorks DEF Shape
<1>8. StoreOK'
  BY <1>6, CountsKept DEF Shape, StoreOK, host, config
<1> QED BY <1>6, <1>7, <1>8, KernelStays DEF Shape, host

(* A step of an update of the configuration goes on to the next file.      *)
LEMMA ConfigGoes ==
  ASSUME Shape, NEW w \in Workers, UNCHANGED <<host, up>>,
         task[w].pc \in {"jail", "jailCopy", "filter", "filterCopy", "reload"},
         Goto(w, [task[w] EXCEPT !.pc = Then[task[w].pc]]) \/ Finish(w)
  PROVE  TasksOK' /\ ControlOK' /\ KernelOK'
<1>1. task[w] \in Task /\ Fits(task[w]) /\ task[w].op = "config"
  BY WorkerIs DEF Shape, Fits
<1>2. CASE Finish(w)
  BY <1>1, <1>2, IdleFits, GotoWorks, KernelStays DEF Finish, Shape, host
<1>3. CASE Goto(w, [task[w] EXCEPT !.pc = Then[task[w].pc]])
  <2> DEFINE pc == Then[task[w].pc]
             t  == [task[w] EXCEPT !.pc = pc]
  <2>1. pc \in {"jailCopy", "filter", "filterCopy", "reload", "list"}
    BY DEF Then
  <2> HIDE DEF pc
  <2>2. t \in Task /\ t.op = "config" /\ t.pc = pc /\ t.todo = task[w].todo /\ t.rows = task[w].rows
    BY <1>1, <2>1 DEF Task
  <2>3. Goto(w, t)
    BY <1>3 DEF pc
  <2> HIDE DEF t
  <2>4. Fits(t)
    BY <1>1, <2>1, <2>2 DEF Fits
  <2> QED BY <1>1, <2>2, <2>3, <2>4, GotoWorks, KernelStays DEF Shape, host
<1> QED BY <1>2, <1>3

LEMMA FilesShape ==
  ASSUME Shape, NEW w \in Workers, writeAndMirror(w) \/ reload(w)
  PROVE  Shape'
<1>1. task[w] \in Task /\ Fits(task[w])
  BY WorkerIs DEF Shape
<1>2. CASE writeAndMirror(w)
  <2>1. PICK f \in Files :
          /\ task[w].pc \in {f, IF f = "jail" THEN "jailCopy" ELSE "filterCopy"}
          /\ \/ /\ Works
                /\ IF task[w].pc = f THEN live' = [live EXCEPT ![f] = task[w].handle] /\ UNCHANGED mirror
                                     ELSE mirror' = [mirror EXCEPT ![f] = task[w].handle] /\ UNCHANGED live
                /\ Goto(w, [task[w] EXCEPT !.pc = Then[task[w].pc]])
             \/ Fails /\ Finish(w) /\ UNCHANGED <<live, mirror>>
    BY <1>2 DEF writeAndMirror
  <2>2. UNCHANGED <<host, up, store, active, crashed>>
    BY <1>2 DEF writeAndMirror, Await
  <2>3. task[w].pc \in {"jail", "jailCopy", "filter", "filterCopy", "reload"}
    BY <2>1 DEF Files
  <2>4. TasksOK' /\ ControlOK' /\ KernelOK'
    BY <2>1, <2>2, <2>3, ConfigGoes DEF Shape, host
  <2>5. task[w].handle \in Nat
    BY <1>1 DEF Task
  <2>6. live' \in [Files -> Nat] /\ mirror' \in [Files -> Nat]
    BY <2>1, <2>5 DEF Shape, StoreOK
  <2> QED BY <2>1, <2>2, <2>4, <2>6, CountsKept DEF Shape, StoreOK, host, store
<1>3. CASE reload(w)
  <2>1. /\ task[w].pc = "reload" /\ UNCHANGED <<host, up, store, live, mirror, crashed>>
        /\ \/ active' = live /\ Works /\ Goto(w, [task[w] EXCEPT !.pc = Then[task[w].pc]])
           \/ Fails /\ Finish(w) /\ UNCHANGED active
    BY <1>3 DEF reload, Await, At
  <2>2. TasksOK' /\ ControlOK' /\ KernelOK'
    BY <2>1, ConfigGoes DEF Shape, host
  <2>3. active' \in [Files -> Nat]
    BY <2>1 DEF Shape, StoreOK
  <2> QED BY <2>1, <2>2, <2>3, CountsKept DEF Shape, StoreOK, host, store
<1> QED BY <1>2, <1>3

LEMMA RestoreShape ==
  ASSUME Shape, NEW w \in Workers, ensureFirewallRule(w)
  PROVE  Shape'
<1>1. PICK r \in task[w].rows :
        /\ Await(w, "restore")
        /\ Works \/ Fails
        /\ AddRule(r.id) \/ UNCHANGED <<kernel, nextHandle>>
        /\ \/ UNCHANGED rules
           \/ \E n \in {NoHandle, IF Found(r.id) = NoHandle THEN nextHandle ELSE Found(r.id)} :
                 rules' = (rules \ {r}) \cup {[r EXCEPT !.handle = n]}
        /\ Goto(w, [task[w] EXCEPT !.rows = @ \ {r}])
  BY DEF ensureFirewallRule
<1> DEFINE t == [task[w] EXCEPT !.rows = @ \ {r}]
           h == IF Found(r.id) = NoHandle THEN nextHandle ELSE Found(r.id)
<1>2. task[w] \in Task /\ Fits(task[w]) /\ task[w].pc = "restore" /\ r \in Ruled
  BY <1>1, WorkerIs DEF Shape, Await, At
<1>3. t \in Task
  BY <1>2 DEF Task
<1>4. t.op = task[w].op /\ t.pc = "restore" /\ t.todo = task[w].todo /\ t.rows = task[w].rows \ {r}
  BY <1>2 DEF Task
<1>5. Goto(w, t)
  BY <1>1
<1> HIDE DEF t
<1>6. Fits(t)
  BY <1>2, <1>4 DEF Fits
<1>7. UNCHANGED <<bans, up, file, config, crashed>>
  BY DEF ensureFirewallRule, Await
<1>8. TasksOK' /\ ControlOK'
  BY <1>2, <1>3, <1>4, <1>5, <1>6, <1>7, GotoWorks DEF Shape
<1>9. r.id \in Ids
  BY <1>2 DEF Ruled
<1>10. KernelOK'
  BY <1>1, <1>9, KernelStays, KernelAdds DEF Shape
<1>11. h \in Nat /\ NoHandle \in Nat
  BY <1>9, FoundOne DEF Shape, KernelOK, NoHandle
<1>12. PICK n \in {NoHandle, h} : rules' \subseteq rules \cup {[r EXCEPT !.handle = n]} /\ (Works \/ Fails)
  BY <1>1
<1> HIDE DEF h
<1>13. [r EXCEPT !.handle = n] \in Ruled
  BY <1>2, <1>11, <1>12 DEF Ruled
<1>14. StoreOK'
  BY <1>7, <1>12, <1>13, CountsKept DEF Shape, StoreOK, config
<1> QED BY <1>8, <1>10, <1>14 DEF Shape

LEMMA SyncShape ==
  ASSUME Shape, NEW w \in Workers, syncFirewallState(w)
  PROVE  Shape'
<1> DEFINE t == Save(task[w], "list")
<1>1. task[w].pc = "restore" /\ Works /\ Goto(w, t) /\ UNCHANGED <<host, up, store, config, crashed>>
  BY DEF syncFirewallState, Await, At
<1>2. task[w].op = "start"
  BY <1>1, WorkerIs DEF Shape, Fits
<1>3. t \in Task /\ Fits(t) /\ t.op = task[w].op
  BY <1>2, SaveFits DEF Shape
<1> HIDE DEF t
<1> QED BY <1>1, <1>3, GotoWorks, KernelStays, StoreStays DEF Shape, host, store, config

-----------------------------------------------------------------------------
LEMMA Asked ==
  ASSUME Shape, NEW w \in Workers, StoreOK', KernelOK', up = "up", up' = up,
         task' = task \/ \E t \in Task : Fits(t) /\ Goto(w, t) /\ t.op # "start"
  PROVE  Shape'
<1>1. CASE task' = task
  BY <1>1 DEF Shape, ControlOK, TasksOK
<1>2. ASSUME NEW t \in Task, Fits(t), Goto(w, t), t.op # "start" PROVE Shape'
  BY <1>2, GotoAsked DEF Shape
<1> QED BY <1>1, <1>2

LEMMA BanShape ==
  ASSUME Shape, NEW w \in Workers, createBan(w) \/ removeBan(w)
  PROVE  Shape'
<1>1. PICK id \in Ips, exact \in BOOLEAN :
        \/ Fails /\ UNCHANGED <<bans, task>>
        \/ /\ Accepted /\ bans' = bans \cup {id}
           /\ Goto(w, [Idle EXCEPT !.op = "ban", !.pc = "loop", !.todo = {id}])
        \/ /\ Accepted /\ bans' = bans \ {id}
           /\ Goto(w, [Idle EXCEPT !.op = "unban", !.id = id, !.flag = exact, !.pc = "remove"])
  BY DEF createBan, removeBan
<1>2. up = "up" /\ UNCHANGED <<kernel, nextHandle, up, store, config, crashed>>
  BY DEF createBan, removeBan, Request
<1>3. KernelOK'
  BY <1>2, KernelStays DEF Shape
<1>4. bans' \subseteq Ips /\ (Fails \/ Accepted)
  BY <1>1 DEF Shape, StoreOK
<1>5. StoreOK'
  BY <1>2, <1>4, CountsKept DEF Shape, StoreOK, store, config
<1>6. task' = task \/ \E t \in Task : Fits(t) /\ Goto(w, t) /\ t.op # "start"
  <2>1. [Idle EXCEPT !.op = "ban", !.pc = "loop", !.todo = {id}] \in Task
    BY IdleFits DEF Idle, Task, AgentOps, Ids
  <2>2. Fits([Idle EXCEPT !.op = "ban", !.pc = "loop", !.todo = {id}])
    BY DEF Idle, Fits
  <2>3. [Idle EXCEPT !.op = "unban", !.id = id, !.flag = exact, !.pc = "remove"] \in Task
    BY IdleFits DEF Idle, Task, AgentOps, Ids
  <2>4. Fits([Idle EXCEPT !.op = "unban", !.id = id, !.flag = exact, !.pc = "remove"])
    BY DEF Idle, Fits
  <2> QED BY <1>1, <2>1, <2>2, <2>3, <2>4 DEF Idle
<1> QED BY <1>2, <1>3, <1>5, <1>6, Asked

LEMMA CreateShape ==
  ASSUME Shape, NEW w \in Workers, createRule(w)
  PROVE  Shape'
<1>1. PICK id \in Manual :
        \/ /\ AddRule(id) /\ Accepted
           /\ Goto(w, [Idle EXCEPT !.op = "addRule", !.id = id, !.pc = "added"])
        \/ Fails /\ UNCHANGED <<kernel, nextHandle, task>>
  BY DEF createRule
<1>2. up = "up" /\ UNCHANGED <<bans, up, store, config, crashed>>
  BY DEF createRule, Request
<1>3. KernelOK'
  BY <1>1, KernelStays, KernelAdds DEF Shape, Ids
<1>4. StoreOK'
  BY <1>1, <1>2, StoreStays DEF Shape, store, config
<1>5. [Idle EXCEPT !.op = "addRule", !.id = id, !.pc = "added"] \in Task
  BY IdleFits DEF Idle, Task, AgentOps, Ids
<1>6. Fits([Idle EXCEPT !.op = "addRule", !.id = id, !.pc = "added"])
  BY DEF Idle, Fits
<1>7. task' = task \/ \E t \in Task : Fits(t) /\ Goto(w, t) /\ t.op # "start"
  BY <1>1, <1>5, <1>6 DEF Idle
<1> QED BY <1>2, <1>3, <1>4, <1>7, Asked

LEMMA DeleteShape ==
  ASSUME Shape, NEW w \in Workers, deleteFirewallRule(w)
  PROVE  Shape'
<1>1. PICK r \in rules :
        /\ Accepted \/ Fails
        /\ DeleteHandle(HandleOf(r)) \/ UNCHANGED kernel
        /\ \/ Goto(w, [Idle EXCEPT !.op = "deleteRule", !.id = r.id, !.pc = "deleted"])
           \/ UNCHANGED task
  BY DEF deleteFirewallRule
<1>2. up = "up" /\ UNCHANGED <<bans, nextHandle, up, store, config, crashed>>
  BY DEF deleteFirewallRule, Request
<1>3. KernelOK'
  BY <1>1, <1>2, KernelStays, KernelDrops DEF Shape
<1>4. StoreOK'
  BY <1>1, <1>2, StoreStays DEF Shape, store, config
<1>5. r.id \in Ids
  BY DEF Shape, StoreOK, Ruled
<1>6. /\ [Idle EXCEPT !.op = "deleteRule", !.id = r.id, !.pc = "deleted"] \in Task
      /\ Fits([Idle EXCEPT !.op = "deleteRule", !.id = r.id, !.pc = "deleted"])
  BY <1>5, IdleFits DEF Idle, Task, AgentOps, Fits
<1>7. task' = task \/ \E t \in Task : Fits(t) /\ Goto(w, t) /\ t.op # "start"
  BY <1>1, <1>5, <1>6 DEF Idle
<1> QED BY <1>2, <1>3, <1>4, <1>7, Asked

LEMMA UpdateShape ==
  ASSUME Shape, NEW w \in Workers, updateFail2banConfig(w)
  PROVE  Shape'
<1> DEFINE t == [Idle EXCEPT !.op = "config", !.handle = events + 1, !.pc = "jail"]
<1>1. up = "up" /\ Accepted /\ Goto(w, t) /\ UNCHANGED <<host, up, store, config, crashed>>
  BY DEF updateFail2banConfig, Request
<1>2. events + 1 \in Nat
  BY AgentAssumption DEF Shape, StoreOK
<1>3. t \in Task
  BY <1>2, IdleFits DEF Idle, Task, AgentOps
<1>4. Fits(t) /\ t.op = "config"
  BY DEF Idle, Fits
<1> HIDE DEF t
<1>5. KernelOK' /\ StoreOK'
  BY <1>1, KernelStays, StoreStays DEF Shape, host, store, config
<1> QED BY <1>1, <1>3, <1>4, <1>5, Asked

-----------------------------------------------------------------------------
LEMMA StartShape ==
  ASSUME Shape, NEW w \in Workers, Start(w)
  PROVE  Shape'
<1> DEFINE loaded == IF file = Garbled THEN {} ELSE file
           t      == [Idle EXCEPT !.op = "start", !.pc = "restore", !.rows = loaded]
<1>1. /\ up = "down" /\ up' = "starting" /\ live' = mirror /\ active' = mirror /\ rules' = loaded
      /\ Goto(w, t) /\ UNCHANGED <<host, file, mirror, bounds>>
  BY DEF Start
<1>2. loaded \subseteq Ruled
  BY DEF Shape, StoreOK
<1> HIDE DEF loaded
<1>3. t \in Task
  BY <1>2, RuledRow, IdleFits DEF Idle, Task
<1>4. Fits(t) /\ t.op = "start"
  BY <1>2 DEF Idle, Fits
<1> HIDE DEF t
<1>5. TasksOK'
  BY <1>1, <1>3, <1>4, GotoFits DEF Shape
<1>6. \A v \in Workers : task'[v] = IF v = w THEN t ELSE Idle
  BY <1>1 DEF Shape, ControlOK, TasksOK, Goto
<1>7. ControlOK'
  <2>1. \A v \in Workers : task'[v].op = "start" <=> v = w
    BY <1>4, <1>6 DEF Idle
  <2>2. \A v \in Workers : task'[v].op = "start" => \A u \in Workers \ {v} : task'[u] = Idle
    BY <1>6, <2>1
  <2> QED BY <1>1, <2>1, <2>2 DEF ControlOK
<1>8. StoreOK'
  BY <1>1, <1>2 DEF Shape, StoreOK, host, bounds
<1> QED BY <1>1, <1>5, <1>7, <1>8, KernelStays DEF Shape, host

LEMMA CrashShape ==
  ASSUME Shape, NEW reboot \in BOOLEAN, Crash(reboot)
  PROVE  Shape'
<1>1. /\ up' = "down" /\ crashed' = TRUE /\ Event /\ failed' = failed
      /\ rules' = {} /\ task' = [w \in Workers |-> Idle] /\ UNCHANGED <<bans, config>>
  BY DEF Crash
<1>2. file' = file \/ \E w \in Workers : file' \in {Garbled, task[w].rows}
  BY DEF Crash
<1>3. file' = Garbled \/ file' \subseteq Ruled
  BY <1>2, WorkerIs DEF Shape, StoreOK
<1>4. StoreOK'
  BY <1>1, <1>3, CountsKept DEF Shape, StoreOK, config, Accepted
<1>6. TasksOK'
  BY <1>1, IdleFits DEF TasksOK
<1>7. KernelOK'
  BY DEF Shape, KernelOK, Crash
<1>8. ControlOK'
  BY <1>1 DEF ControlOK, Idle
<1> QED BY <1>4, <1>6, <1>7, <1>8 DEF Shape

LEMMA BannedShape ==
  ASSUME Shape, Fail2ban
  PROVE  Shape'
<1>1. Event /\ failed' = failed /\ bans' \subseteq Ips
  BY DEF Fail2ban, Shape, StoreOK
<1>2. UNCHANGED <<kernel, nextHandle, up, store, config, task, crashed>>
  BY DEF Fail2ban
<1>3. StoreOK'
  BY <1>1, <1>2, CountsKept DEF Shape, StoreOK, store, config, Accepted
<1> QED BY <1>2, <1>3, KernelStays DEF Shape, TasksOK, ControlOK

LEMMA InitShape == Init => Shape
<1> SUFFICES ASSUME Init PROVE Shape
  OBVIOUS
<1>1. Cardinality(Present) \in Nat
  BY AgentAssumption, FS_CardinalityType
<1>2. PICK order \in Injection(Present, 1 .. Cardinality(Present)) :
        kernel = {[id |-> id, handle |-> order[id]] : id \in Present}
  BY DEF Init
<1>3. /\ order \in [Present -> 1 .. Cardinality(Present)]
      /\ \A a, b \in Present : order[a] = order[b] => a = b
  BY <1>2 DEF Injection, IsInjective
<1>4. \A r \in kernel : \E id \in Present : r.id = id /\ r.handle = order[id] /\ r = [id |-> id, handle |-> order[id]]
  BY <1>2
<1>5. kernel \subseteq [id : Ids, handle : Nat \ {0}]
  BY <1>1, <1>3, <1>4, AgentAssumption DEF Ids
<1>6. \A r \in kernel : r.handle < nextHandle
  BY <1>1, <1>3, <1>4 DEF Init
<1>7. \A r, s \in kernel : r.handle = s.handle => r = s
  BY <1>3, <1>4
<1>8. KernelOK
  <2>1. nextHandle \in Nat \ {0}
    BY <1>1 DEF Init
  <2> QED BY <1>5, <1>6, <1>7, <2>1 DEF KernelOK
<1>9. TasksOK
  BY IdleFits DEF Init, TasksOK
<1>10. StoreOK
  <2>1. kernel \subseteq Ruled /\ rules = kernel /\ file = kernel /\ bans \subseteq Ips
    BY <1>8, KernelIsRuled DEF Init
  <2>2. live \in [Files -> Nat] /\ mirror \in [Files -> Nat] /\ active \in [Files -> Nat]
    BY DEF Init
  <2>3. events \in 0 .. MaxEvents /\ failed \in BOOLEAN /\ crashed \in BOOLEAN
    <3>1. events = 0
      BY DEF Init
    <3>2. events \in 0 .. MaxEvents
      BY <3>1, AgentAssumption
    <3>3. failed = FALSE /\ crashed = FALSE
      BY DEF Init
    <3> QED BY <3>2, <3>3
  <2> QED BY <2>1, <2>2, <2>3 DEF StoreOK
<1>11. ControlOK
  BY DEF Init, ControlOK, Idle
<1> QED BY <1>8, <1>9, <1>10, <1>11 DEF Shape

LEMMA NextShape == Shape /\ [Next]_vars => Shape'
<1> SUFFICES ASSUME Shape, [Next]_vars PROVE Shape'
  OBVIOUS
<1>1. ASSUME NEW w \in Workers, Ask(w) PROVE Shape'
  BY <1>1, BanShape, CreateShape, DeleteShape, UpdateShape DEF Ask
<1>2. ASSUME NEW w \in Workers, Work(w) PROVE Shape'
  BY <1>2, ListShape, EnsureShape, AddShape, HandleShape, RecordShape, SaveStateShape, WriteShape,
     ListRulesShape, OrphanShape, DropRowsShape, RemoveShape, DropShape, ForgetShape, FilesShape,
     RestoreShape, SyncShape DEF Work
<1>3. CASE UNCHANGED vars
  BY <1>3 DEF vars, host, store, config, bounds, Shape, TasksOK, KernelOK, StoreOK, ControlOK
<1> QED BY <1>1, <1>2, <1>3, RefreshShape, StartShape, CrashShape, BannedShape DEF Next


(* Every variable keeps its type, and only one worker starts the agent.    *)
THEOREM TypesKept == Spec => []TypeOK
<1>1. Shape => TypeOK
  <2> SUFFICES ASSUME Shape PROVE TypeOK
    OBVIOUS
  <2>1. file \subseteq Row
    BY RuledRow DEF Shape, StoreOK, Garbled, Row, NoHandle
  <2>2. kernel \subseteq [id : Ids, handle : Nat \ {0}] /\ nextHandle \in Nat \ {0} /\ task \in [Workers -> Task]
    BY DEF Shape, KernelOK, TasksOK
  <2>3. /\ bans \subseteq Ips /\ rules \subseteq [id : Ids, handle : Nat]
        /\ live \in [Files -> Nat] /\ mirror \in [Files -> Nat] /\ active \in [Files -> Nat]
        /\ events \in 0 .. MaxEvents /\ failed \in BOOLEAN /\ crashed \in BOOLEAN
    BY DEF Shape, StoreOK, Ruled
  <2>4. up \in {"down", "starting", "up"} /\ (up = "starting" <=> \E w \in Workers : task[w].op = "start")
    BY DEF Shape, ControlOK
  <2> QED BY <2>1, <2>2, <2>3, <2>4 DEF TypeOK
<1> QED BY InitShape, NextShape, <1>1, PTL DEF Spec

-----------------------------------------------------------------------------
(* What a handle is remembered for.                                        *)
Grows ==
  /\ nextHandle' \in Nat /\ nextHandle <= nextHandle'
  /\ \A k \in kernel' : k \in kernel \/ k.handle = nextHandle

LEMMA ChainGrows ==
  ASSUME KernelOK, UNCHANGED <<kernel, nextHandle>> \/ (\E id \in Ids : AddRule(id))
                     \/ (UNCHANGED nextHandle /\ kernel' \subseteq kernel)
  PROVE  Grows
BY DEF KernelOK, Grows, AddRule

LEMMA FreshStays ==
  ASSUME KernelOK, Grows, NEW r \in Ruled
  PROVE  (Fresh(r) => Fresh(r)') /\ (Own(r) => Own(r)')
BY DEF KernelOK, Grows, Ruled, Fresh, Own

LEMMA ChainOwn == ASSUME KernelOK, NEW r \in kernel PROVE Own(r)
BY DEF KernelOK, Own

LEMMA OwnFresh == ASSUME NEW r, Own(r) PROVE Fresh(r)
BY DEF Fresh, Own, Begins

LEMMA FoundFresh ==
  ASSUME KernelOK, NEW id \in Ids
  PROVE  Fresh([id |-> id, handle |-> Found(id)])
<1> DEFINE r == [id |-> id, handle |-> Found(id)]
<1>1. CASE Found(id) = NoHandle
  BY <1>1 DEF KernelOK, Fresh, NoHandle
<1>2. ASSUME NEW k \in kernel, Found(id) = k.handle, Begins(id, k.id)
      PROVE  Fresh(r)
  BY <1>2 DEF KernelOK, Fresh
<1> QED BY <1>1, <1>2, FoundOne

LEMMA NoneRestoring ==
  ASSUME Shape, up = "up" \/ \E w \in Workers : task[w].pc \notin {"idle", "restore"}
  PROVE  \A r : ~Restoring(r)
<1> SUFFICES ASSUME NEW v \in Workers, task[v].pc = "restore" PROVE FALSE
  BY DEF Restoring
<1>1. task[v].op = "start"
  BY WorkerIs DEF Shape, Fits
<1>2. up # "up"
  BY <1>1 DEF Shape, ControlOK
<1>3. PICK w \in Workers : task[w].pc \notin {"idle", "restore"}
  BY <1>2
<1>4. task[w] = Idle
  BY <1>1, <1>3 DEF Shape, ControlOK
<1> QED BY <1>3, <1>4 DEF Idle

(* A step of a worker keeps what the others remember; what it remembers    *)
(* itself, and the list, need be right before the step.                    *)
LEMMA HandlesMove ==
  ASSUME Shape, Shape', HandlesOK, ~failed, Grows, NEW w \in Workers, NEW t, Goto(w, t), TaskFresh(t),
         \A r \in rules' : \/ Fresh(r) \/ Fresh(r)'
                           \/ /\ r \in rules
                              /\ task[w].pc = "restore" /\ r \in task[w].rows => t.pc = "restore" /\ r \in t.rows
  PROVE  HandlesOK'
<1>1. \A v \in Workers : task'[v] = IF v = w THEN t ELSE task[v]
  BY DEF Goto, Shape, TasksOK
<1>2. \A v \in Workers : task'[v] \in Task /\ task'[v].rows \subseteq Ruled
  BY DEF Shape, TasksOK, Fits
<1>3. KernelOK
  BY DEF Shape
<1>4. ASSUME NEW r \in rules' PROVE Fresh(r)' \/ Restoring(r)'
  <2>1. r \in Ruled
    BY DEF Shape, StoreOK
  <2>2. CASE Fresh(r)
    BY <1>3, <2>1, <2>2, FreshStays
  <2>3. CASE r \in rules /\ ~Fresh(r)
             /\ (task[w].pc = "restore" /\ r \in task[w].rows => t.pc = "restore" /\ r \in t.rows)
    <3>1. PICK v \in Workers : task[v].pc = "restore" /\ r \in task[v].rows
      BY <2>3 DEF HandlesOK, Restoring
    <3>2. task'[v].pc = "restore" /\ r \in task'[v].rows
      BY <1>1, <2>3, <3>1
    <3> QED BY <3>2 DEF Restoring
  <2> QED BY <2>2, <2>3
<1>5. ASSUME NEW v \in Workers PROVE TaskFresh(task[v])'
  <2>1. PICK s : s = task'[v]
    OBVIOUS
  <2>2. s \in Task /\ s.rows \subseteq Ruled /\ Fits(s)
    BY <1>2, <2>1 DEF Shape, TasksOK
  <2>3. TaskFresh(s)
    BY <1>1, <2>1 DEF HandlesOK
  <2>4. ASSUME s.pc \in {"orphans", "drop"}, NEW r \in s.rows
        PROVE  (s.pc = "orphans" => Own(r)') /\ (s.pc = "drop" => Fresh(r)')
    <3>1. r \in Ruled
      BY <2>2
    <3>2. (s.pc = "orphans" => Own(r)) /\ (s.pc = "drop" => Fresh(r))
      BY <2>3 DEF TaskFresh
    <3> QED BY <1>3, <3>1, <3>2, FreshStays
  <2>5. ASSUME s.pc = "record" PROVE Fresh([id |-> s.id, handle |-> s.handle])'
    <3> DEFINE q == [id |-> s.id, handle |-> s.handle]
    <3>1. q \in Ruled
      BY <2>2, <2>5 DEF Fits, Ruled, Ids, Task
    <3>2. Fresh(q)
      BY <2>3, <2>5 DEF TaskFresh
    <3> HIDE DEF q
    <3>3. Fresh(q)'
      BY <1>3, <3>1, <3>2, FreshStays
    <3> QED BY <3>3 DEF q
  <2>6. TaskFresh(s)'
    BY <2>4, <2>5 DEF TaskFresh
  <2> QED BY <2>1, <2>6
<1> QED BY <1>4, <1>5 DEF HandlesOK

(* Steps of a worker that remember nothing new.                            *)
LEMMA HandlesSame ==
  ASSUME Shape, Shape', HandlesOK, ~failed, NEW w \in Workers, NEW t, Goto(w, t), Grows, rules' \subseteq rules,
         task[w].pc # "restore" \/ task[w].rows = {}, t.pc \notin {"orphans", "drop", "record"}
  PROVE  HandlesOK'
BY HandlesMove DEF TaskFresh

LEMMA HandlesAsk ==
  ASSUME Shape, Shape', HandlesOK, NEW w \in Workers, Ask(w), ~failed'
  PROVE  HandlesOK'
<1>1. ~failed /\ task[w].pc = "idle" /\ rules' = rules
  <2>1. task[w].pc = "idle" /\ rules' = rules
    BY DEF Ask, createBan, removeBan, createRule, deleteFirewallRule, updateFail2banConfig, Request, At, store
  <2>2. Fails \/ Accepted
    BY DEF Ask, createBan, removeBan, createRule, deleteFirewallRule, updateFail2banConfig
  <2> QED BY <2>1, <2>2 DEF Fails, Accepted
<1>2. Grows
  <2>1. CASE UNCHANGED <<kernel, nextHandle>>
    BY <2>1, ChainGrows DEF Shape
  <2>2. CASE createRule(w)
    BY <2>2, ChainGrows DEF Shape, createRule, Ids
  <2>3. CASE deleteFirewallRule(w)
    <3>1. UNCHANGED nextHandle /\ (UNCHANGED kernel \/ \E h : DeleteHandle(h))
      BY <2>3 DEF deleteFirewallRule
    <3>2. kernel' \subseteq kernel
      BY <3>1 DEF DeleteHandle
    <3> QED BY <3>1, <3>2, ChainGrows DEF Shape
  <2> QED BY <2>1, <2>2, <2>3 DEF Ask, createBan, removeBan, updateFail2banConfig, host
<1>3. task' = task \/ \E t : Goto(w, t) /\ t.pc \in {"loop", "remove", "added", "deleted", "jail"}
  <2>1. ASSUME createBan(w) \/ removeBan(w), task' # task
        PROVE  \E t : Goto(w, t) /\ t.pc \in {"loop", "remove"}
    <3>1. CASE createBan(w)
      <4>1. PICK id : Goto(w, [Idle EXCEPT !.op = "ban", !.pc = "loop", !.todo = {id}])
        BY <2>1, <3>1 DEF createBan
      <4> DEFINE t == [Idle EXCEPT !.op = "ban", !.pc = "loop", !.todo = {id}]
      <4>2. t.pc = "loop" /\ Goto(w, t)
        BY <4>1 DEF Idle
      <4> HIDE DEF t
      <4> QED BY <4>2
    <3>2. CASE removeBan(w)
      <4>1. PICK id, exact : Goto(w, [Idle EXCEPT !.op = "unban", !.id = id, !.flag = exact, !.pc = "remove"])
        BY <2>1, <3>2 DEF removeBan
      <4> DEFINE t == [Idle EXCEPT !.op = "unban", !.id = id, !.flag = exact, !.pc = "remove"]
      <4>2. t.pc = "remove" /\ Goto(w, t)
        BY <4>1 DEF Idle
      <4> HIDE DEF t
      <4> QED BY <4>2
    <3> QED BY <2>1, <3>1, <3>2
  <2>2. ASSUME createRule(w) \/ deleteFirewallRule(w), task' # task
        PROVE  \E t : Goto(w, t) /\ t.pc \in {"added", "deleted"}
    <3>1. PICK id, op, pc : /\ Goto(w, [Idle EXCEPT !.op = op, !.id = id, !.pc = pc])
                            /\ pc \in {"added", "deleted"}
      BY <2>2 DEF createRule, deleteFirewallRule
    <3> DEFINE t == [Idle EXCEPT !.op = op, !.id = id, !.pc = pc]
    <3>2. t.pc = pc /\ Goto(w, t)
      BY <3>1 DEF Idle
    <3> HIDE DEF t
    <3> QED BY <3>1, <3>2
  <2>3. ASSUME updateFail2banConfig(w) PROVE \E t : Goto(w, t) /\ t.pc = "jail"
    <3> DEFINE t == [Idle EXCEPT !.op = "config", !.handle = events + 1, !.pc = "jail"]
    <3>1. t.pc = "jail" /\ Goto(w, t)
      BY <2>3 DEF Idle, updateFail2banConfig
    <3> HIDE DEF t
    <3> QED BY <3>1
  <2> QED BY <2>1, <2>2, <2>3 DEF Ask
<1>4. CASE task' = task
  <2>1. Goto(w, task[w])
    BY <1>4 DEF Goto, Shape, TasksOK
  <2> QED BY <1>1, <1>2, <2>1, HandlesSame
<1>5. ASSUME NEW t, Goto(w, t), t.pc \in {"loop", "remove", "added", "deleted", "jail"} PROVE HandlesOK'
  BY <1>1, <1>2, <1>5, HandlesSame
<1> QED BY <1>3, <1>4, <1>5

LEMMA HandlesRows ==
  ASSUME Shape, Shape', HandlesOK, NEW w \in Workers, ~failed',
         listPortalBanRulesFromNft(w) \/ DeleteOrphan(w) \/ removeBanFirewallRule(w) \/ DropTarget(w)
  PROVE  HandlesOK'
<1>1. rules' = rules /\ task[w].pc \in {"loop", "orphans", "remove", "drop"}
  BY DEF listPortalBanRulesFromNft, DeleteOrphan, removeBanFirewallRule, DropTarget, Await, At, store
<1>2. ~failed
  BY DEF listPortalBanRulesFromNft, DeleteOrphan, removeBanFirewallRule, DropTarget, Works, Fails
<1>3. Grows
  BY ChainGrows DEF Shape, listPortalBanRulesFromNft, DeleteOrphan, removeBanFirewallRule, DropTarget, host,
                    DeleteHandle
<1>4. task[w] \in Task
  BY WorkerIs DEF Shape
<1>5. PICK t : Goto(w, t) /\ TaskFresh(t)
  <2>1. CASE listPortalBanRulesFromNft(w)
    <3>1. PICK rows \in {BanRules, {}} : Goto(w, [task[w] EXCEPT !.rows = rows, !.pc = "orphans"])
      BY <2>1 DEF listPortalBanRulesFromNft
    <3>2. \A r \in rows : Own(r)
      BY ChainOwn DEF BanRules, Shape
    <3> DEFINE t == [task[w] EXCEPT !.rows = rows, !.pc = "orphans"]
    <3>3. t.pc = "orphans" /\ t.rows = rows /\ Goto(w, t)
      BY <1>4, <3>1 DEF Task
    <3> HIDE DEF t
    <3> QED BY <3>2, <3>3 DEF TaskFresh
  <2>2. ASSUME NEW r, NEW flag, Goto(w, [task[w] EXCEPT !.rows = @ \ {r}, !.flag = flag]),
               task[w].pc \in {"orphans", "drop"}
        PROVE  \E t : Goto(w, t) /\ TaskFresh(t)
    <3>1. TaskFresh(task[w])
      BY <1>2 DEF HandlesOK
    <3> DEFINE t == [task[w] EXCEPT !.rows = @ \ {r}, !.flag = flag]
    <3>2. t.pc = task[w].pc /\ t.rows = task[w].rows \ {r} /\ Goto(w, t)
      BY <1>4, <2>2 DEF Task
    <3> HIDE DEF t
    <3> QED BY <2>2, <3>1, <3>2 DEF TaskFresh
  <2>3. CASE removeBanFirewallRule(w)
    <3> DEFINE targets == IF task[w].flag THEN With(rules, task[w].id) ELSE {}
               pc      == IF targets = {} THEN "list" ELSE "drop"
               t       == [task[w] EXCEPT !.rows = targets, !.flag = FALSE, !.pc = pc]
    <3>1. Goto(w, t) /\ task[w].pc = "remove"
      BY <2>3 DEF removeBanFirewallRule, Await, At
    <3>2. \A r \in targets : Fresh(r)
      BY <1>2, <3>1, NoneRestoring DEF HandlesOK, With
    <3>3. pc \notin {"record", "orphans"}
      OBVIOUS
    <3> HIDE DEF targets, pc
    <3>4. t.pc = pc /\ t.rows = targets
      BY <1>4 DEF Task
    <3> HIDE DEF t
    <3> QED BY <3>1, <3>2, <3>3, <3>4 DEF TaskFresh
  <2>4. CASE DeleteOrphan(w)
    <3>1. PICK r \in Orphans(task[w]) : Await(w, "orphans") /\ Goto(w, [task[w] EXCEPT !.rows = @ \ {r}])
      BY <2>4 DEF DeleteOrphan
    <3>2. [task[w] EXCEPT !.rows = @ \ {r}, !.flag = task[w].flag] = [task[w] EXCEPT !.rows = @ \ {r}]
      BY <1>4 DEF Task
    <3>3. Goto(w, [task[w] EXCEPT !.rows = @ \ {r}, !.flag = task[w].flag]) /\ task[w].pc = "orphans"
      BY <3>1, <3>2 DEF Await, At
    <3> QED BY <2>2, <3>3
  <2>5. CASE DropTarget(w)
    <3>1. PICK r \in task[w].rows :
            /\ Await(w, "drop")
            /\ \/ Goto(w, [task[w] EXCEPT !.rows = @ \ {r}])
               \/ Goto(w, [task[w] EXCEPT !.rows = @ \ {r}, !.flag = TRUE])
      BY <2>5 DEF DropTarget
    <3>2. [task[w] EXCEPT !.rows = @ \ {r}, !.flag = task[w].flag] = [task[w] EXCEPT !.rows = @ \ {r}]
      BY <1>4 DEF Task
    <3>3. task[w].pc = "drop" /\ \E flag : Goto(w, [task[w] EXCEPT !.rows = @ \ {r}, !.flag = flag])
      BY <3>1, <3>2 DEF Await, At
    <3> QED BY <2>2, <3>3
  <2> QED BY <2>1, <2>3, <2>4, <2>5
<1>6. \A r \in rules' : r \in rules /\ task[w].pc # "restore"
  BY <1>1
<1> QED BY <1>2, <1>3, <1>5, <1>6, HandlesMove

LEMMA HandlesFind ==
  ASSUME Shape, Shape', HandlesOK, NEW w \in Workers, ~failed', ensureBanFirewallRule(w) \/ HandleOfAdded(w)
  PROVE  HandlesOK'
<1>1. rules' = rules /\ UNCHANGED host /\ task[w].pc # "restore"
  BY DEF ensureBanFirewallRule, HandleOfAdded, Await, At, store
<1>2. task[w] \in Task /\ Fits(task[w]) /\ task[w].todo \subseteq Ips
  BY WorkerIs DEF Shape
<1>3. PICK id \in Ids : \E t : /\ Goto(w, t) /\ Works /\ t.pc \in {"found", "record"}
                               /\ t.id = id /\ t.handle = Found(id)
  <2>1. CASE ensureBanFirewallRule(w)
    <3>1. PICK id \in task[w].todo : \E h, flag, pc :
            /\ findRuleHandle(id, h) /\ pc \in {"found", "record"}
            /\ Goto(w, [task[w] EXCEPT !.id = id, !.todo = @ \ {id}, !.flag = flag, !.handle = h, !.pc = pc])
      BY <2>1 DEF ensureBanFirewallRule
    <3>2. PICK h, flag, pc :
            /\ findRuleHandle(id, h) /\ pc \in {"found", "record"}
            /\ Goto(w, [task[w] EXCEPT !.id = id, !.todo = @ \ {id}, !.flag = flag, !.handle = h, !.pc = pc])
      BY <3>1
    <3> DEFINE t == [task[w] EXCEPT !.id = id, !.todo = @ \ {id}, !.flag = flag, !.handle = h, !.pc = pc]
    <3>3. h = Found(id) /\ Works
      BY <3>2 DEF findRuleHandle, Fails
    <3>4. t.id = id /\ t.handle = h /\ t.pc = pc /\ Goto(w, t)
      BY <1>2, <3>2 DEF Task
    <3> HIDE DEF t
    <3>5. id \in Ids
      BY <1>2 DEF Ids
    <3> QED BY <3>2, <3>3, <3>4, <3>5
  <2>2. CASE HandleOfAdded(w)
    <3>1. PICK h : /\ findRuleHandle(task[w].id, h) /\ task[w].pc = "added"
                   /\ Goto(w, [task[w] EXCEPT !.handle = h, !.pc = "record"])
      BY <2>2 DEF HandleOfAdded, Await, At
    <3> DEFINE t == [task[w] EXCEPT !.handle = h, !.pc = "record"]
    <3>2. h = Found(task[w].id) /\ Works
      BY <3>1 DEF findRuleHandle, Fails
    <3>3. task[w].id \in Ids
      BY <1>2, <3>1 DEF Fits, Ids
    <3>4. t.id = task[w].id /\ t.handle = h /\ t.pc = "record" /\ Goto(w, t)
      BY <1>2, <3>1 DEF Task
    <3> HIDE DEF t
    <3> QED BY <3>2, <3>3, <3>4
  <2> QED BY <2>1, <2>2
<1>4. PICK t : Goto(w, t) /\ Works /\ t.pc \in {"found", "record"} /\ t.id = id /\ t.handle = Found(id)
  BY <1>3
<1>5. TaskFresh(t)
  BY <1>4, FoundFresh DEF Shape, TaskFresh
<1>6. Grows /\ ~failed
  BY <1>1, <1>4, ChainGrows DEF Shape, host, Works
<1>7. \A r \in rules' : r \in rules /\ task[w].pc # "restore"
  BY <1>1
<1> QED BY <1>4, <1>5, <1>6, <1>7, HandlesMove

LEMMA HandlesList ==
  ASSUME Shape, Shape', HandlesOK, NEW w \in Workers, ~failed',
         RecordRule(w) \/ DropRows(w) \/ Dropped(w) \/ ForgetRule(w) \/ syncFirewallState(w)
  PROVE  HandlesOK'
<1>1. /\ Works /\ UNCHANGED host
      /\ task[w].pc \in {"record", "orphans", "drop", "deleted"} \/ (task[w].pc = "restore" /\ task[w].rows = {})
  BY DEF RecordRule, DropRows, Dropped, ForgetRule, syncFirewallState, Await, At
<1>2. ~failed /\ Grows
  BY <1>1, ChainGrows DEF Works, Shape, host
<1>3. task[w] \in Task /\ Fits(task[w]) /\ rules \subseteq Ruled
  BY WorkerIs DEF Shape, StoreOK
<1>4. PICK then : Goto(w, Save(task[w], then))
  BY DEF RecordRule, DropRows, Dropped, ForgetRule, syncFirewallState
<1>5. PICK t : t = Save(task[w], then)
  OBVIOUS
<1>6. t.pc = "save" /\ Goto(w, t)
  BY <1>4, <1>5 DEF Save, Idle
<1>7. CASE rules' \subseteq rules
  BY <1>1, <1>2, <1>6, <1>7, HandlesSame
<1>8. ASSUME \A r \in rules' : r \in rules \/ Fresh(r), task[w].pc # "restore" PROVE HandlesOK'
  BY <1>2, <1>6, <1>8, HandlesMove DEF TaskFresh
<1>9. CASE RecordRule(w)
  <2> DEFINE row == [id |-> task[w].id, handle |-> task[w].handle]
  <2>1. rules' \subseteq rules \cup {row} /\ task[w].pc = "record"
    BY <1>9 DEF RecordRule, Await, At
  <2>2. Fresh(row)
    BY <1>2, <2>1 DEF HandlesOK, TaskFresh
  <2> HIDE DEF row
  <2> QED BY <1>8, <2>1, <2>2
<1>10. CASE DropRows(w)
  <2>1. rules' = Kept(task[w]) /\ task[w].pc = "orphans"
    BY <1>10 DEF DropRows, Await, At
  <2>2. \A q \in task[w].rows : Fresh(q)
    BY <1>2, <2>1, OwnFresh DEF HandlesOK, TaskFresh
  <2>3. ASSUME NEW p \in rules' PROVE p \in rules \/ Fresh(p)
    <3> DEFINE S(r) == With(task[w].rows, r.id)
    <3>1. PICK r \in rules : p = IF r.id \in Ips /\ S(r) # {} THEN [r EXCEPT !.handle = First(S(r))] ELSE r
      BY <2>1 DEF Kept
    <3>2. CASE r.id \in Ips /\ S(r) # {}
      <4>1. S(r) \subseteq Ruled /\ \A q \in S(r) : q.id = r.id /\ Fresh(q)
        BY <1>3, <2>2 DEF With, Fits
      <4>2. p = [r EXCEPT !.handle = First(S(r))]
        BY <3>1, <3>2
      <4> HIDE DEF S
      <4>3. PICK q \in S(r) : First(S(r)) = q.handle
        BY <3>2, <4>1, FirstIsOne
      <4>4. p.id = q.id /\ p.handle = q.handle
        BY <1>3, <4>1, <4>2, <4>3 DEF Ruled
      <4> QED BY <4>1, <4>4 DEF Fresh
    <3> QED BY <3>1, <3>2
  <2> QED BY <1>8, <2>1, <2>3
<1>11. CASE Dropped(w) \/ ForgetRule(w) \/ syncFirewallState(w)
  <2>1. rules' \subseteq rules
    BY <1>11 DEF Dropped, ForgetRule, syncFirewallState, Without, store
  <2> QED BY <1>7, <2>1
<1> QED BY <1>9, <1>10, <1>11

LEMMA HandlesRest ==
  ASSUME Shape, Shape', HandlesOK, NEW w \in Workers, ~failed',
         \/ refreshFail2banState(w) \/ listBans(w) \/ addFirewallRule(w) \/ saveState(w) \/ WriteFile(w)
         \/ writeAndMirror(w) \/ reload(w)
  PROVE  HandlesOK'
<1>1. rules' = rules /\ task[w].pc # "restore"
  BY DEF refreshFail2banState, listBans, addFirewallRule, saveState, WriteFile, writeAndMirror, reload,
         Await, At, store, Files
<1>2. ~failed
  BY DEF refreshFail2banState, listBans, addFirewallRule, saveState, WriteFile, writeAndMirror, reload,
         Works, Fails, bounds
<1>3. task[w] \in Task /\ Fits(task[w])
  BY WorkerIs DEF Shape
<1>4. Grows
  <2>1. CASE addFirewallRule(w)
    <3>1. task[w].id \in Ids
      BY <1>3, <2>1 DEF addFirewallRule, Await, At, Fits, Ids
    <3> QED BY <2>1, <3>1, ChainGrows DEF Shape, addFirewallRule
  <2>2. CASE UNCHANGED <<kernel, nextHandle>>
    BY <2>2, ChainGrows DEF Shape
  <2> QED BY <2>1, <2>2 DEF refreshFail2banState, listBans, saveState, WriteFile, writeAndMirror, reload, host
<1>5. \E t : Goto(w, t) /\ t.pc \notin {"orphans", "drop", "record"}
  <2>1. CASE refreshFail2banState(w)
    <3> DEFINE t == [Idle EXCEPT !.op = "refresh", !.pc = "list"]
    <3>1. t.pc = "list" /\ Goto(w, t)
      BY <2>1 DEF refreshFail2banState, Idle
    <3> HIDE DEF t
    <3> QED BY <3>1
  <2>2. CASE listBans(w)
    <3>1. PICK seen : Goto(w, [Idle EXCEPT !.op = Syncs(task[w]), !.seen = seen, !.todo = seen, !.pc = "loop"])
      BY <2>2 DEF listBans
    <3> DEFINE t == [Idle EXCEPT !.op = Syncs(task[w]), !.seen = seen, !.todo = seen, !.pc = "loop"]
    <3>2. t.pc = "loop" /\ Goto(w, t)
      BY <3>1 DEF Idle
    <3> HIDE DEF t
    <3> QED BY <3>2
  <2>3. CASE addFirewallRule(w)
    <3>1. Goto(w, [task[w] EXCEPT !.pc = "added"]) \/ Goto(w, Returned(task[w]))
      BY <2>3 DEF addFirewallRule
    <3>2. [task[w] EXCEPT !.pc = "added"].pc = "added" /\ Returned(task[w]).pc \in {"idle", "loop"}
      BY <1>3 DEF Task, Returned, Idle
    <3> QED BY <3>1, <3>2
  <2>4. CASE saveState(w)
    <3> DEFINE t == [task[w] EXCEPT !.rows = rules, !.pc = "write"]
    <3>1. t.pc = "write" /\ Goto(w, t)
      BY <1>3, <2>4 DEF saveState, Task
    <3> HIDE DEF t
    <3> QED BY <3>1
  <2>5. CASE WriteFile(w)
    <3> DEFINE on == [task[w] EXCEPT !.pc = task[w].then, !.then = "idle", !.rows = {}]
               t  == IF task[w].then = "idle" THEN Idle ELSE on
    <3>1. Goto(w, t)
      BY <2>5 DEF WriteFile
    <3>2. on.pc \in {"idle", "loop", "list"} /\ Idle.pc = "idle"
      BY <1>3 DEF Task, Idle
    <3>3. t.pc \in {"idle", "loop", "list"}
      <4> HIDE DEF on
      <4> QED BY <3>2
    <3> HIDE DEF t
    <3> QED BY <3>1, <3>3
  <2>6. CASE writeAndMirror(w) \/ reload(w)
    <3>1. /\ task[w].pc \in {"jail", "jailCopy", "filter", "filterCopy", "reload"}
          /\ Goto(w, [task[w] EXCEPT !.pc = Then[task[w].pc]]) \/ Goto(w, Idle)
      BY <2>6 DEF writeAndMirror, reload, Await, At, Files, Finish
    <3>2. Then[task[w].pc] \in {"jailCopy", "filter", "filterCopy", "reload", "list"}
      BY <3>1 DEF Then
    <3> DEFINE t == [task[w] EXCEPT !.pc = Then[task[w].pc]]
    <3>3. t.pc \notin {"orphans", "drop", "record"}
      BY <1>3, <3>2 DEF Task
    <3>4. Goto(w, t) \/ Goto(w, Idle)
      BY <3>1
    <3> HIDE DEF t
    <3> QED BY <3>3, <3>4 DEF Idle
  <2> QED BY <2>1, <2>2, <2>3, <2>4, <2>5, <2>6
<1>6. rules' \subseteq rules
  BY <1>1
<1> QED BY <1>1, <1>2, <1>4, <1>5, <1>6, HandlesSame

LEMMA HandlesRestore ==
  ASSUME Shape, Shape', HandlesOK, NEW w \in Workers, ~failed', ensureFirewallRule(w)
  PROVE  HandlesOK'
<1>1. PICK r \in task[w].rows :
        /\ task[w].pc = "restore" /\ Works
        /\ IF Found(r.id) = NoHandle THEN AddRule(r.id) ELSE UNCHANGED <<kernel, nextHandle>>
        /\ rules' = (rules \ {r}) \cup
                      {[r EXCEPT !.handle = IF Found(r.id) = NoHandle THEN nextHandle ELSE Found(r.id)]}
        /\ Goto(w, [task[w] EXCEPT !.rows = @ \ {r}])
  BY DEF ensureFirewallRule, Await, At, Fails
<1>2. task[w] \in Task /\ r \in Ruled /\ r.id \in Ids
  BY WorkerIs DEF Shape, Ruled
<1>3. ~failed /\ KernelOK
  BY <1>1 DEF Works, Shape
<1>4. Grows
  BY <1>1, <1>2, <1>3, ChainGrows
<1>5. PICK h : h = IF Found(r.id) = NoHandle THEN nextHandle ELSE Found(r.id)
  OBVIOUS
<1>6. PICK new : new = [r EXCEPT !.handle = h]
  OBVIOUS
<1>7. new.id = r.id /\ new.handle = h
  BY <1>2, <1>6 DEF Ruled
<1>8. Fresh(new) \/ Fresh(new)'
  <2>1. CASE Found(r.id) = NoHandle
    <3>1. h = nextHandle /\ AddRule(r.id)
      BY <1>1, <1>5, <2>1
    <3>2. \A k \in kernel' : k.handle = nextHandle => Begins(r.id, k.id)
      BY <1>3, <3>1 DEF KernelOK, AddRule, Begins
    <3>3. nextHandle < nextHandle'
      BY <1>3, <3>1 DEF KernelOK, AddRule
    <3> QED BY <1>7, <3>1, <3>2, <3>3 DEF Fresh
  <2>2. CASE Found(r.id) # NoHandle
    <3>1. Fresh([id |-> r.id, handle |-> Found(r.id)])
      BY <1>2, <1>3, FoundFresh
    <3> QED BY <1>5, <1>7, <2>2, <3>1 DEF Fresh
  <2> QED BY <2>1, <2>2
<1>9. PICK t : t = [task[w] EXCEPT !.rows = @ \ {r}]
  OBVIOUS
<1>10. t.pc = "restore" /\ t.rows = task[w].rows \ {r} /\ Goto(w, t)
  BY <1>1, <1>2, <1>9 DEF Task
<1>11. rules' = (rules \ {r}) \cup {new}
  BY <1>1, <1>5, <1>6
<1>12. ASSUME NEW q \in rules'
       PROVE  \/ Fresh(q) \/ Fresh(q)'
              \/ /\ q \in rules
                 /\ task[w].pc = "restore" /\ q \in task[w].rows => t.pc = "restore" /\ q \in t.rows
  BY <1>8, <1>10, <1>11
<1>13. TaskFresh(t)
  BY <1>10 DEF TaskFresh
<1> QED BY <1>3, <1>4, <1>10, <1>12, <1>13, HandlesMove

LEMMA HandlesStart ==
  ASSUME Shape, Shape', HandlesOK, NEW w \in Workers, Start(w)
  PROVE  HandlesOK'
<1> DEFINE loaded == IF file = Garbled THEN {} ELSE file
           t      == [Idle EXCEPT !.op = "start", !.pc = "restore", !.rows = loaded]
<1>1. up = "down" /\ rules' = loaded /\ Goto(w, t)
  BY DEF Start
<1>2. t.pc = "restore" /\ t.rows = loaded
  BY DEF Idle
<1> HIDE DEF t, loaded
<1>3. \A v \in Workers : task'[v] = IF v = w THEN t ELSE Idle
  BY <1>1 DEF Shape, ControlOK, TasksOK, Goto
<1>4. \A r \in rules' : Restoring(r)'
  BY <1>1, <1>2, <1>3 DEF Restoring
<1>5. \A v \in Workers : task'[v].pc \in {"idle", "restore"}
  BY <1>2, <1>3 DEF Idle
<1>6. \A v \in Workers : TaskFresh(task[v])'
  BY <1>5 DEF TaskFresh
<1> QED BY <1>4, <1>6 DEF HandlesOK

LEMMA HandlesNext == Shape /\ Shape' /\ HandlesOK /\ [Next]_vars => HandlesOK'
<1> SUFFICES ASSUME Shape, Shape', HandlesOK, [Next]_vars, ~failed' PROVE HandlesOK'
  BY DEF HandlesOK
<1>1. ASSUME NEW w \in Workers, Work(w) PROVE HandlesOK'
  BY <1>1, HandlesRows, HandlesFind, HandlesList, HandlesRest, HandlesRestore DEF Work
<1>2. ASSUME NEW reboot \in BOOLEAN, Crash(reboot) PROVE HandlesOK'
  <2>1. rules' = {} /\ \A w \in Workers : task'[w].pc = "idle"
    BY <1>2 DEF Crash, Idle
  <2>2. \A w \in Workers : TaskFresh(task[w])'
    BY <2>1 DEF TaskFresh
  <2> QED BY <2>1, <2>2 DEF HandlesOK
<1>3. ASSUME UNCHANGED <<kernel, nextHandle, rules, task, failed>> PROVE HandlesOK'
  BY <1>3 DEF HandlesOK, TaskFresh, Fresh, Own, Restoring
<1>4. CASE Fail2ban
  BY <1>3, <1>4 DEF Fail2ban, store
<1>5. CASE UNCHANGED vars
  BY <1>3, <1>5 DEF vars, host, store, bounds
<1> QED BY <1>1, <1>2, <1>4, <1>5, HandlesAsk, HandlesRest, HandlesStart DEF Next

LEMMA HandlesInit == Init => HandlesOK
<1> SUFFICES ASSUME Init PROVE HandlesOK
  OBVIOUS
<1>1. Shape
  BY InitShape
<1>2. \A r \in rules : Fresh(r)
  BY <1>1, ChainOwn, OwnFresh DEF Init, Shape
<1>3. \A w \in Workers : TaskFresh(task[w])
  BY DEF Init, Idle, TaskFresh
<1> QED BY <1>2, <1>3 DEF HandlesOK

-----------------------------------------------------------------------------
(* What leaves the chain.                                                  *)
LEMMA HandleHits ==
  ASSUME KernelOK, NEW r \in Ruled, Fresh(r), NEW k \in kernel, k.handle = HandleOf(r)
  PROVE  Begins(r.id, k.id)
<1>1. CASE r.handle # NoHandle
  BY <1>1 DEF HandleOf, Fresh
<1>2. CASE r.handle = NoHandle
  <2>1. k.handle = Found(r.id) /\ r.id \in Ids /\ k.handle # NoHandle
    BY <1>2 DEF HandleOf, Ruled, KernelOK, NoHandle
  <2>2. PICK s \in kernel : Found(r.id) = s.handle /\ Begins(r.id, s.id)
    BY <2>1, FoundOne
  <2>3. s = k
    BY <2>1, <2>2 DEF KernelOK
  <2> QED BY <2>2, <2>3
<1> QED BY <1>1, <1>2

(* A worker's commands delete the rules that the ban to be lifted names,   *)
(* and orphans.                                                            *)
LEMMA WorkDeletes ==
  ASSUME Shape, HandlesOK, NEW w \in Workers, Work(w), ~failed', NEW k \in kernel \ kernel'
  PROVE  Unbanned(w, k) \/ Orphaned(w, k)
<1>1. task[w] \in Task /\ Fits(task[w]) /\ task[w].rows \subseteq Ruled /\ KernelOK
  BY WorkerIs DEF Shape
<1>2. CASE addFirewallRule(w) \/ ensureFirewallRule(w)
  <2>1. kernel \subseteq kernel'
    BY <1>2 DEF addFirewallRule, ensureFirewallRule, AddRule
  <2> QED BY <2>1
<1>3. CASE DeleteOrphan(w)
  <2>1. PICK r \in Orphans(task[w]) : task[w].pc = "orphans" /\ DeleteHandle(r.handle) /\ Works
    BY <1>3 DEF DeleteOrphan, Await, At
  <2>2. ~failed /\ r \in task[w].rows /\ r.id \notin task[w].seen
    BY <2>1 DEF Works, Orphans
  <2>3. Own(r) /\ r.id \in Ips
    BY <1>1, <2>1, <2>2 DEF HandlesOK, TaskFresh, Fits
  <2>4. k.handle = r.handle
    BY <2>1 DEF DeleteHandle
  <2> QED BY <2>1, <2>2, <2>3, <2>4 DEF Own, Orphaned, At
<1>4. CASE DropTarget(w)
  <2>1. PICK r \in task[w].rows : task[w].pc = "drop" /\ DeleteHandle(HandleOf(r)) /\ Works
    BY <1>4 DEF DropTarget, Await, At
  <2>2. ~failed /\ r \in Ruled /\ r.id = task[w].id
    BY <1>1, <2>1 DEF Works, Fits
  <2>3. Fresh(r)
    BY <2>1, <2>2 DEF HandlesOK, TaskFresh
  <2>4. k.handle = HandleOf(r)
    BY <2>1 DEF DeleteHandle
  <2>5. Begins(r.id, k.id)
    BY <1>1, <2>2, <2>3, <2>4, HandleHits
  <2> QED BY <2>1, <2>2, <2>5 DEF Unbanned, At
<1>5. CASE UNCHANGED kernel
  BY <1>5
<1> QED
  BY <1>2, <1>3, <1>4, <1>5 DEF Work, listBans, ensureBanFirewallRule, HandleOfAdded, RecordRule,
     saveState, WriteFile, listPortalBanRulesFromNft, DropRows, removeBanFirewallRule, Dropped, ForgetRule,
     writeAndMirror, reload, syncFirewallState, host

(* What they delete and add are rules of bans.                             *)
LEMMA WorkChain ==
  ASSUME Shape, HandlesOK, NEW w \in Workers, Work(w), ~failed'
  PROVE  /\ \A k \in kernel \ kernel' : k.id \in Ips
         /\ up = "up" => \A k \in kernel' \ kernel : k.id \in Ips
<1>1. task[w] \in Task /\ Fits(task[w]) /\ KernelOK
  BY WorkerIs DEF Shape
<1>2. ASSUME NEW k \in kernel \ kernel' PROVE k.id \in Ips
  <2>1. CASE Orphaned(w, k)
    BY <2>1 DEF Orphaned
  <2>2. CASE Unbanned(w, k)
    BY <1>1, <2>2, BanBegins DEF Unbanned, At, Fits
  <2> QED BY <2>1, <2>2, WorkDeletes
<1>3. ASSUME up = "up", NEW k \in kernel' \ kernel PROVE k.id \in Ips
  <2>1. CASE addFirewallRule(w)
    <3>1. task[w].id \in Ips
      BY <1>1, <2>1 DEF addFirewallRule, Await, At, Fits
    <3> QED BY <1>3, <2>1, <3>1 DEF addFirewallRule, AddRule
  <2>2. CASE ensureFirewallRule(w)
    BY <1>1, <1>3, <2>2 DEF ensureFirewallRule, Await, At, Fits, Shape, ControlOK
  <2>3. CASE kernel' \subseteq kernel
    BY <1>3, <2>3
  <2> QED
    BY <2>1, <2>2, <2>3 DEF Work, listBans, ensureBanFirewallRule, HandleOfAdded, RecordRule,
       saveState, WriteFile, listPortalBanRulesFromNft, DropRows, removeBanFirewallRule, Dropped, ForgetRule,
       DeleteOrphan, DropTarget, DeleteHandle, writeAndMirror, reload, syncFirewallState, host
<1> QED BY <1>2, <1>3

(* A request to delete a rule deletes rules that its id begins, and of an  *)
(* administrator's rule all.                                               *)
LEMMA DeleteChain ==
  ASSUME Shape, HandlesOK, NEW w \in Workers, deleteFirewallRule(w), ~failed'
  PROVE  \/ UNCHANGED <<kernel, task>>
         \/ \E r \in rules :
              /\ Goto(w, [Idle EXCEPT !.op = "deleteRule", !.id = r.id, !.pc = "deleted"])
              /\ \A k \in kernel \ kernel' : Begins(r.id, k.id)
              /\ kernel' \subseteq kernel
              /\ (\E k \in kernel : k.id = r.id) => \E k \in kernel \ kernel' : Begins(r.id, k.id)
<1>1. PICK r \in rules :
        /\ up = "up"
        /\ \/ /\ HandleOf(r) = NoHandle \/ Holds(HandleOf(r))
              /\ DeleteHandle(HandleOf(r)) /\ Accepted
              /\ Goto(w, [Idle EXCEPT !.op = "deleteRule", !.id = r.id, !.pc = "deleted"])
           \/ UNCHANGED <<kernel, task>>
  BY DEF deleteFirewallRule, Request, Fails
<1>2. SUFFICES ASSUME HandleOf(r) = NoHandle \/ Holds(HandleOf(r)), DeleteHandle(HandleOf(r)), Accepted,
                      Goto(w, [Idle EXCEPT !.op = "deleteRule", !.id = r.id, !.pc = "deleted"])
               PROVE  /\ \A k \in kernel \ kernel' : Begins(r.id, k.id)
                      /\ kernel' \subseteq kernel
                      /\ (\E k \in kernel : k.id = r.id) => \E k \in kernel \ kernel' : Begins(r.id, k.id)
  BY <1>1
<1>3. ~failed /\ KernelOK /\ r \in Ruled
  BY <1>1, <1>2 DEF Accepted, Shape, StoreOK
<1>4. Fresh(r)
  BY <1>1, <1>3, NoneRestoring DEF HandlesOK
<1>5. \A k \in kernel : k.handle = HandleOf(r) => Begins(r.id, k.id)
  BY <1>3, <1>4, HandleHits
<1>6. CASE HandleOf(r) = NoHandle
  <2>1. Found(r.id) = NoHandle /\ r.id \in Ids
    BY <1>3, <1>6 DEF HandleOf, Ruled
  <2>2. \A k \in kernel : k.id # r.id
    BY <1>3, <2>1, FoundOne DEF KernelOK, NoHandle
  <2> QED BY <1>2, <1>5, <2>2 DEF DeleteHandle
<1>7. CASE Holds(HandleOf(r))
  BY <1>2, <1>5, <1>7 DEF DeleteHandle, Holds
<1> QED BY <1>2, <1>6, <1>7

LEMMA WorkGoes ==
  ASSUME NEW w \in Workers, Work(w)
  PROVE  task[w].pc # "idle" /\ \E t : Goto(w, t)
<1>1. CASE listBans(w) \/ ensureBanFirewallRule(w) \/ HandleOfAdded(w) \/ listPortalBanRulesFromNft(w)
  BY <1>1 DEF listBans, ensureBanFirewallRule, HandleOfAdded, listPortalBanRulesFromNft, Await, At
<1>2. CASE addFirewallRule(w) \/ RecordRule(w) \/ saveState(w) \/ WriteFile(w)
  BY <1>2 DEF addFirewallRule, RecordRule, saveState, WriteFile, Await, At
<1>3. CASE DeleteOrphan(w) \/ DropRows(w) \/ removeBanFirewallRule(w) \/ DropTarget(w) \/ Dropped(w)
  BY <1>3 DEF DeleteOrphan, DropRows, removeBanFirewallRule, DropTarget, Dropped, Await, At
<1>4. CASE ForgetRule(w) \/ ensureFirewallRule(w) \/ syncFirewallState(w) \/ reload(w)
  BY <1>4 DEF ForgetRule, ensureFirewallRule, syncFirewallState, reload, Finish, Await, At
<1>5. CASE writeAndMirror(w)
  <2>1. task[w].pc \in {"jail", "jailCopy", "filter", "filterCopy"}
    BY <1>5 DEF writeAndMirror, Files
  <2>2. \E t : Goto(w, t)
    BY <1>5 DEF writeAndMirror, Finish
  <2> QED BY <2>1, <2>2
<1> QED BY <1>1, <1>2, <1>3, <1>4, <1>5 DEF Work

LEMMA OnlyItsRuleStep ==
  ASSUME Shape, HandlesOK, [Next]_vars, ~failed', NEW k \in kernel \ kernel'
  PROVE  up' = "down" \/ \E w \in Workers : Named(w, k) \/ Unbanned(w, k) \/ Orphaned(w, k)
<1>1. ASSUME NEW w \in Workers, Work(w) PROVE Unbanned(w, k) \/ Orphaned(w, k)
  BY <1>1, WorkDeletes
<1>2. ASSUME NEW w \in Workers, deleteFirewallRule(w) PROVE Named(w, k)
  <2>1. PICK r \in rules :
          /\ Goto(w, [Idle EXCEPT !.op = "deleteRule", !.id = r.id, !.pc = "deleted"])
          /\ \A q \in kernel \ kernel' : Begins(r.id, q.id)
    BY <1>2, DeleteChain
  <2>2. task'[w] = [Idle EXCEPT !.op = "deleteRule", !.id = r.id, !.pc = "deleted"]
    BY <2>1 DEF Goto, Shape, TasksOK
  <2>3. task'[w].op = "deleteRule" /\ task'[w].id = r.id
    BY <2>2 DEF Idle
  <2>4. At(w, "idle")
    BY <1>2 DEF deleteFirewallRule, Request
  <2> QED BY <2>1, <2>3, <2>4 DEF Named
<1>3. ASSUME NEW w \in Workers, createRule(w) PROVE kernel \subseteq kernel'
  BY <1>3 DEF createRule, AddRule
<1>4. ASSUME NEW w \in Workers,
             refreshFail2banState(w) \/ createBan(w) \/ removeBan(w) \/ updateFail2banConfig(w) \/ Start(w)
      PROVE  kernel' = kernel
  BY <1>4 DEF refreshFail2banState, createBan, removeBan, updateFail2banConfig, Start, host
<1>5. ASSUME NEW reboot \in BOOLEAN, Crash(reboot) PROVE up' = "down"
  BY <1>5 DEF Crash
<1>6. CASE Fail2ban \/ UNCHANGED vars
  BY <1>6 DEF Fail2ban, vars, host
<1> QED BY <1>1, <1>2, <1>3, <1>4, <1>5, <1>6 DEF Next, Ask

(* A rule leaves the chain only with the host, by a request that names it  *)
(* or a rule its name begins with, or as an orphan of the listing: for any *)
(* addresses, whichever begin alike, and whatever handles the host has     *)
(* given again, every handle the agent uses was found for the rule it      *)
(* means or for one it takes for it.                                       *)
THEOREM NoOtherRuleDeleted == Spec => OnlyItsRule
<1>1. Init => Shape /\ HandlesOK
  BY InitShape, HandlesInit
<1>2. Shape /\ HandlesOK /\ [Next]_vars => (Shape /\ HandlesOK)'
  BY NextShape, HandlesNext
<1>3. Shape /\ HandlesOK /\ [Next]_vars =>
        [~failed' => \A r \in kernel \ kernel' :
           up' = "down" \/ \E w \in Workers : Named(w, r) \/ Unbanned(w, r) \/ Orphaned(w, r)]_vars
  BY OnlyItsRuleStep
<1> QED BY <1>1, <1>2, <1>3, PTL DEF Spec, OnlyItsRule

-----------------------------------------------------------------------------
(* What fail2ban has loaded.                                               *)
LEMMA ConfigNext == Shape /\ Shape' /\ ConfigOK /\ [Next]_vars => ConfigOK'
<1> SUFFICES ASSUME Shape, Shape', ConfigOK, [Next]_vars, ~failed', up' # "down" PROVE ConfigOK'
  BY DEF ConfigOK
<1>1. ASSUME NEW w \in Workers, Start(w) PROVE ConfigOK'
  BY <1>1 DEF Start, ConfigOK
<1>2. ASSUME NEW w \in Workers, NEW t, Goto(w, t), UNCHANGED <<live, active, failed>>, up # "down",
             Changing(task[w]) => Changing(t)
      PROVE  ConfigOK'
  <2>1. \A v \in Workers : task'[v] = IF v = w THEN t ELSE task[v]
    BY <1>2 DEF Goto, Shape, TasksOK
  <2>2. \A v \in Workers : Changing(task[v]) => Changing(task'[v])
    BY <1>2, <2>1
  <2>3. active = live \/ \E v \in Workers : Changing(task[v])
    BY <1>2 DEF ConfigOK
  <2>4. active' = live' \/ \E v \in Workers : Changing(task'[v])
    BY <1>2, <2>2, <2>3
  <2> QED BY <2>4 DEF ConfigOK, Changing
<1>3. ASSUME NEW w \in Workers, writeAndMirror(w) PROVE ConfigOK'
  <2>1. PICK f \in Files :
          /\ task[w].pc \in {f, IF f = "jail" THEN "jailCopy" ELSE "filterCopy"}
          /\ Goto(w, [task[w] EXCEPT !.pc = Then[task[w].pc]])
    BY <1>3 DEF writeAndMirror, Fails
  <2>2. task[w].pc \in {"jail", "jailCopy", "filter", "filterCopy"}
    BY <2>1 DEF Files
  <2>3. task[w] \in Task /\ task[w].op = "config"
    BY <2>2, WorkerIs DEF Shape, Fits
  <2>4. Then[task[w].pc] \in {"jailCopy", "filter", "filterCopy", "reload"}
    BY <2>2 DEF Then
  <2>5. task'[w] = [task[w] EXCEPT !.pc = Then[task[w].pc]]
    BY <2>1 DEF Goto, Shape, TasksOK
  <2>6. Changing(task'[w])
    BY <2>3, <2>4, <2>5 DEF Changing, Task
  <2> QED BY <2>6 DEF ConfigOK, Changing
<1>4. ASSUME NEW w \in Workers, reload(w) PROVE ConfigOK'
  BY <1>4 DEF reload, ConfigOK, Fails
<1>5. ASSUME NEW w \in Workers, Work(w), ~writeAndMirror(w), ~reload(w) PROVE ConfigOK'
  <2>1. PICK t : Goto(w, t)
    BY <1>5, WorkGoes
  <2>2. UNCHANGED <<live, active>>
    BY <1>5 DEF Work, listBans, ensureBanFirewallRule, addFirewallRule, HandleOfAdded, RecordRule,
       saveState, WriteFile, listPortalBanRulesFromNft, DeleteOrphan, DropRows, removeBanFirewallRule,
       DropTarget, Dropped, ForgetRule, ensureFirewallRule, syncFirewallState, config
  <2>3. task[w].pc \notin {"jailCopy", "filter", "filterCopy", "reload"}
    BY <1>5 DEF Work, listBans, ensureBanFirewallRule, addFirewallRule, HandleOfAdded, RecordRule,
       saveState, WriteFile, listPortalBanRulesFromNft, DeleteOrphan, DropRows, removeBanFirewallRule,
       DropTarget, Dropped, ForgetRule, ensureFirewallRule, syncFirewallState, Await, At
  <2>4. Works \/ Fails
    BY <1>5 DEF Work, listBans, ensureBanFirewallRule, addFirewallRule, HandleOfAdded, RecordRule,
       saveState, WriteFile, listPortalBanRulesFromNft, DeleteOrphan, DropRows, removeBanFirewallRule,
       DropTarget, Dropped, ForgetRule, ensureFirewallRule, syncFirewallState, findRuleHandle
  <2>5. failed' = failed
    BY <2>4 DEF Works, Fails
  <2>6. task[w].pc # "idle" /\ up # "down"
    BY <1>5, WorkGoes DEF Shape, ControlOK, Idle
  <2> QED BY <1>2, <2>1, <2>2, <2>3, <2>5, <2>6 DEF Changing
<1>6. ASSUME NEW w \in Workers, refreshFail2banState(w) \/ Ask(w) PROVE ConfigOK'
  <2>1. /\ task[w].pc = "idle" /\ up = "up" /\ UNCHANGED <<live, active>>
    BY <1>6 DEF Ask, createBan, removeBan, createRule, deleteFirewallRule, updateFail2banConfig, Request, At,
       refreshFail2banState, config
  <2>2. failed' = failed
    BY <1>6 DEF Ask, createBan, removeBan, createRule, deleteFirewallRule, updateFail2banConfig,
       refreshFail2banState, bounds, Fails, Accepted
  <2>3. task' = task \/ \E t : Goto(w, t)
    BY <1>6 DEF Ask, createBan, removeBan, createRule, deleteFirewallRule, updateFail2banConfig,
       refreshFail2banState
  <2>4. CASE task' = task
    BY <2>1, <2>2, <2>4 DEF ConfigOK, Changing
  <2> QED BY <1>2, <2>1, <2>2, <2>3, <2>4 DEF Changing
<1>7. CASE Fail2ban \/ UNCHANGED vars
  BY <1>7 DEF Fail2ban, vars, config, bounds, ConfigOK, Changing
<1> QED BY <1>1, <1>3, <1>4, <1>5, <1>6, <1>7 DEF Next, Crash

(* Once no update is between its files and the end of the reload, and      *)
(* none failed, fail2ban has loaded the files that are on disk, over any   *)
(* interleaving of updates, restarts and reboots.                          *)
THEOREM ConfigIsLoaded == Spec => []ConfigLoaded
<1>1. Init => Shape /\ ConfigOK
  BY InitShape DEF Init, ConfigOK
<1>2. Shape /\ ConfigOK /\ [Next]_vars => (Shape /\ ConfigOK)'
  BY NextShape, ConfigNext
<1>3. ConfigOK => ConfigLoaded
  BY DEF ConfigOK, ConfigLoaded, Changing, At
<1> QED BY <1>1, <1>2, <1>3, PTL DEF Spec

-----------------------------------------------------------------------------
(* The rules of administrators.  A step that only touches rules of bans,   *)
(* and no task that adds or deletes a rule, keeps what is said of them.    *)
Minds(t) == IF t.op \in {"addRule", "deleteRule"} THEN <<t.op, t.id>> ELSE <<"none", NoId>>

LEMMA ManualQuiet ==
  ASSUME Shape, ManualOK, ~failed, ~crashed, up' = up,
         \A k \in kernel \ kernel' : k.id \in Ips, \A k \in kernel' \ kernel : k.id \in Ips,
         \A r \in rules \ rules' : r.id \in Ips, \A r \in rules' \ rules : r.id \in Ips,
         NEW w \in Workers, NEW t, Goto(w, t), Minds(t) = Minds(task[w]) \/ (t.id \notin Manual /\ task[w].id \notin Manual)
  PROVE  ManualOK'
<1>1. \A v \in Workers : task'[v] = IF v = w THEN t ELSE task[v]
  BY DEF Goto, Shape, TasksOK
<1>2. \A v \in Workers, id \in Manual : (Adds(v, id)' <=> Adds(v, id)) /\ (Deletes(v, id)' <=> Deletes(v, id))
  BY <1>1, AgentAssumption DEF Adds, Deletes, Minds, NoId
<1>3. \A id \in Manual : BusyWith(id)' <=> BusyWith(id)
  BY <1>2 DEF BusyWith, Adds, Deletes
<1>4. \A id \in Manual : (id \in IdsOf(kernel)' <=> id \in IdsOf(kernel)) /\ (id \in IdsOf(rules)' <=> id \in IdsOf(rules))
  BY AgentAssumption DEF IdsOf
<1>5. \A r \in kernel' : r.id \in Manual => r \in kernel
  BY AgentAssumption
<1>6. /\ up = "up"
      /\ \A r, s \in kernel : r.id = s.id /\ r.id \in Manual => r = s
      /\ \A id \in Manual :
           /\ ~BusyWith(id) => (id \in IdsOf(kernel) <=> id \in IdsOf(rules))
           /\ \A v \in Workers : Deletes(v, id) => id \notin IdsOf(kernel)
           /\ \A v \in Workers : Adds(v, id) =>
                /\ id \in IdsOf(kernel) /\ id \notin IdsOf(rules)
                /\ \A u \in Workers \ {v} : ~Adds(u, id)
  BY DEF ManualOK
<1>7. \A r, s \in kernel' : r.id = s.id /\ r.id \in Manual => r = s
  BY <1>5, <1>6
<1>8. ASSUME NEW id \in Manual
      PROVE  /\ ~BusyWith(id)' => (id \in IdsOf(kernel)' <=> id \in IdsOf(rules)')
             /\ \A v \in Workers : Deletes(v, id)' => id \notin IdsOf(kernel)'
             /\ \A v \in Workers : Adds(v, id)' =>
                  /\ id \in IdsOf(kernel)' /\ id \notin IdsOf(rules)'
                  /\ \A u \in Workers \ {v} : ~Adds(u, id)'
  BY <1>2, <1>3, <1>4, <1>6
<1> QED BY <1>6, <1>7, <1>8 DEF ManualOK

Special(w) == ForgetRule(w) \/ (RecordRule(w) /\ task[w].op = "addRule")

LEMMA WorkRules ==
  ASSUME Shape, NEW w \in Workers, Work(w), up = "up", ~Special(w)
  PROVE  /\ \A r \in rules \ rules' : r.id \in Ips
         /\ \A r \in rules' \ rules : r.id \in Ips
<1>1. task[w] \in Task /\ Fits(task[w]) /\ rules \subseteq Ruled
  BY WorkerIs DEF Shape, StoreOK
<1>2. CASE RecordRule(w)
  <2>1. task[w].pc = "record" /\ task[w].op # "addRule"
    BY <1>2 DEF RecordRule, Await, At, Special
  <2>2. task[w].id \in Ips
    BY <1>1, <2>1 DEF Fits
  <2> DEFINE row == [id |-> task[w].id, handle |-> task[w].handle]
  <2>3. \/ rules' = rules \cup {row}
        \/ \E r \in With(rules, task[w].id) : rules' = (rules \ {r}) \cup {row}
        \/ UNCHANGED rules
    BY <1>2 DEF RecordRule
  <2>4. row.id \in Ips
    BY <2>2
  <2> HIDE DEF row
  <2> QED BY <2>2, <2>3, <2>4 DEF With
<1>3. CASE DropRows(w)
  <2>1. rules' = Kept(task[w])
    BY <1>3 DEF DropRows
  <2>2. ASSUME NEW r \in rules, r.id \notin Ips PROVE r \in rules'
    BY <2>1, <2>2 DEF Kept
  <2>3. ASSUME NEW p \in rules', p \notin rules PROVE p.id \in Ips
    <3>1. PICK r \in rules : p = r \/ (r.id \in Ips /\ \E h : p = [r EXCEPT !.handle = h])
      BY <2>1 DEF Kept
    <3> QED BY <1>1, <2>3, <3>1 DEF Ruled
  <2> QED BY <2>2, <2>3
<1>4. CASE Dropped(w)
  <2>1. task[w].id \in Ips
    BY <1>1, <1>4 DEF Dropped, Await, At, Fits
  <2>2. rules' = rules \/ rules' = Without(rules, task[w].id)
    BY <1>4 DEF Dropped
  <2> QED BY <2>1, <2>2 DEF Without
<1>5. CASE ensureFirewallRule(w)
  BY <1>1, <1>5 DEF ensureFirewallRule, Await, At, Fits, Shape, ControlOK
<1>6. CASE UNCHANGED rules
  BY <1>6
<1> QED
  BY <1>2, <1>3, <1>4, <1>5, <1>6 DEF Work, Special, listBans, ensureBanFirewallRule, HandleOfAdded,
     addFirewallRule, saveState, WriteFile, listPortalBanRulesFromNft, DeleteOrphan, removeBanFirewallRule,
     DropTarget, writeAndMirror, reload, syncFirewallState, store

(* A step of a worker keeps its operation or ends it.                      *)
LEMMA WorkKeepsOp ==
  ASSUME Shape, NEW w \in Workers, Work(w)
  PROVE  \E t : Goto(w, t) /\ (t.op \in {task[w].op, "refresh"} \/ t = Idle)
<1>1. task[w] \in Task
  BY WorkerIs DEF Shape
<1>2. ASSUME NEW t, Goto(w, t), t.op \in {task[w].op, "refresh"} \/ t = Idle
      PROVE  \E s : Goto(w, s) /\ (s.op \in {task[w].op, "refresh"} \/ s = Idle)
  BY <1>2
<1>3. CASE listBans(w)
  <2>1. PICK seen : Goto(w, [Idle EXCEPT !.op = Syncs(task[w]), !.seen = seen, !.todo = seen, !.pc = "loop"])
    BY <1>3 DEF listBans
  <2>2. [Idle EXCEPT !.op = Syncs(task[w]), !.seen = seen, !.todo = seen, !.pc = "loop"].op \in {task[w].op, "refresh"}
    BY DEF Idle, Syncs
  <2> QED BY <1>2, <2>1, <2>2
<1>4. CASE ensureBanFirewallRule(w)
  <2>1. PICK id, h, flag, pc, todo :
          Goto(w, [task[w] EXCEPT !.id = id, !.todo = todo, !.flag = flag, !.handle = h, !.pc = pc])
    BY <1>4 DEF ensureBanFirewallRule
  <2>2. [task[w] EXCEPT !.id = id, !.todo = todo, !.flag = flag, !.handle = h, !.pc = pc].op = task[w].op
    BY <1>1 DEF Task
  <2> QED BY <1>2, <2>1, <2>2
<1>5. CASE addFirewallRule(w)
  <2>1. Goto(w, [task[w] EXCEPT !.pc = "added"]) \/ Goto(w, Returned(task[w]))
    BY <1>5 DEF addFirewallRule
  <2>2. [task[w] EXCEPT !.pc = "added"].op = task[w].op
    BY <1>1 DEF Task
  <2>3. Returned(task[w]).op = task[w].op \/ Returned(task[w]) = Idle
    BY DEF Returned, Idle
  <2> QED BY <1>2, <2>1, <2>2, <2>3
<1>6. CASE HandleOfAdded(w)
  <2>1. PICK h : Goto(w, [task[w] EXCEPT !.handle = h, !.pc = "record"])
    BY <1>6 DEF HandleOfAdded
  <2>2. [task[w] EXCEPT !.handle = h, !.pc = "record"].op = task[w].op
    BY <1>1 DEF Task
  <2> QED BY <1>2, <2>1, <2>2
<1>7. CASE RecordRule(w) \/ DropRows(w) \/ Dropped(w) \/ ForgetRule(w) \/ syncFirewallState(w)
  <2>1. PICK then : Goto(w, Save(task[w], then))
    BY <1>7 DEF RecordRule, DropRows, Dropped, ForgetRule, syncFirewallState
  <2>2. Save(task[w], then).op = task[w].op
    BY DEF Save, Idle
  <2> QED BY <1>2, <2>1, <2>2
<1>8. CASE saveState(w) \/ listPortalBanRulesFromNft(w)
  <2>1. PICK rows, pc : Goto(w, [task[w] EXCEPT !.rows = rows, !.pc = pc])
    BY <1>8 DEF saveState, listPortalBanRulesFromNft
  <2>2. [task[w] EXCEPT !.rows = rows, !.pc = pc].op = task[w].op
    BY <1>1 DEF Task
  <2> QED BY <1>2, <2>1, <2>2
<1>9. CASE WriteFile(w)
  <2>1. Goto(w, Idle) \/ Goto(w, [task[w] EXCEPT !.pc = task[w].then, !.then = "idle", !.rows = {}])
    BY <1>9 DEF WriteFile
  <2>2. [task[w] EXCEPT !.pc = task[w].then, !.then = "idle", !.rows = {}].op = task[w].op
    BY <1>1 DEF Task
  <2> QED BY <1>2, <2>1, <2>2
<1>10. CASE DeleteOrphan(w) \/ DropTarget(w) \/ ensureFirewallRule(w)
  <2>1. PICK r : \/ Goto(w, [task[w] EXCEPT !.rows = @ \ {r}])
                 \/ Goto(w, [task[w] EXCEPT !.rows = @ \ {r}, !.flag = TRUE])
    <3>1. CASE DeleteOrphan(w)
      BY <3>1 DEF DeleteOrphan
    <3>2. CASE DropTarget(w)
      BY <3>2 DEF DropTarget
    <3>3. CASE ensureFirewallRule(w)
      BY <3>3 DEF ensureFirewallRule
    <3> QED BY <1>10, <3>1, <3>2, <3>3
  <2>2. /\ [task[w] EXCEPT !.rows = @ \ {r}].op = task[w].op
        /\ [task[w] EXCEPT !.rows = @ \ {r}, !.flag = TRUE].op = task[w].op
    BY <1>1 DEF Task
  <2> QED BY <1>2, <2>1, <2>2
<1>11. CASE removeBanFirewallRule(w)
  <2>1. PICK rows, pc : Goto(w, [task[w] EXCEPT !.rows = rows, !.flag = FALSE, !.pc = pc])
    BY <1>11 DEF removeBanFirewallRule
  <2>2. [task[w] EXCEPT !.rows = rows, !.flag = FALSE, !.pc = pc].op = task[w].op
    BY <1>1 DEF Task
  <2> QED BY <1>2, <2>1, <2>2
<1>12. CASE writeAndMirror(w) \/ reload(w)
  <2>1. PICK pc : Goto(w, [task[w] EXCEPT !.pc = pc]) \/ Goto(w, Idle)
    BY <1>12 DEF writeAndMirror, reload, Finish
  <2>2. [task[w] EXCEPT !.pc = pc].op = task[w].op
    BY <1>1 DEF Task
  <2> QED BY <1>2, <2>1, <2>2
<1> QED BY <1>3, <1>4, <1>5, <1>6, <1>7, <1>8, <1>9, <1>10, <1>11, <1>12 DEF Work

LEMMA WorkMinds ==
  ASSUME Shape, NEW w \in Workers, Work(w), ~Special(w)
  PROVE  \E t : Goto(w, t) /\ (Minds(t) = Minds(task[w]) \/ (t.id = NoId /\ task[w].id = NoId))
<1>1. task[w] \in Task /\ Fits(task[w])
  BY WorkerIs DEF Shape
<1>2. CASE task[w].op \notin {"addRule", "deleteRule"}
  <2>1. PICK t : Goto(w, t) /\ (t.op \in {task[w].op, "refresh"} \/ t = Idle)
    BY WorkKeepsOp
  <2>2. Minds(t) = Minds(task[w])
    BY <1>2, <2>1 DEF Minds, Idle
  <2> QED BY <2>1, <2>2
<1>3. CASE task[w].op \in {"addRule", "deleteRule"}
  <2>1. task[w].pc \in {"added", "record", "deleted", "save", "write"}
    BY <1>1, <1>3 DEF Fits
  <2>2. HandleOfAdded(w) \/ RecordRule(w) \/ ForgetRule(w) \/ saveState(w) \/ WriteFile(w)
    BY <2>1 DEF Work, listBans, ensureBanFirewallRule, addFirewallRule, listPortalBanRulesFromNft, DeleteOrphan,
       DropRows, removeBanFirewallRule, DropTarget, Dropped, ensureFirewallRule, syncFirewallState,
       writeAndMirror, reload, Files, Await, At
  <2>3. HandleOfAdded(w) \/ saveState(w) \/ WriteFile(w)
    BY <1>1, <1>3, <2>2 DEF Special, RecordRule, Await, At, Fits
  <2>4. CASE HandleOfAdded(w)
    <3>1. PICK h : Goto(w, [task[w] EXCEPT !.handle = h, !.pc = "record"])
      BY <2>4 DEF HandleOfAdded
    <3> DEFINE t == [task[w] EXCEPT !.handle = h, !.pc = "record"]
    <3>2. t.op = task[w].op /\ t.id = task[w].id /\ Goto(w, t)
      BY <1>1, <3>1 DEF Task
    <3> HIDE DEF t
    <3> QED BY <3>2 DEF Minds
  <2>5. CASE saveState(w)
    <3> DEFINE t == [task[w] EXCEPT !.rows = rules, !.pc = "write"]
    <3>1. t.id = task[w].id /\ Goto(w, t) /\ task[w].id = NoId
      BY <1>1, <2>5 DEF Task, saveState, Await, At, Fits
    <3> HIDE DEF t
    <3> QED BY <3>1
  <2>6. CASE WriteFile(w)
    <3>1. Goto(w, Idle) /\ task[w].id = NoId
      BY <1>1, <1>3, <2>6 DEF WriteFile, Await, At, Fits
    <3>2. Idle.id = NoId
      BY DEF Idle
    <3> QED BY <3>1, <3>2
  <2> QED BY <2>3, <2>4, <2>5, <2>6
<1> QED BY <1>2, <1>3

LEMMA WorkUp ==
  ASSUME Shape, NEW w \in Workers, Work(w), up = "up"
  PROVE  up' = up
<1>1. task[w].op # "start"
  BY DEF Shape, ControlOK
<1>2. CASE WriteFile(w)
  BY <1>1, <1>2 DEF WriteFile
<1> QED
  BY <1>2 DEF Work, listBans, ensureBanFirewallRule, addFirewallRule, HandleOfAdded, RecordRule,
     saveState, listPortalBanRulesFromNft, DeleteOrphan, DropRows, removeBanFirewallRule,
     DropTarget, Dropped, ForgetRule, ensureFirewallRule, syncFirewallState, writeAndMirror, reload

LEMMA ManualWork ==
  ASSUME Shape, HandlesOK, ManualOK, ~failed, ~failed', ~crashed, NEW w \in Workers, Work(w), ~Special(w)
  PROVE  ManualOK'
<1>1. up = "up" /\ up' = up
  BY WorkUp DEF ManualOK
<1>2. /\ \A k \in kernel \ kernel' : k.id \in Ips
      /\ \A k \in kernel' \ kernel : k.id \in Ips
  BY <1>1, WorkChain
<1>3. /\ \A r \in rules \ rules' : r.id \in Ips
      /\ \A r \in rules' \ rules : r.id \in Ips
  BY <1>1, WorkRules
<1>4. PICK t : Goto(w, t) /\ (Minds(t) = Minds(task[w]) \/ (t.id = NoId /\ task[w].id = NoId))
  BY WorkMinds
<1>5. NoId \notin Manual
  BY AgentAssumption DEF NoId
<1> QED BY <1>1, <1>2, <1>3, <1>4, <1>5, ManualQuiet

(* What the invariant says of one rule.                                    *)
Agrees(id) ==
  /\ ~BusyWith(id) => (id \in IdsOf(kernel) <=> id \in IdsOf(rules))
  /\ \A w \in Workers : Deletes(w, id) => id \notin IdsOf(kernel)
  /\ \A w \in Workers : Adds(w, id) =>
       /\ id \in IdsOf(kernel) /\ id \notin IdsOf(rules)
       /\ \A v \in Workers \ {w} : ~Adds(v, id)

LEMMA ManualParts ==
  ASSUME ManualOK, ~failed, ~crashed
  PROVE  /\ up = "up"
         /\ \A r, s \in kernel : r.id = s.id /\ r.id \in Manual => r = s
         /\ \A id \in Manual : Agrees(id)
BY DEF ManualOK, Agrees

(* The row of a rule that is in the chain comes into the list.             *)
LEMMA ManualRecord ==
  ASSUME Shape, ManualOK, ~failed, ~crashed, NEW w \in Workers, RecordRule(w), task[w].op = "addRule"
  PROVE  ManualOK'
<1>1. task[w] \in Task /\ Fits(task[w]) /\ task[w].pc = "record"
  BY WorkerIs DEF Shape, RecordRule, Await, At
<1>2. task[w].id \in Manual /\ ~task[w].flag
  BY <1>1 DEF Fits
<1> DEFINE mine == task[w].id
<1>3. PICK row : row = [id |-> mine, handle |-> task[w].handle]
  OBVIOUS
<1>4. rules' = rules \cup {row} /\ row.id = mine
  BY <1>2, <1>3 DEF RecordRule
<1>5. Goto(w, Save(task[w], "idle")) /\ UNCHANGED <<kernel, up>>
  BY DEF RecordRule, host
<1>6. Save(task[w], "idle").id = NoId /\ NoId \notin Manual
  BY AgentAssumption DEF Save, Idle, NoId
<1>7. \A v \in Workers : task'[v] = IF v = w THEN Save(task[w], "idle") ELSE task[v]
  BY <1>5 DEF Goto, Shape, TasksOK
<1>8. \A v \in Workers, id \in Manual : /\ Adds(v, id)' <=> Adds(v, id) /\ v # w
                                        /\ Deletes(v, id)' <=> Deletes(v, id) /\ v # w
  BY <1>6, <1>7 DEF Adds, Deletes
<1>9. Adds(w, mine) /\ ~Deletes(w, mine) /\ \A id \in Manual : (Adds(w, id) => id = mine) /\ ~Deletes(w, id)
  BY DEF Adds, Deletes
<1>10. ASSUME NEW id \in Manual PROVE Agrees(id)'
  <2>1. Agrees(id)
    BY ManualParts
  <2>2. BusyWith(id) <=> \E v \in Workers : Adds(v, id) \/ Deletes(v, id)
    BY DEF BusyWith, Adds, Deletes
  <2>3. BusyWith(id)' <=> \E v \in Workers : Adds(v, id)' \/ Deletes(v, id)'
    BY DEF BusyWith, Adds, Deletes
  <2>4. id \in IdsOf(kernel)' <=> id \in IdsOf(kernel)
    BY <1>5 DEF IdsOf
  <2>5. id \in IdsOf(rules)' <=> id \in IdsOf(rules) \/ id = mine
    BY <1>4 DEF IdsOf
  <2>6. CASE id # mine
    BY <1>8, <1>9, <2>1, <2>2, <2>3, <2>4, <2>5, <2>6 DEF Agrees
  <2>7. CASE id = mine
    <3>1. id \in IdsOf(kernel) /\ \A v \in Workers \ {w} : ~Adds(v, id)
      BY <1>9, <2>1, <2>7 DEF Agrees
    <3>2. \A v \in Workers : ~Deletes(v, id)
      BY <2>1, <3>1 DEF Agrees
    <3>3. \A v \in Workers : ~Adds(v, id)' /\ ~Deletes(v, id)'
      BY <1>8, <3>1, <3>2
    <3> QED BY <2>3, <2>4, <2>5, <2>7, <3>1, <3>3 DEF Agrees
  <2> QED BY <2>6, <2>7
<1> QED BY <1>5, <1>10, ManualParts DEF ManualOK, Agrees

(* A rule that has left the chain leaves the list.                         *)
LEMMA ManualForget ==
  ASSUME Shape, ManualOK, ~failed, ~crashed, NEW w \in Workers, ForgetRule(w)
  PROVE  ManualOK'
<1>1. task[w] \in Task /\ Fits(task[w]) /\ task[w].pc = "deleted"
  BY WorkerIs DEF Shape, ForgetRule, Await, At
<1>2. task[w].op = "deleteRule"
  BY <1>1 DEF Fits
<1> DEFINE mine == task[w].id
<1>3. rules' = Without(rules, mine) /\ Goto(w, Save(task[w], "idle")) /\ UNCHANGED <<kernel, up>>
  BY DEF ForgetRule, host
<1>4. Save(task[w], "idle").id = NoId /\ NoId \notin Manual
  BY AgentAssumption DEF Save, Idle, NoId
<1>5. \A v \in Workers : task'[v] = IF v = w THEN Save(task[w], "idle") ELSE task[v]
  BY <1>3 DEF Goto, Shape, TasksOK
<1>6. \A v \in Workers, id \in Manual : /\ Adds(v, id)' <=> Adds(v, id) /\ v # w
                                        /\ Deletes(v, id)' <=> Deletes(v, id) /\ v # w
  BY <1>4, <1>5 DEF Adds, Deletes
<1>7. Deletes(w, mine) /\ \A id \in Manual : (Deletes(w, id) => id = mine) /\ ~Adds(w, id)
  BY <1>2 DEF Adds, Deletes
<1>8. ASSUME NEW id \in Manual PROVE Agrees(id)'
  <2>1. Agrees(id)
    BY ManualParts
  <2>2. BusyWith(id) <=> \E v \in Workers : Adds(v, id) \/ Deletes(v, id)
    BY DEF BusyWith, Adds, Deletes
  <2>3. BusyWith(id)' <=> \E v \in Workers : Adds(v, id)' \/ Deletes(v, id)'
    BY DEF BusyWith, Adds, Deletes
  <2>4. id \in IdsOf(kernel)' <=> id \in IdsOf(kernel)
    BY <1>3 DEF IdsOf
  <2>5. id \in IdsOf(rules)' <=> id \in IdsOf(rules) /\ id # mine
    BY <1>3 DEF IdsOf, Without
  <2>6. CASE id # mine
    BY <1>6, <1>7, <2>1, <2>2, <2>3, <2>4, <2>5, <2>6 DEF Agrees
  <2>7. CASE id = mine
    <3>1. id \notin IdsOf(kernel) /\ \A v \in Workers : ~Adds(v, id)
      BY <1>7, <2>1, <2>7 DEF Agrees
    <3> QED BY <1>6, <2>4, <2>5, <2>7, <3>1 DEF Agrees
  <2> QED BY <2>6, <2>7
<1> QED BY <1>3, <1>8, ManualParts DEF ManualOK, Agrees

(* A new rule is in the chain before it is listed.                         *)
LEMMA ManualCreate ==
  ASSUME Shape, ManualOK, ~failed, ~failed', ~crashed, NEW w \in Workers, createRule(w)
  PROVE  ManualOK'
<1>1. PICK mine \in Manual \ Known :
        /\ AddRule(mine) /\ Goto(w, [Idle EXCEPT !.op = "addRule", !.id = mine, !.pc = "added"])
  BY DEF createRule, Fails
<1>2. /\ mine \notin IdsOf(kernel) /\ mine \notin IdsOf(rules) /\ \A v \in Workers : task[v].id # mine
  BY <1>1 DEF Known
<1>3. UNCHANGED <<rules, up>> /\ task[w] = Idle
  BY WorkerIs DEF createRule, store, Request, At, Shape, Fits
<1>4. PICK t : t = [Idle EXCEPT !.op = "addRule", !.id = mine, !.pc = "added"]
  OBVIOUS
<1>5. t.op = "addRule" /\ t.id = mine
  BY <1>4 DEF Idle
<1>6. \A v \in Workers : task'[v] = IF v = w THEN t ELSE task[v]
  BY <1>1, <1>4 DEF Goto, Shape, TasksOK
<1>7. \A v \in Workers, id \in Manual : /\ Adds(v, id)' <=> (Adds(v, id) \/ (v = w /\ id = mine))
                                        /\ Deletes(v, id)' <=> Deletes(v, id)
  BY <1>3, <1>5, <1>6 DEF Adds, Deletes, Idle
<1>8. \A v \in Workers : ~Adds(v, mine) /\ ~Deletes(v, mine)
  BY <1>2 DEF Adds, Deletes
<1>9. PICK new : new = [id |-> mine, handle |-> nextHandle]
  OBVIOUS
<1>10. kernel' = kernel \cup {new} /\ new.id = mine
  BY <1>1, <1>9 DEF AddRule
<1>11. ASSUME NEW id \in Manual PROVE Agrees(id)'
  <2>1. Agrees(id)
    BY ManualParts
  <2>2. BusyWith(id) <=> \E v \in Workers : Adds(v, id) \/ Deletes(v, id)
    BY DEF BusyWith, Adds, Deletes
  <2>3. BusyWith(id)' <=> \E v \in Workers : Adds(v, id)' \/ Deletes(v, id)'
    BY DEF BusyWith, Adds, Deletes
  <2>4. id \in IdsOf(kernel)' <=> id \in IdsOf(kernel) \/ id = mine
    BY <1>10 DEF IdsOf
  <2>5. id \in IdsOf(rules)' <=> id \in IdsOf(rules)
    BY <1>3 DEF IdsOf
  <2>6. CASE id # mine
    BY <1>7, <2>1, <2>2, <2>3, <2>4, <2>5, <2>6 DEF Agrees
  <2>7. CASE id = mine
    <3>1. id \notin IdsOf(rules)
      BY <1>2, <2>7
    <3>2. BusyWith(id)' /\ \A v \in Workers : Adds(v, id)' => v = w
      BY <1>7, <1>8, <2>3, <2>7
    <3>3. \A v \in Workers : ~Deletes(v, id)'
      BY <1>7, <1>8, <2>7
    <3> QED BY <2>4, <2>5, <2>7, <3>1, <3>2, <3>3 DEF Agrees
  <2> QED BY <2>6, <2>7
<1>12. \A r, s \in kernel' : r.id = s.id /\ r.id \in Manual => r = s
  <2>1. \A r \in kernel : r.id # mine
    BY <1>2 DEF IdsOf
  <2> QED BY <1>10, <2>1, ManualParts
<1> QED BY <1>3, <1>11, <1>12, ManualParts DEF ManualOK, Agrees

(* A rule that is to be deleted leaves the chain before the list.          *)
LEMMA ManualDelete ==
  ASSUME Shape, HandlesOK, ManualOK, ~failed, ~failed', ~crashed, NEW w \in Workers, deleteFirewallRule(w)
  PROVE  ManualOK'
<1>1. UNCHANGED <<rules, up>> /\ task[w] = Idle
  BY WorkerIs DEF deleteFirewallRule, store, Request, At, Shape, Fits
<1>2. CASE UNCHANGED <<kernel, task>>
  BY <1>1, <1>2 DEF ManualOK, BusyWith, Adds, Deletes, IdsOf
<1>3. ASSUME NEW r \in rules, r.id \in Ips,
             Goto(w, [Idle EXCEPT !.op = "deleteRule", !.id = r.id, !.pc = "deleted"]),
             \A k \in kernel \ kernel' : Begins(r.id, k.id), kernel' \subseteq kernel
      PROVE  ManualOK'
  <2>1. PICK t : t = [Idle EXCEPT !.op = "deleteRule", !.id = r.id, !.pc = "deleted"]
    OBVIOUS
  <2>2. t.id \notin Manual /\ task[w].id \notin Manual
    BY <1>1, <1>3, <2>1, AgentAssumption DEF Idle, NoId
  <2>3. \A k \in kernel \ kernel' : k.id \in Ips
    BY <1>3, BanBegins
  <2> QED BY <1>1, <1>3, <2>1, <2>2, <2>3, ManualQuiet
<1>4. ASSUME NEW r \in rules, r.id \in Manual,
             Goto(w, [Idle EXCEPT !.op = "deleteRule", !.id = r.id, !.pc = "deleted"]),
             \A k \in kernel \ kernel' : k.id = r.id, kernel' \subseteq kernel,
             (\E k \in kernel : k.id = r.id) => \E k \in kernel \ kernel' : k.id = r.id
      PROVE  ManualOK'
  <2>1. PICK t : t = [Idle EXCEPT !.op = "deleteRule", !.id = r.id, !.pc = "deleted"]
    OBVIOUS
  <2>2. t.op = "deleteRule" /\ t.id = r.id
    BY <2>1 DEF Idle
  <2>3. \A v \in Workers : task'[v] = IF v = w THEN t ELSE task[v]
    BY <1>4, <2>1 DEF Goto, Shape, TasksOK
  <2>4. \A v \in Workers, id \in Manual : /\ Deletes(v, id)' <=> (Deletes(v, id) \/ (v = w /\ id = r.id))
                                          /\ Adds(v, id)' <=> Adds(v, id)
    BY <1>1, <2>2, <2>3 DEF Adds, Deletes, Idle
  <2>5. \A p, q \in kernel : p.id = q.id /\ p.id \in Manual => p = q
    BY ManualParts
  <2>6. r.id \notin IdsOf(kernel)'
    BY <1>4, <2>5 DEF IdsOf
  <2>7. r.id \in IdsOf(rules)
    BY DEF IdsOf
  <2>8. ASSUME NEW id \in Manual PROVE Agrees(id)'
    <3>1. Agrees(id)
      BY ManualParts
    <3>2. BusyWith(id) <=> \E v \in Workers : Adds(v, id) \/ Deletes(v, id)
      BY DEF BusyWith, Adds, Deletes
    <3>3. BusyWith(id)' <=> \E v \in Workers : Adds(v, id)' \/ Deletes(v, id)'
      BY DEF BusyWith, Adds, Deletes
    <3>4. id \in IdsOf(rules)' <=> id \in IdsOf(rules)
      BY <1>1 DEF IdsOf
    <3>5. CASE id # r.id
      <4>1. id \in IdsOf(kernel)' <=> id \in IdsOf(kernel)
        BY <1>4, <3>5 DEF IdsOf
      <4> QED BY <2>4, <3>1, <3>2, <3>3, <3>4, <3>5, <4>1 DEF Agrees
    <3>6. CASE id = r.id
      <4>1. \A v \in Workers : ~Adds(v, id)
        BY <2>7, <3>1, <3>6 DEF Agrees
      <4>2. BusyWith(id)' /\ \A v \in Workers : ~Adds(v, id)'
        BY <2>4, <3>3, <3>6, <4>1
      <4> QED BY <2>6, <3>6, <4>2 DEF Agrees
    <3> QED BY <3>5, <3>6
  <2> QED BY <1>1, <1>4, <2>5, <2>8, ManualParts DEF ManualOK, Agrees
<1>5. PICK r \in rules :
        \/ UNCHANGED <<kernel, task>>
        \/ /\ Goto(w, [Idle EXCEPT !.op = "deleteRule", !.id = r.id, !.pc = "deleted"])
           /\ \A k \in kernel \ kernel' : Begins(r.id, k.id)
           /\ kernel' \subseteq kernel
           /\ (\E k \in kernel : k.id = r.id) => \E k \in kernel \ kernel' : Begins(r.id, k.id)
  BY DeleteChain DEF deleteFirewallRule
<1>6. r.id \in Ips \cup Manual
  BY DEF Shape, StoreOK, Ruled, Ids
<1>7. r.id \in Manual => \A k \in kernel : Begins(r.id, k.id) <=> k.id = r.id
  BY ManualBegins DEF Begins
<1> QED BY <1>2, <1>3, <1>4, <1>5, <1>6, <1>7

LEMMA ManualAsk ==
  ASSUME Shape, ManualOK, ~failed, ~failed', ~crashed, NEW w \in Workers,
         refreshFail2banState(w) \/ createBan(w) \/ removeBan(w) \/ updateFail2banConfig(w)
  PROVE  ManualOK'
<1>1. UNCHANGED <<kernel, rules, up>> /\ task[w].pc = "idle"
  BY DEF refreshFail2banState, createBan, removeBan, updateFail2banConfig, host, store, Request, At
<1>2. task[w] = Idle
  BY <1>1, WorkerIs DEF Shape, Fits
<1>3. PICK op, t : Goto(w, t) /\ t.op = op /\ op \in {"refresh", "ban", "unban", "config"}
  <2>1. CASE refreshFail2banState(w)
    <3> DEFINE t == [Idle EXCEPT !.op = "refresh", !.pc = "list"]
    <3>1. t.op = "refresh" /\ Goto(w, t)
      BY <2>1 DEF refreshFail2banState, Idle
    <3> HIDE DEF t
    <3> QED BY <3>1
  <2>2. CASE createBan(w)
    <3>1. PICK id : Goto(w, [Idle EXCEPT !.op = "ban", !.pc = "loop", !.todo = {id}])
      BY <2>2 DEF createBan, Fails
    <3> DEFINE t == [Idle EXCEPT !.op = "ban", !.pc = "loop", !.todo = {id}]
    <3>2. t.op = "ban" /\ Goto(w, t)
      BY <3>1 DEF Idle
    <3> HIDE DEF t
    <3> QED BY <3>2
  <2>3. CASE removeBan(w)
    <3>1. PICK id, exact : Goto(w, [Idle EXCEPT !.op = "unban", !.id = id, !.flag = exact, !.pc = "remove"])
      BY <2>3 DEF removeBan, Fails
    <3> DEFINE t == [Idle EXCEPT !.op = "unban", !.id = id, !.flag = exact, !.pc = "remove"]
    <3>2. t.op = "unban" /\ Goto(w, t)
      BY <3>1 DEF Idle
    <3> HIDE DEF t
    <3> QED BY <3>2
  <2>4. CASE updateFail2banConfig(w)
    <3> DEFINE t == [Idle EXCEPT !.op = "config", !.handle = events + 1, !.pc = "jail"]
    <3>1. t.op = "config" /\ Goto(w, t)
      BY <2>4 DEF updateFail2banConfig, Idle
    <3> HIDE DEF t
    <3> QED BY <3>1
  <2> QED BY <2>1, <2>2, <2>3, <2>4
<1>4. Minds(t) = Minds(task[w])
  BY <1>2, <1>3 DEF Minds, Idle
<1> QED BY <1>1, <1>3, <1>4, ManualQuiet

LEMMA Failing ==
  ASSUME [Next]_vars, ~failed', ~crashed'
  PROVE  ~failed /\ ~crashed
<1>1. ASSUME NEW w \in Workers, Work(w) PROVE ~failed /\ ~crashed
  <2>1. Works \/ Fails
    BY <1>1 DEF Work, listBans, ensureBanFirewallRule, addFirewallRule, HandleOfAdded, RecordRule,
       saveState, WriteFile, listPortalBanRulesFromNft, DeleteOrphan, DropRows, removeBanFirewallRule,
       DropTarget, Dropped, ForgetRule, ensureFirewallRule, syncFirewallState, findRuleHandle, writeAndMirror, reload
  <2>2. UNCHANGED crashed
    BY <1>1 DEF Work, listBans, ensureBanFirewallRule, addFirewallRule, HandleOfAdded, RecordRule,
       saveState, WriteFile, listPortalBanRulesFromNft, DeleteOrphan, DropRows, removeBanFirewallRule,
       DropTarget, Dropped, ForgetRule, ensureFirewallRule, syncFirewallState, writeAndMirror, reload, Await
  <2> QED BY <2>1, <2>2 DEF Works, Fails
<1>2. ASSUME NEW w \in Workers, Ask(w) PROVE ~failed /\ ~crashed
  <2>1. Accepted \/ Fails
    BY <1>2 DEF Ask, createBan, removeBan, createRule, deleteFirewallRule, updateFail2banConfig
  <2>2. UNCHANGED crashed
    BY <1>2 DEF Ask, createBan, removeBan, createRule, deleteFirewallRule, updateFail2banConfig, Request
  <2> QED BY <2>1, <2>2 DEF Accepted, Fails
<1>3. ASSUME NEW w \in Workers, refreshFail2banState(w) \/ Start(w) PROVE ~failed /\ ~crashed
  BY <1>3 DEF refreshFail2banState, Start, bounds
<1>4. CASE Fail2ban \/ UNCHANGED vars
  BY <1>4 DEF Fail2ban, vars, bounds
<1> QED BY <1>1, <1>2, <1>3, <1>4 DEF Next, Crash

LEMMA ManualNext == Shape /\ HandlesOK /\ ManualOK /\ [Next]_vars => ManualOK'
<1> SUFFICES ASSUME Shape, HandlesOK, ManualOK, [Next]_vars, ~failed', ~crashed' PROVE ManualOK'
  BY DEF ManualOK
<1>1. ~failed
  BY Failing
<1>2. ~crashed
  BY Failing
<1>3. ASSUME NEW w \in Workers, Work(w) PROVE ManualOK'
  BY <1>1, <1>2, <1>3, ManualWork, ManualRecord, ManualForget DEF Special
<1>4. ASSUME NEW w \in Workers, Start(w) PROVE ManualOK'
  BY <1>1, <1>2, <1>4, ManualParts DEF Start
<1>5. ASSUME UNCHANGED <<kernel, rules, up, task>> PROVE ManualOK'
  BY <1>1, <1>2, <1>5 DEF ManualOK, BusyWith, Adds, Deletes, IdsOf
<1>6. CASE Fail2ban \/ UNCHANGED vars
  BY <1>5, <1>6 DEF Fail2ban, vars, host, store
<1>7. ASSUME NEW reboot \in BOOLEAN, Crash(reboot) PROVE FALSE
  BY <1>7 DEF Crash
<1> QED BY <1>1, <1>2, <1>3, <1>4, <1>6, <1>7, ManualAsk, ManualCreate, ManualDelete DEF Next, Ask

(* While no command failed and the agent was not restarted, the rules of   *)
(* administrators in the chain are those the agent lists, but for one that *)
(* a request is adding or deleting just now: no refresh, ban or request    *)
(* that runs beside comes between the chain and the list.                  *)
THEOREM ManualRulesAgree == Spec => []ManualAgrees
<1>1. Init => Shape /\ HandlesOK /\ ManualOK
  <2> SUFFICES ASSUME Init PROVE ManualOK
    BY InitShape, HandlesInit
  <2>1. PICK order \in Injection(Present, 1 .. Cardinality(Present)) :
          kernel = {[id |-> id, handle |-> order[id]] : id \in Present}
    BY DEF Init
  <2>2. \A r, s \in kernel : r.id = s.id => r = s
    BY <2>1
  <2>3. \A w \in Workers, id \in Manual : ~Adds(w, id) /\ ~Deletes(w, id)
    BY DEF Init, Idle, Adds, Deletes
  <2>4. rules = kernel /\ up = "up"
    BY DEF Init
  <2> QED BY <2>2, <2>3, <2>4 DEF ManualOK
<1>2. Shape /\ HandlesOK /\ ManualOK /\ [Next]_vars => (Shape /\ HandlesOK /\ ManualOK)'
  BY NextShape, HandlesNext, ManualNext
<1>3. ManualOK => ManualAgrees
  BY DEF ManualOK, ManualAgrees
<1> QED BY <1>1, <1>2, <1>3, PTL DEF Spec
=============================================================================
