---------------------------- MODULE SecurityAgent ----------------------------
(***************************************************************************)
(* The agent beside fail2ban and nftables (security-agent/src/server.js).  *)
(* It copies the bans of fail2ban into firewall rules, keeps the rules     *)
(* that administrators add, and writes fail2ban's configuration.  The      *)
(* truth is in four places: fail2ban, the kernel's chain, the agent's      *)
(* memory and its state file.                                              *)
(*                                                                         *)
(* The agent is one thread.  A step is what it does after an await         *)
(* returned, with the effect of the command or write it then awaits; a     *)
(* timer that does not wait for its last run and HTTP requests interleave. *)
(* A ban is named by its address: there is one jail.                       *)
(***************************************************************************)
EXTENDS Naturals, FiniteSets, FiniteSetsExt, Functions

CONSTANTS
  Ips,           \* addresses that are banned; the id of a ban rule
  Manual,        \* rules an administrator creates; a uuid each
  Workers,       \* refreshes and requests that are served at the same time
  Prefixes,      \* pairs of addresses whose rules begin alike: none begins like a uuid
  Ops,           \* kinds of request that are made
  Present,       \* rules that are there at the start, in the chain and in the file
  Faults,        \* subset of {"loss", "crash", "reboot"}
  MaxEvents      \* bound: requests, changes by fail2ban, and faults

ASSUME AgentAssumption ==
  /\ Ips \cap Manual = {} /\ Prefixes \subseteq Ips \X Ips /\ "none" \notin Ips \cup Manual
  /\ Present \subseteq Ips \cup Manual /\ IsFiniteSet(Present)
  /\ IsFiniteSet(Workers) /\ Workers # {}
  /\ MaxEvents \in Nat

VARIABLES
  bans,       \* what fail2ban bans
  kernel,     \* rules of the chain, each with its handle
  nextHandle,
  up,         \* the agent: "down", "starting" or "up"
  rules,      \* state.firewallRules
  file,       \* the state file
  live, mirror, active,   \* fail2ban's files, their copy on /data, what it has loaded
  task,       \* what each worker is doing
  events,     \* how many there were
  failed, crashed   \* history: a command or write failed; the agent went down

host   == <<bans, kernel, nextHandle>>
store  == <<rules, file>>
config == <<live, mirror, active>>
bounds == <<events, failed, crashed>>
vars   == <<host, up, store, config, task, bounds>>

-----------------------------------------------------------------------------
Ids      == Ips \cup Manual
NoHandle == 0
NoId     == "none"
Row      == [id : Ids \cup {NoId}, handle : Nat]
Garbled  == {[id |-> NoId, handle |-> NoHandle]}     \* JSON that does not parse
Files    == {"jail", "filter"}
AgentOps == {"ban", "unban", "addRule", "deleteRule", "config"}

Idle == [pc |-> "idle", op |-> "none", id |-> NoId, flag |-> FALSE, handle |-> NoHandle,
         seen |-> {}, todo |-> {}, rows |-> {}, then |-> "idle"]

Task == [pc : {"idle", "list", "loop", "found", "added", "record", "save", "write", "orphans",
               "remove", "drop", "deleted", "restore",
               "jail", "jailCopy", "filter", "filterCopy", "reload"},
         op : AgentOps \cup {"none", "start", "refresh"},
         id : Ids \cup {NoId}, flag : BOOLEAN, handle : Nat,
         seen : SUBSET Ips, todo : SUBSET Ids, rows : SUBSET Row,
         then : {"idle", "loop", "list"}]

Init ==
  /\ bans = Ips \cap Present
  /\ \E order \in Injection(Present, 1 .. Cardinality(Present)) :
       kernel = {[id |-> id, handle |-> order[id]] : id \in Present}
  /\ nextHandle = Cardinality(Present) + 1
  /\ up = "up" /\ rules = kernel /\ file = kernel
  /\ live = [f \in Files |-> 0] /\ mirror = live /\ active = live
  /\ task = [w \in Workers |-> Idle]
  /\ events = 0 /\ failed = FALSE /\ crashed = FALSE

-----------------------------------------------------------------------------
At(w, pc)   == task[w].pc = pc
Goto(w, t)  == task' = [task EXCEPT ![w] = t]
Finish(w)   == Goto(w, Idle)
Event       == events < MaxEvents /\ events' = events + 1
Works       == UNCHANGED <<events, failed>>
Fails       == "loss" \in Faults /\ Event /\ failed' = TRUE
IdsOf(S)    == {r.id : r \in S}
With(S, id) == {r \in S : r.id = id}
Without(S, id) == {r \in S : r.id # id}
Holds(h)    == \E r \in kernel : r.handle = h

(* nft lists the rules in the order of their handles: findRuleHandle gives *)
(* the first whose comment begins with the id, and none when the listing   *)
(* fails.                                                                  *)
First(S)   == IF S = {} THEN NoHandle ELSE Min({r.handle : r \in S})
Begins(id, other) == id = other \/ <<id, other>> \in Prefixes
Found(id)  == First({r \in kernel : Begins(id, r.id)})

findRuleHandle(id, h) ==
  \/ h = Found(id) /\ Works
  \/ h = NoHandle /\ Fails

AddRule(id) ==
  /\ kernel' = kernel \cup {[id |-> id, handle |-> nextHandle]}
  /\ nextHandle' = nextHandle + 1

DeleteHandle(h) == kernel' = {r \in kernel : r.handle # h}

-----------------------------------------------------------------------------
(* The timer, which does not wait for its last run; GET /bans is the same. *)
refreshFail2banState(w) ==
  /\ up = "up" /\ At(w, "idle")
  /\ Goto(w, [Idle EXCEPT !.op = "refresh", !.pc = "list"])
  /\ UNCHANGED <<host, up, store, config, bounds>>

Request(w, op) ==
  /\ up = "up" /\ op \in Ops /\ At(w, "idle")
  /\ UNCHANGED crashed

(* A request that goes on counts as an event, and one that fails as the    *)
(* failure.                                                                *)
Accepted == Event /\ UNCHANGED failed

Await(w, pc) ==
  /\ At(w, pc)
  /\ UNCHANGED crashed

(* A listing of fail2ban that fails is an empty one.  From here on the     *)
(* synchronisation is the same, whoever asked for it.                      *)
Syncs(t) == IF t.op = "start" THEN "start" ELSE "refresh"

listBans(w) == \E seen \in {bans, {}} :
  /\ Await(w, "list")
  /\ IF seen = bans THEN Works ELSE Fails
  /\ Goto(w, [Idle EXCEPT !.op = Syncs(task[w]), !.seen = seen, !.todo = seen, !.pc = "loop"])
  /\ UNCHANGED <<host, up, store, config>>

(* ensureBanFirewallRule, for each ban of the listing or for a new one.    *)
(* Whether the ban is known is read before, and used after, the commands   *)
(* that find its rule or add one.                                          *)
ensureBanFirewallRule(w) == \E id \in task[w].todo, h \in {NoHandle} \cup {r.handle : r \in kernel} :
  /\ Await(w, "loop") /\ findRuleHandle(id, h)
  /\ Goto(w, [task[w] EXCEPT !.id = id, !.todo = @ \ {id}, !.flag = id \in IdsOf(rules),
                             !.handle = h, !.pc = IF h = NoHandle THEN "found" ELSE "record"])
  /\ UNCHANGED <<host, up, store, config>>

Returned(t) == IF t.op = "ban" THEN Idle
               ELSE [Idle EXCEPT !.op = t.op, !.pc = "loop", !.seen = t.seen, !.todo = t.todo]

addFirewallRule(w) ==
  /\ Await(w, "found")
  /\ \/ /\ AddRule(task[w].id) /\ Works
        /\ Goto(w, [task[w] EXCEPT !.pc = "added"])
     \/ /\ Fails /\ Goto(w, Returned(task[w]))
        /\ UNCHANGED <<kernel, nextHandle>>
  /\ UNCHANGED <<bans, up, store, config>>

HandleOfAdded(w) == \E h \in {NoHandle} \cup {r.handle : r \in kernel} :
  /\ Await(w, "added") /\ findRuleHandle(task[w].id, h)
  /\ Goto(w, [task[w] EXCEPT !.handle = h, !.pc = "record"])
  /\ UNCHANGED <<host, up, store, config>>

(* The row that was read is updated, if the list still has it; a new row   *)
(* is put in front.                                                        *)
Save(t, then) == [Idle EXCEPT !.op = t.op, !.pc = "save", !.then = then,
                              !.seen = t.seen, !.todo = t.todo]

RecordRule(w) ==
  LET t   == task[w]
      row == [id |-> t.id, handle |-> t.handle]
  IN  /\ Await(w, "record") /\ Works
      /\ \/ ~t.flag /\ rules' = rules \cup {row}
         \/ t.flag /\ \E r \in With(rules, t.id) : rules' = (rules \ {r}) \cup {row}
         \/ t.flag /\ With(rules, t.id) = {} /\ UNCHANGED rules
      /\ Goto(w, Save(t, IF t.op \in {"ban", "addRule"} THEN "idle" ELSE "loop"))
      /\ UNCHANGED <<host, up, file, config>>

(* saveState makes the directory, and then writes the state as it is by    *)
(* then.  Two writes at once may land in either order or mixed; one that   *)
(* fails is logged.                                                        *)
saveState(w) ==
  /\ Await(w, "save") /\ Works
  /\ Goto(w, [task[w] EXCEPT !.rows = rules, !.pc = "write"])
  /\ UNCHANGED <<host, up, store, config>>

Mixed(w) == \E v \in Workers \ {w} : At(v, "write") /\ task[v].rows # task[w].rows

WriteFile(w) ==
  LET t == task[w] IN
  /\ Await(w, "write")
  /\ \/ file' = t.rows /\ Works
     \/ file' = Garbled /\ Mixed(w) /\ Works
     \/ file' \in {file, Garbled} /\ Fails
  /\ Goto(w, IF t.then = "idle" THEN Idle ELSE [t EXCEPT !.pc = t.then, !.then = "idle", !.rows = {}])
  /\ up' = IF t.op = "start" /\ t.then = "idle" THEN "up" ELSE up
  /\ UNCHANGED <<host, rules, config>>

(* syncBanFirewallRules then lists the ban rules of the chain, deletes     *)
(* those that are not in the listing of fail2ban, and drops their rows.    *)
BanRules == {r \in kernel : r.id \in Ips}

listPortalBanRulesFromNft(w) == \E rows \in {BanRules, {}} :
  /\ Await(w, "loop") /\ task[w].op # "ban" /\ task[w].todo = {}
  /\ IF rows = BanRules THEN Works ELSE Fails
  /\ Goto(w, [task[w] EXCEPT !.rows = rows, !.pc = "orphans"])
  /\ UNCHANGED <<host, up, store, config>>

(* Variant: only rules the agent remembers are deleted.                    *)
RememberedOrphans(t) == {r \in t.rows : r.id \notin t.seen /\ r.id \in IdsOf(rules)}

Orphans(t) == {r \in t.rows : r.id \notin t.seen}

DeleteOrphan(w) == \E r \in Orphans(task[w]) :
  /\ Await(w, "orphans")
  /\ \/ DeleteHandle(r.handle) /\ Works
     \/ UNCHANGED kernel /\ Fails
  /\ Goto(w, [task[w] EXCEPT !.rows = @ \ {r}])
  /\ UNCHANGED <<bans, nextHandle, up, store, config>>

(* Variant: every row that is not banned is dropped.                       *)
KeptBans(t) == {r \in rules : r.id \in t.seen}

Kept(t) ==
  {IF r.id \in Ips /\ With(t.rows, r.id) # {} THEN [r EXCEPT !.handle = First(With(t.rows, r.id))] ELSE r :
     r \in {q \in rules : q.id \in Ips => q.id \in t.seen}}

DropRows(w) ==
  /\ Await(w, "orphans") /\ Orphans(task[w]) = {} /\ Works
  /\ rules' = Kept(task[w])
  /\ Goto(w, Save(task[w], "idle"))
  /\ UNCHANGED <<host, up, file, config>>

-----------------------------------------------------------------------------
(* Requests.  POST /bans bans, and ensures the rule at once.               *)
createBan(w) == \E id \in Ips :
  /\ Request(w, "ban")
  /\ \/ bans' = bans \cup {id} /\ Accepted
        /\ Goto(w, [Idle EXCEPT !.op = "ban", !.pc = "loop", !.todo = {id}])
     \/ Fails /\ UNCHANGED <<bans, task>>
  /\ UNCHANGED <<kernel, nextHandle, up, store, config>>

(* DELETE /bans/:id takes an address or the id of a ban; the rows of the   *)
(* rule are found by the latter only.                                      *)
removeBan(w) == \E id \in Ips, exact \in BOOLEAN :
  /\ Request(w, "unban")
  /\ \/ bans' = bans \ {id} /\ Accepted
        /\ Goto(w, [Idle EXCEPT !.op = "unban", !.id = id, !.flag = exact, !.pc = "remove"])
     \/ Fails /\ UNCHANGED <<bans, task>>
  /\ UNCHANGED <<kernel, nextHandle, up, store, config>>

removeBanFirewallRule(w) ==
  LET t       == task[w]
      targets == IF t.flag THEN With(rules, t.id) ELSE {}
  IN  /\ Await(w, "remove") /\ Works
      /\ Goto(w, [t EXCEPT !.rows = targets, !.flag = FALSE,
                           !.pc = IF targets = {} THEN "list" ELSE "drop"])
      /\ UNCHANGED <<host, up, store, config>>

(* deleteFirewallRule uses the handle of the row, or looks for one.  nft   *)
(* refuses a handle it does not know.                                      *)
HandleOf(r) == IF r.handle = NoHandle THEN Found(r.id) ELSE r.handle

DropTarget(w) == \E r \in task[w].rows :
  /\ Await(w, "drop")
  /\ \/ /\ Holds(HandleOf(r)) /\ DeleteHandle(HandleOf(r)) /\ Works
        /\ Goto(w, [task[w] EXCEPT !.rows = @ \ {r}])
     \/ /\ IF Holds(HandleOf(r)) THEN Fails ELSE Works
        /\ Goto(w, [task[w] EXCEPT !.rows = @ \ {r}, !.flag = TRUE])
        /\ UNCHANGED kernel
  /\ UNCHANGED <<bans, nextHandle, up, store, config>>

Dropped(w) ==
  LET t == task[w] IN
  /\ Await(w, "drop") /\ t.rows = {} /\ Works
  /\ rules' = IF t.flag THEN rules ELSE Without(rules, t.id)
  /\ Goto(w, Save(t, "list"))
  /\ UNCHANGED <<host, up, file, config>>

(* POST /firewall/rules: the rule is new.  The row is there only when the  *)
(* rule is in the chain.                                                   *)
Known == IdsOf(kernel) \cup IdsOf(rules) \cup IdsOf(file)
           \cup UNION {IdsOf(task[w].rows) \cup {task[w].id} : w \in Workers}

createRule(w) == \E id \in Manual \ Known :
  /\ Request(w, "addRule")
  /\ \/ /\ AddRule(id) /\ Accepted
        /\ Goto(w, [Idle EXCEPT !.op = "addRule", !.id = id, !.pc = "added"])
     \/ Fails /\ UNCHANGED <<kernel, nextHandle, task>>
  /\ UNCHANGED <<bans, up, store, config>>

(* DELETE /firewall/rules/:id takes any row, those of bans too.  An error  *)
(* of nft leaves the row; a row without a handle goes when its rule is not *)
(* found, also when that is because the listing failed.                    *)
deleteFirewallRule(w) == \E r \in rules :
  LET h   == HandleOf(r)
      then == [Idle EXCEPT !.op = "deleteRule", !.id = r.id, !.pc = "deleted"]
  IN
  /\ Request(w, "deleteRule")
  /\ \/ /\ h = NoHandle \/ Holds(h)
        /\ DeleteHandle(h) /\ Accepted /\ Goto(w, then)
     \/ /\ r.handle = NoHandle /\ Fails
        /\ Goto(w, then) /\ UNCHANGED kernel
     \/ /\ IF Holds(h) THEN Fails ELSE h # NoHandle /\ Accepted
        /\ UNCHANGED <<kernel, task>>
  /\ UNCHANGED <<bans, nextHandle, up, store, config>>

ForgetRule(w) ==
  /\ Await(w, "deleted") /\ Works
  /\ rules' = Without(rules, task[w].id)
  /\ Goto(w, Save(task[w], "idle"))
  /\ UNCHANGED <<host, up, file, config>>

-----------------------------------------------------------------------------
(* PUT /fail2ban/config writes each file and its copy, then fail2ban loads *)
(* the files, and the bans are synchronised.  The number of the request    *)
(* stands for its content.                                                 *)
updateFail2banConfig(w) ==
  /\ Request(w, "config") /\ Accepted
  /\ Goto(w, [Idle EXCEPT !.op = "config", !.handle = events + 1, !.pc = "jail"])
  /\ UNCHANGED <<host, up, store, config>>

(* Variant: fail2ban loads the files before the filter is written.         *)
ReloadEarly == [jail |-> "jailCopy", jailCopy |-> "reload", reload |-> "filter",
                filter |-> "filterCopy", filterCopy |-> "list"]

Then == [jail |-> "jailCopy", jailCopy |-> "filter", filter |-> "filterCopy",
         filterCopy |-> "reload", reload |-> "list"]

writeAndMirror(w) == \E f \in Files :
  LET t == task[w] IN
  /\ Await(w, t.pc) /\ t.pc \in {f, IF f = "jail" THEN "jailCopy" ELSE "filterCopy"}
  /\ \/ /\ Works
        /\ IF t.pc = f THEN live' = [live EXCEPT ![f] = t.handle] /\ UNCHANGED mirror
                       ELSE mirror' = [mirror EXCEPT ![f] = t.handle] /\ UNCHANGED live
        /\ Goto(w, [t EXCEPT !.pc = Then[t.pc]])
     \/ Fails /\ Finish(w) /\ UNCHANGED <<live, mirror>>
  /\ UNCHANGED <<host, up, store, active>>

reload(w) ==
  /\ Await(w, "reload")
  /\ \/ active' = live /\ Works /\ Goto(w, [task[w] EXCEPT !.pc = Then["reload"]])
     \/ Fails /\ Finish(w) /\ UNCHANGED active
  /\ UNCHANGED <<host, up, store, live, mirror>>

-----------------------------------------------------------------------------
(* fail2ban bans and unbans by itself.                                     *)
Fail2ban == \E id \in Ips :
  /\ Event
  /\ bans' = IF id \in bans THEN bans \ {id} ELSE bans \cup {id}
  /\ UNCHANGED <<kernel, nextHandle, up, store, config, task, failed, crashed>>

(* The agent stops, and with it what it was doing; a write may have been   *)
(* cut short.  A reboot of the host empties the chain, and its handles     *)
(* start again.                                                            *)
Crash(reboot) ==
  /\ (IF reboot THEN "reboot" ELSE "crash") \in Faults /\ up # "down" /\ Event
  /\ up' = "down" /\ crashed' = TRUE
  /\ rules' = {} /\ task' = [w \in Workers |-> Idle]
  /\ \/ UNCHANGED file
     \/ \E w \in Workers : At(w, "write") /\ file' \in {Garbled, task[w].rows}
  /\ kernel' = IF reboot THEN {} ELSE kernel
  /\ nextHandle' = IF reboot THEN 1 ELSE nextHandle
  /\ UNCHANGED <<bans, config, failed>>

(* entrypoint.sh restores fail2ban's files from the copy.  The agent loads *)
(* its state, or none when the file does not parse, and ensures the rules  *)
(* one by one before it serves requests.                                   *)
Start(w) ==
  LET loaded == IF file = Garbled THEN {} ELSE file IN
  /\ up = "down" /\ up' = "starting"
  /\ live' = mirror /\ active' = mirror
  /\ rules' = loaded
  /\ Goto(w, [Idle EXCEPT !.op = "start", !.pc = "restore", !.rows = loaded])
  /\ UNCHANGED <<host, file, mirror, bounds>>

(* Variant: the handle in the file is kept.                                *)
EnsureKeepsHandle(w) == \E r \in task[w].rows :
  /\ Await(w, "restore") /\ Works
  /\ IF Found(r.id) = NoHandle THEN AddRule(r.id) ELSE UNCHANGED <<kernel, nextHandle>>
  /\ Goto(w, [task[w] EXCEPT !.rows = @ \ {r}])
  /\ UNCHANGED <<bans, up, store, config>>

(* A listing that fails finds nothing, and the rule is added once more.    *)
ensureFirewallRule(w) == \E r \in task[w].rows :
  LET found     == Found(r.id)
      h         == IF found = NoHandle THEN nextHandle ELSE found
      Record(n) == rules' = (rules \ {r}) \cup {[r EXCEPT !.handle = n]}
  IN  /\ Await(w, "restore")
      /\ \/ /\ Works /\ Record(h)
            /\ IF found = NoHandle THEN AddRule(r.id) ELSE UNCHANGED <<kernel, nextHandle>>
         \/ Fails /\ AddRule(r.id) /\ \E n \in {h, NoHandle} : Record(n)
         \/ Fails /\ UNCHANGED <<kernel, nextHandle, rules>>
      /\ Goto(w, [task[w] EXCEPT !.rows = @ \ {r}])
      /\ UNCHANGED <<bans, up, file, config>>

syncFirewallState(w) ==
  /\ Await(w, "restore") /\ task[w].rows = {} /\ Works
  /\ Goto(w, Save(task[w], "list"))
  /\ UNCHANGED <<host, up, store, config>>

-----------------------------------------------------------------------------
Ask(w) ==
  \/ createBan(w) \/ removeBan(w) \/ createRule(w) \/ deleteFirewallRule(w) \/ updateFail2banConfig(w)

Work(w) ==
  \/ listBans(w) \/ ensureBanFirewallRule(w) \/ addFirewallRule(w) \/ HandleOfAdded(w) \/ RecordRule(w)
  \/ saveState(w) \/ WriteFile(w)
  \/ listPortalBanRulesFromNft(w) \/ DeleteOrphan(w) \/ DropRows(w)
  \/ removeBanFirewallRule(w) \/ DropTarget(w) \/ Dropped(w)
  \/ ForgetRule(w)
  \/ writeAndMirror(w) \/ reload(w)
  \/ ensureFirewallRule(w) \/ syncFirewallState(w)

Next ==
  \/ \E w \in Workers : refreshFail2banState(w) \/ Ask(w) \/ Work(w) \/ Start(w)
  \/ Fail2ban
  \/ \E reboot \in BOOLEAN : Crash(reboot)

Spec == Init /\ [][Next]_vars

(* The timer ticks for ever, a command returns, and the supervisor starts  *)
(* the agent again (restart: unless-stopped).                              *)
Fairness ==
  /\ WF_vars(\E w \in Workers : refreshFail2banState(w))
  /\ WF_vars(\E w \in Workers : Start(w))
  /\ \A w \in Workers : WF_vars(Work(w))

LiveSpec == Spec /\ Fairness

-----------------------------------------------------------------------------
TypeOK ==
  /\ bans \subseteq Ips
  /\ kernel \subseteq [id : Ids, handle : Nat \ {0}] /\ nextHandle \in Nat \ {0}
  /\ up \in {"down", "starting", "up"} /\ (up = "starting" <=> \E w \in Workers : task[w].op = "start")
  /\ rules \subseteq [id : Ids, handle : Nat] /\ file \subseteq Row
  /\ live \in [Files -> Nat] /\ mirror \in [Files -> Nat] /\ active \in [Files -> Nat]
  /\ task \in [Workers -> Task]
  /\ events \in 0 .. MaxEvents /\ failed \in BOOLEAN /\ crashed \in BOOLEAN

BusyWith(id) == \E w \in Workers : task[w].op \in {"addRule", "deleteRule"} /\ task[w].id = id

(* While nothing fails, the rules of administrators that are in the chain  *)
(* are those the agent lists, whatever refreshes run beside the requests   *)
(* that add and delete them.                                               *)
ManualAgrees ==
  ~failed /\ ~crashed =>
    \A id \in Manual : ~BusyWith(id) => (id \in IdsOf(kernel) <=> id \in IdsOf(rules))

(* A rule leaves the chain with the host, because a request names it or a  *)
(* rule that its name begins with, or as an orphan that the listing of     *)
(* fail2ban does not have: a handle the agent remembers is never that of a *)
(* rule its row was not matched with, over restarts and reboots, unless a  *)
(* command failed.  A rule of an administrator thus goes by its own        *)
(* request only.                                                           *)
Named(w, r)    == At(w, "idle") /\ task'[w].op = "deleteRule" /\ Begins(task'[w].id, r.id)
Unbanned(w, r) == At(w, "drop") /\ Begins(task[w].id, r.id)
Orphaned(w, r) == At(w, "orphans") /\ r.id \in Ips \ task[w].seen

OnlyItsRule ==
  [][~failed' =>
       \A r \in kernel \ kernel' :
         up' = "down" \/ \E w \in Workers : Named(w, r) \/ Unbanned(w, r) \/ Orphaned(w, r)]_vars

(* fail2ban runs what is on disk, unless an update is at work or failed.   *)
ConfigLoaded ==
  up = "up" /\ ~failed /\ (\A w \in Workers : task[w].op = "config" => At(w, "list")) => active = live

(* When fail2ban no longer changes, and requests, failures and crashes end,*)
(* the chain blocks nothing that is not banned, and of what is banned all  *)
(* but the addresses whose name begins that of another ban that has its    *)
(* rule: the agent takes the other's rule for theirs.  The agent lists the *)
(* bans, and the state file follows, whatever refreshes overlapped and in  *)
(* whatever order its writes landed; only while two bans begin alike do    *)
(* their handles, and with them the file, change at every refresh.         *)
Blocked(id) == \E r \in BanRules : Begins(id, r.id)
Alike       == \E id, other \in bans : <<id, other>> \in Prefixes

Mirrored ==
  <>[](/\ IdsOf(BanRules) \subseteq bans
       /\ \A id \in bans : Blocked(id)
       /\ IdsOf(rules) \cap Ips = bans
       /\ Alike \/ file = rules)
=============================================================================
