-------------------------- MODULE AutoDialerProofs --------------------------
(***************************************************************************)
(* Proofs about AutoDialer, for any number of instances, requests, leads   *)
(* and jobs, any schedule of faults and any administrative requests.       *)
(***************************************************************************)
EXTENDS AutoDialer, FiniteSetTheorems, TLAPS

(* What a process remembers is consistent with where it stands: it works   *)
(* on a job that has been created, and a save has the form it read.        *)
TaskOK ==
  \A p \in Procs :
    /\ task[p].pc \in JobPCs =>
         /\ task[p].job \in Jobs
         /\ job[task[p].job].st # "none"
         /\ task[p].ret # "none"
    /\ task[p].ret = "ingest" => p \in Workers
    /\ task[p].ret = "slot" => p \in Schedulers
    /\ task[p].pc \in {"schInsert", "schSave"} =>
         p \in Workers /\ form[p].kind = "schedule"
    /\ task[p].pc = "updSave" => p \in Workers /\ form[p].kind = "update"

(* Jobs are created in order, each for a lead.                             *)
JobsOK ==
  \A j \in Jobs :
    /\ j >= nextJob => job[j].st = "none"
    /\ job[j].st # "none" => job[j].lead \in Leads

(* No step uncreates a job.                                                *)
Kept == \A j \in Jobs : job[j].st # "none" => job'[j].st # "none"

TypeInv == TypeOK /\ TaskOK /\ JobsOK

-----------------------------------------------------------------------------
(* The place of a lead among those scheduled together is below their       *)
(* number, so scheduleJobs stays below the next job id.                    *)
LEMMA RankBound ==
  ASSUME NEW S, S \subseteq Nat, IsFiniteSet(S), NEW l \in S
  PROVE  /\ Rank(l, S) \in Nat
         /\ Cardinality(S) \in Nat
         /\ Rank(l, S) < Cardinality(S)
<1> DEFINE T == {m \in S : m < l}
<1>1. T \subseteq S /\ T # S
  OBVIOUS
<1>2. IsFiniteSet(T) /\ Cardinality(T) \in Nat /\ Cardinality(S) \in Nat
  BY <1>1, FS_Subset, FS_CardinalityType
<1>3. Cardinality(T) < Cardinality(S)
  BY <1>1, <1>2, FS_Subset
<1> QED BY <1>2, <1>3 DEF Rank

LEMMA TypeInit == Init => TypeInv
  BY BoundsAssumption, InitAssumption
  DEF Init, TypeInv, TypeOK, TaskOK, JobsOK, LeadRow, JobRow, NoRow, Jobs, NoJob, Times,
      PCs, JobPCs, TaskRow, LoopRow, Idle, NoLoop, NoForm, FormRow, Procs

-----------------------------------------------------------------------------
(* Control.  A process that works on a job knows a created job and who     *)
(* called it; markJobFailed returns to its caller, keeping that job or     *)
(* dropping it.                                                            *)
LEMMA TaskFacts ==
  ASSUME TypeInv, NEW p \in Procs, task[p].pc \in JobPCs
  PROVE  /\ task[p].job \in Jobs
         /\ job[task[p].job].st # "none"
         /\ task[p].ret \in {"dial", "slot", "ingest"}
         /\ job[task[p].job].lead \in Leads
  BY DEF TypeInv, TypeOK, TaskOK, JobsOK, TaskRow

(* The task a process may have after a step on its job.                    *)
Follows(p, t) ==
  /\ t \in TaskRow
  /\ t.pc \in {"idle", "campaign", "slot", "mfRead", "charge"}
  /\ t.pc \in {"mfRead", "charge"} => t.job = task[p].job
  /\ t.pc = "mfRead" => t.ret = "slot" /\ p \in Schedulers
  /\ t.pc = "charge" => t.ret = "ingest" /\ task[p].ret = "ingest"
  /\ t.pc \notin {"mfRead", "charge"} => t.ret = "none" /\ t.job = NoJob

LEMMA RethrowFollows ==
  ASSUME TypeInv, NEW p \in Procs, task[p].pc \in JobPCs
  PROVE  Follows(p, Rethrow(p))
  BY TaskFacts DEF Follows, Rethrow, Idle, TaskRow, PCs, JobPCs, NoJob

LEMMA ReturnFollows ==
  ASSUME TypeInv, NEW p \in Procs, task[p].pc \in JobPCs, Return(p) \/ Throw(p)
  PROVE  \E t \in TaskRow : Follows(p, t) /\ task' = [task EXCEPT ![p] = t]
<1>1. task[p].ret \in {"dial", "slot", "ingest"} /\ task[p] \in TaskRow
  BY TaskFacts DEF TypeInv, TypeOK
<1>2. CASE task[p].ret = "dial"
  <2>1. task' = [task EXCEPT ![p] = Rethrow(p)]
    BY <1>2 DEF Return, Throw
  <2> QED BY <2>1, RethrowFollows DEF Follows
<1>3. CASE task[p].ret = "slot"
  <2>1. \E pc \in {"slot", "campaign"} :
          task' = [task EXCEPT ![p] = [Idle EXCEPT !.pc = pc]]
    BY <1>3 DEF Return, Throw
  <2>2. \A pc \in {"slot", "campaign"} : Follows(p, [Idle EXCEPT !.pc = pc])
    BY DEF Follows, Idle, TaskRow, PCs, JobPCs, NoJob
  <2> QED BY <2>1, <2>2 DEF Follows
<1>4. CASE task[p].ret = "ingest"
  <2>1. \/ task' = [task EXCEPT ![p] = [task[p] EXCEPT !.pc = "charge"]]
        \/ task' = [task EXCEPT ![p] = Idle]
    BY <1>4 DEF Return, Throw, TypeInv, TypeOK
  <2>2. /\ Follows(p, [task[p] EXCEPT !.pc = "charge"])
        /\ Follows(p, Idle)
    BY <1>1, <1>4 DEF Follows, Idle, TaskRow, PCs, JobPCs, NoJob
  <2> QED BY <2>1, <2>2 DEF Follows
<1> QED BY <1>1, <1>2, <1>3, <1>4

(* A step that moves one process and leaves jobs and forms alone keeps     *)
(* what processes remember consistent.                                     *)
LEMMA FollowsTask ==
  ASSUME TypeInv, NEW p \in Procs, NEW t \in TaskRow, Follows(p, t),
         task[p].pc \in JobPCs, task' = [task EXCEPT ![p] = t],
         Kept, form' = form
  PROVE  task' \in [Procs -> TaskRow] /\ TaskOK'
<1>1. task' \in [Procs -> TaskRow]
  BY DEF TypeInv, TypeOK
<1>2. task[p].job \in Jobs /\ job[task[p].job].st # "none"
  BY TaskFacts
<1> QED BY <1>1, <1>2 DEF Kept, TypeInv, TypeOK, TaskOK, Follows, Procs, JobPCs

LEMMA GotoTyped ==
  ASSUME TypeInv, NEW p \in Procs, NEW pc \in PCs, Goto(p, pc)
  PROVE  task' \in [Procs -> TaskRow]
<1>1. task \in [Procs -> TaskRow]
  BY DEF TypeInv, TypeOK
<1>2. [task[p] EXCEPT !.pc = pc] \in TaskRow
  BY <1>1 DEF TaskRow
<1>3. task' = [task EXCEPT ![p] = [task[p] EXCEPT !.pc = pc]]
  BY <1>1 DEF Goto
<1> QED BY <1>1, <1>2, <1>3

LEMMA GotoTask ==
  ASSUME TypeInv, NEW p \in Procs, NEW pc \in JobPCs, Goto(p, pc),
         task[p].pc \in JobPCs, Kept, form' = form
  PROVE  task' \in [Procs -> TaskRow] /\ TaskOK'
<1>1. task' \in [Procs -> TaskRow]
  BY GotoTyped DEF PCs, Procs
<1>2. \A q \in Procs : /\ task'[q].job = task[q].job
                       /\ task'[q].ret = task[q].ret
                       /\ q # p => task'[q].pc = task[q].pc
                       /\ task'[p].pc = pc
  BY DEF TypeInv, TypeOK, Goto, TaskRow
<1>3. task[p].job \in Jobs /\ job[task[p].job].st # "none" /\ task[p].ret # "none"
  BY TaskFacts
<1>4. TaskOK'
  <2> SUFFICES ASSUME NEW q \in Procs
      PROVE  /\ task'[q].pc \in JobPCs => /\ task'[q].job \in Jobs
                                          /\ job'[task'[q].job].st # "none"
                                          /\ task'[q].ret # "none"
             /\ task'[q].ret = "ingest" => q \in Workers
             /\ task'[q].ret = "slot" => q \in Schedulers
             /\ task'[q].pc \in {"schInsert", "schSave"} =>
                  q \in Workers /\ form'[q].kind = "schedule"
             /\ task'[q].pc = "updSave" => q \in Workers /\ form'[q].kind = "update"
    BY DEF TaskOK
  <2>1. CASE q = p
    BY <2>1, <1>2, <1>3 DEF Kept, TypeInv, TaskOK, JobPCs
  <2>2. CASE q # p
    BY <2>2, <1>2 DEF Kept, TypeInv, TaskOK
  <2> QED BY <2>1, <2>2
<1> QED BY <1>1, <1>4

(* What the row operations do to a table.                                  *)
LEMMA JobStatus ==
  ASSUME TypeInv, NEW j \in Jobs, NEW st \in {"dialing", "completed", "failed"},
         job[j].st # "none", job' = [job EXCEPT ![j].st = st]
  PROVE  /\ job' \in [Jobs -> JobRow]
         /\ \A k \in Jobs : /\ job'[k].lead = job[k].lead
                            /\ job'[k].st = IF k = j THEN st ELSE job[k].st
         /\ nextJob' = nextJob => JobsOK'
         /\ Kept
<1>1. job' \in [Jobs -> JobRow]
  <2>1. job \in [Jobs -> JobRow]
    BY DEF TypeInv, TypeOK
  <2>2. [job[j] EXCEPT !.st = st] \in JobRow
    BY <2>1 DEF JobRow
  <2> QED BY <2>1, <2>2
<1>2. \A k \in Jobs : /\ job'[k].lead = job[k].lead
                      /\ job'[k].st = IF k = j THEN st ELSE job[k].st
  BY DEF TypeInv, TypeOK, JobRow
<1> QED BY <1>1, <1>2 DEF TypeInv, JobsOK, Kept

LEMMA LeadStatus ==
  ASSUME TypeInv, NEW l \in Leads,
         NEW st \in {"pending", "in_progress", "completed", "failed"}, SetLead(l, st)
  PROVE  lead' \in [Leads -> LeadRow]
  BY DEF TypeInv, TypeOK, SetLead, LeadRow

-----------------------------------------------------------------------------
(* Type correctness, one lemma per action.                                 *)
LEMMA TickType ==
  ASSUME TypeInv, NEW s \in Schedulers, Tick(s)
  PROVE  TypeInv'
<1>1. task' \in [Procs -> TaskRow]
  BY GotoTyped DEF Tick, PCs, Procs
<1>2. loop' \in [Schedulers -> LoopRow]
  <2>1. {[id |-> c, limit |-> camp[c].limit] : c \in {d \in Campaigns : camp[d].st = "running"}}
          \in SUBSET [id : Campaigns, limit : Nat]
    BY DEF TypeInv, TypeOK, CampaignRow
  <2> QED BY <2>1 DEF TypeInv, TypeOK, Tick, LoopRow
<1>3. TypeOK'
  BY <1>1, <1>2 DEF TypeInv, TypeOK, Tick, db, env, hist
<1>4. TaskOK' /\ JobsOK'
  BY DEF TypeInv, TypeOK, TaskOK, JobsOK, Tick, Goto, At, JobPCs, TaskRow, db, Procs
<1> QED BY <1>3, <1>4 DEF TypeInv

LEMMA EndTickType ==
  ASSUME TypeInv, NEW s \in Schedulers, EndTick(s)
  PROVE  TypeInv'
<1>1. task' \in [Procs -> TaskRow]
  BY DEF TypeInv, TypeOK, EndTick, Finish, Idle, TaskRow, PCs, Procs, NoJob
<1>2. loop' \in [Schedulers -> LoopRow]
  BY BoundsAssumption DEF TypeInv, TypeOK, EndTick, NoLoop, LoopRow, Times
<1>3. TypeOK'
  BY <1>1, <1>2 DEF TypeInv, TypeOK, EndTick, db, env, hist
<1>4. TaskOK' /\ JobsOK'
  BY DEF TypeInv, TypeOK, TaskOK, JobsOK, EndTick, Finish, Idle, JobPCs, db, Procs
<1> QED BY <1>3, <1>4 DEF TypeInv

LEMMA NextCampaignType ==
  ASSUME TypeInv, NEW s \in Schedulers, NextCampaign(s)
  PROVE  TypeInv'
<1> DEFINE Slots(c) == IF loop[s].now \in OpenTimes THEN Capacity(c.id, c.limit) ELSE 0
<1>1. PICK c \in loop[s].todo :
        /\ loop' = [loop EXCEPT ![s].todo  = @ \ {c},
                                ![s].cur   = IF Slots(c) > 0 THEN {c.id} ELSE {},
                                ![s].slots = Slots(c)]
        /\ Goto(s, IF Slots(c) > 0 THEN "slot" ELSE "campaign")
  BY DEF NextCampaign
<1> HIDE DEF Slots
<1>2. task' \in [Procs -> TaskRow]
  <2>1. Goto(s, "slot") \/ Goto(s, "campaign")
    BY <1>1
  <2>2. task[s] \in TaskRow /\ s \in Procs
    BY DEF TypeInv, TypeOK, Procs
  <2>3. \A pc \in {"slot", "campaign"} : [task[s] EXCEPT !.pc = pc] \in TaskRow
    BY <2>2 DEF TaskRow, PCs
  <2> QED BY <2>1, <2>2, <2>3 DEF TypeInv, TypeOK, Goto
<1>3. loop' \in [Schedulers -> LoopRow]
  <2>1. loop[s] \in LoopRow /\ c.id \in Campaigns /\ c.limit \in Nat
    BY DEF TypeInv, TypeOK, LoopRow
  <2>2. Cardinality(Dialing(c.id)) \in Nat
    <3>1. IsFiniteSet(Jobs)
      BY BoundsAssumption, FS_Interval DEF Jobs
    <3>2. Dialing(c.id) \subseteq Jobs
      BY DEF Dialing, JobsOf
    <3> QED BY <3>1, <3>2, FS_Subset, FS_CardinalityType
  <2>3. Slots(c) \in Nat
    BY <2>1, <2>2 DEF Slots, Capacity
  <2>4. (IF Slots(c) > 0 THEN {c.id} ELSE {}) \in SUBSET Campaigns
    BY <2>1
  <2> QED BY <1>1, <2>1, <2>3, <2>4 DEF TypeInv, TypeOK, LoopRow
<1>4. TypeOK'
  BY <1>2, <1>3 DEF TypeInv, TypeOK, NextCampaign, db, env, hist
<1>5. TaskOK' /\ JobsOK'
  BY <1>1 DEF TypeInv, TypeOK, TaskOK, JobsOK, NextCampaign, Goto, At, JobPCs, TaskRow, db, Procs
<1> QED BY <1>4, <1>5 DEF TypeInv

LEMMA NextSlotType ==
  ASSUME TypeInv, NEW s \in Schedulers, NextSlot(s)
  PROVE  TypeInv'
<1> DEFINE due == UNION {Due(c, loop[s].now) : c \in loop[s].cur}
<1>1. loop[s] \in LoopRow /\ task[s] \in TaskRow /\ s \in Procs /\ UNCHANGED <<db, env, form, hist>>
  BY DEF TypeInv, TypeOK, Procs, NextSlot
<1>2. CASE loop[s].slots > 0 /\ due # {}
  <2>1. PICK j \in First(due) :
          /\ task' = [task EXCEPT ![s] = [pc |-> "claim", job |-> j, ret |-> "dial"]]
          /\ loop' = [loop EXCEPT ![s].slots = @ - 1]
    BY <1>2 DEF NextSlot
  <2>2. j \in Jobs /\ job[j].st = "pending"
    BY DEF First, Due, JobsOf
  <2>3. job[j].st # "none"
    BY <2>2
  <2>4. task' \in [Procs -> TaskRow]
    BY <2>1, <2>2 DEF TypeInv, TypeOK, TaskRow, PCs, JobPCs
  <2>5. loop[s].slots - 1 \in Nat
    BY <1>1, <1>2 DEF LoopRow
  <2>6. loop' \in [Schedulers -> LoopRow]
    BY <1>1, <2>1, <2>5 DEF TypeInv, TypeOK, LoopRow
  <2>7. TypeOK'
    BY <1>1, <2>4, <2>6 DEF TypeInv, TypeOK, db, env, hist
  <2>8. TaskOK' /\ JobsOK'
    BY <1>1, <2>1, <2>2, <2>3 DEF TypeInv, TypeOK, TaskOK, JobsOK, JobPCs, db
  <2> QED BY <2>7, <2>8 DEF TypeInv
<1>3. CASE ~(loop[s].slots > 0 /\ due # {})
  <2>1. Goto(s, "campaign") /\ loop' = [loop EXCEPT ![s].cur = {}, ![s].slots = 0]
    BY <1>3 DEF NextSlot
  <2>2. task' \in [Procs -> TaskRow]
    BY <1>1, <2>1, GotoTyped DEF PCs, JobPCs
  <2>3. loop' \in [Schedulers -> LoopRow]
    BY <1>1, <2>1 DEF TypeInv, TypeOK, LoopRow
  <2>4. TypeOK'
    BY <1>1, <2>2, <2>3 DEF TypeInv, TypeOK, db, env, hist
  <2>5. TaskOK' /\ JobsOK'
    BY <1>1, <2>1 DEF TypeInv, TypeOK, TaskOK, JobsOK, Goto, JobPCs, TaskRow, db
  <2> QED BY <2>4, <2>5 DEF TypeInv
<1> QED BY <1>2, <1>3

LEMMA ClaimType ==
  ASSUME TypeInv, NEW p \in Procs, Claim(p)
  PROVE  TypeInv'
<1> DEFINE j == task[p].job
<1>1. /\ task[p].pc \in JobPCs /\ j \in Jobs /\ job[j].st # "none"
      /\ UNCHANGED <<camp, lead, nextJob, cdrs, env, loop, form, hist>>
  BY TaskFacts DEF Claim, At, JobPCs
<1>2. CASE Claimable(j)
  <2>1. job' = [job EXCEPT ![j].st = "dialing"] /\ Goto(p, "leadStart")
    BY <1>2 DEF Claim
  <2>2. job' \in [Jobs -> JobRow] /\ JobsOK' /\ Kept
    BY <1>1, <2>1, JobStatus
  <2>3. task' \in [Procs -> TaskRow] /\ TaskOK'
    BY <1>1, <2>1, <2>2, GotoTask DEF JobPCs
  <2> QED BY <1>1, <2>2, <2>3 DEF TypeInv, TypeOK, env, hist
<1>3. CASE ~Claimable(j)
  <2>1. job' = job /\ task' = [task EXCEPT ![p] = Rethrow(p)]
    BY <1>3 DEF Claim
  <2>2. Follows(p, Rethrow(p)) /\ Rethrow(p) \in TaskRow
    BY <1>1, RethrowFollows DEF Follows
  <2>3. Kept
    BY <2>1 DEF Kept
  <2>4. task' \in [Procs -> TaskRow] /\ TaskOK'
    BY <1>1, <2>1, <2>2, <2>3, FollowsTask
  <2> QED BY <1>1, <2>1, <2>4 DEF TypeInv, TypeOK, JobsOK, env, hist
<1> QED BY <1>2, <1>3

LEMMA LeadStartType ==
  ASSUME TypeInv, NEW p \in Procs, LeadStart(p)
  PROVE  TypeInv'
<1>1. /\ task[p].pc \in JobPCs /\ job[task[p].job].lead \in Leads
      /\ UNCHANGED <<camp, job, nextJob, cdrs, env, loop, form, hist>>
  BY TaskFacts DEF LeadStart, At, JobPCs
<1>2. lead' \in [Leads -> LeadRow]
  BY <1>1, LeadStatus DEF LeadStart
<1>3. task' \in [Procs -> TaskRow] /\ TaskOK'
  <2>1. Kept
    BY <1>1 DEF Kept
  <2> QED BY <1>1, <2>1, GotoTask DEF LeadStart, JobPCs
<1> QED BY <1>1, <1>2, <1>3 DEF TypeInv, TypeOK, JobsOK, env, hist

(* The four outcomes of an originate, for which only the call and the      *)
(* history differ.                                                         *)
LEMMA SentType ==
  ASSUME TypeInv, NEW p \in Procs, Sent(p)
  PROVE  /\ task[p].pc \in JobPCs
         /\ task[p].job \in Jobs
         /\ dials' \in [Jobs -> Nat]
         /\ dials' = [dials EXCEPT ![task[p].job] = @ + 1]
         /\ UNCHANGED <<camp, lead, job, nextJob, cdrs, posts, clock, requests, loop, form, charged>>
<1>1. task[p].pc \in JobPCs /\ task[p].job \in Jobs
  BY TaskFacts DEF Sent, At, JobPCs
<1> QED BY <1>1 DEF TypeInv, TypeOK, Sent, db

LEMMA CallStartsType ==
  ASSUME TypeInv, NEW j \in Jobs, CallStarts(j)
  PROVE  call' \in [Jobs -> {"none", "live", "answered", "unanswered"}]
  BY DEF TypeInv, TypeOK, CallStarts

LEMMA OriginatedFollows ==
  ASSUME TypeInv, NEW p \in Procs, Originated(p)
  PROVE  \E t \in TaskRow : Follows(p, t) /\ task' = [task EXCEPT ![p] = t]
<1>1. Follows(p, [Idle EXCEPT !.pc = "slot"]) /\ Follows(p, Idle)
  BY DEF Follows, Idle, TaskRow, PCs, JobPCs, NoJob
<1> QED BY <1>1 DEF Originated, Follows

LEMMA OriginateType ==
  ASSUME TypeInv, NEW p \in Procs, Sent(p),
         Originated(p) \/ Goto(p, "mfRead"),
         CallStarts(task[p].job) \/ UNCHANGED call
  PROVE  TypeInv'
<1>1. call' \in [Jobs -> {"none", "live", "answered", "unanswered"}]
  BY SentType, CallStartsType DEF TypeInv, TypeOK
<1>2. task' \in [Procs -> TaskRow] /\ TaskOK'
  <2>1. Kept
    BY SentType DEF Kept
  <2>2. CASE Originated(p)
    BY <2>1, <2>2, SentType, OriginatedFollows, FollowsTask
  <2>3. CASE Goto(p, "mfRead")
    BY <2>1, <2>3, SentType, GotoTask DEF JobPCs
  <2> QED BY <2>2, <2>3
<1> QED BY <1>1, <1>2, SentType DEF TypeInv, TypeOK, JobsOK

LEMMA FailReadType ==
  ASSUME TypeInv, NEW p \in Procs, FailRead(p)
  PROVE  TypeInv'
<1>1. task[p].pc \in JobPCs /\ UNCHANGED <<db, env, loop, form, hist>>
  BY DEF FailRead, At, JobPCs
<1>2. task' \in [Procs -> TaskRow] /\ TaskOK'
  <2>1. Kept
    BY <1>1 DEF Kept, db
  <2>2. CASE Goto(p, "mfSave")
    BY <1>1, <2>1, <2>2, GotoTask DEF JobPCs
  <2>3. CASE Return(p)
    BY <1>1, <2>1, <2>3, ReturnFollows, FollowsTask
  <2> QED BY <2>2, <2>3 DEF FailRead
<1> QED BY <1>1, <1>2 DEF TypeInv, TypeOK, JobsOK, db, env, hist

LEMMA FailSaveType ==
  ASSUME TypeInv, NEW p \in Procs, FailSave(p)
  PROVE  TypeInv'
<1> DEFINE j == task[p].job
<1>1. /\ task[p].pc \in JobPCs /\ j \in Jobs /\ job[j].st # "none"
      /\ UNCHANGED <<camp, lead, nextJob, cdrs, env, loop, form, hist>>
  BY TaskFacts DEF FailSave, At, JobPCs
<1>2. CASE job' = [job EXCEPT ![j].st = "failed"] /\ Goto(p, "mfLead")
  <2>1. job' \in [Jobs -> JobRow] /\ JobsOK' /\ Kept
    BY <1>1, <1>2, JobStatus
  <2>2. task' \in [Procs -> TaskRow] /\ TaskOK'
    BY <1>1, <1>2, <2>1, GotoTask DEF JobPCs
  <2> QED BY <1>1, <2>1, <2>2 DEF TypeInv, TypeOK, env, hist
<1>3. CASE Throw(p) /\ job' = job
  <2>1. Kept
    BY <1>3 DEF Kept
  <2>2. task' \in [Procs -> TaskRow] /\ TaskOK'
    BY <1>1, <1>3, <2>1, ReturnFollows, FollowsTask
  <2> QED BY <1>1, <1>3, <2>2 DEF TypeInv, TypeOK, JobsOK, env, hist
<1> QED BY <1>2, <1>3 DEF FailSave

LEMMA FailLeadType ==
  ASSUME TypeInv, NEW p \in Procs, FailLead(p)
  PROVE  TypeInv'
<1>1. /\ task[p].pc \in JobPCs /\ job[task[p].job].lead \in Leads
      /\ UNCHANGED <<camp, job, nextJob, cdrs, env, loop, form, hist>>
  BY TaskFacts DEF FailLead, At, JobPCs
<1>2. lead' \in [Leads -> LeadRow]
  BY <1>1, LeadStatus DEF FailLead
<1>3. task' \in [Procs -> TaskRow] /\ TaskOK'
  <2>1. Kept
    BY <1>1 DEF Kept
  <2>2. CASE Goto(p, "mfRetry")
    BY <1>1, <2>1, <2>2, GotoTask DEF JobPCs
  <2>3. CASE Return(p)
    BY <1>1, <2>1, <2>3, ReturnFollows, FollowsTask
  <2> QED BY <2>2, <2>3 DEF FailLead
<1> QED BY <1>1, <1>2, <1>3 DEF TypeInv, TypeOK, JobsOK, env, hist

(* A new job at nextJob, for a lead.                                       *)
LEMMA NewJobType ==
  ASSUME TypeInv, NEW l \in Leads, NEW a \in Nat, NEW at \in Nat, NEW k \in Jobs \cup {NoJob}
  PROVE  NewJob(l, a, at, k) \in JobRow
<1>1. Min2(at, MaxTime) \in Times
  BY BoundsAssumption DEF Min2, Times
<1> QED BY <1>1, BoundsAssumption DEF TypeInv, TypeOK, NewJob, JobRow

LEMMA FailRetryType ==
  ASSUME TypeInv, NEW p \in Procs, FailRetry(p)
  PROVE  TypeInv'
<1> DEFINE j == task[p].job
           l == job[j].lead
           row == NewJob(l, job[j].attempt + 1, clock + RetryDelay, j)
<1>1. /\ task[p].pc \in JobPCs /\ j \in Jobs /\ l \in Leads
      /\ UNCHANGED <<camp, lead, cdrs, env, loop, form, hist>>
  BY TaskFacts DEF FailRetry, At, JobPCs
<1>2. CASE LeadExists(l)
  <2>1. /\ nextJob <= MaxJobs
        /\ job' = [job EXCEPT ![nextJob] = row]
        /\ nextJob' = nextJob + 1
        /\ Goto(p, "mfRequeue")
    BY <1>2 DEF FailRetry
  <2>2. job[j].attempt + 1 \in Nat /\ clock + RetryDelay \in Nat
    BY <1>1, BoundsAssumption DEF TypeInv, TypeOK, JobRow, Times
  <2>3. row \in JobRow
    BY <1>1, <2>2, NewJobType
  <2> HIDE DEF row
  <2>4. nextJob \in Jobs /\ nextJob' \in 1 .. MaxJobs + 1
    BY <2>1, BoundsAssumption DEF TypeInv, TypeOK, Jobs
  <2>5. job' \in [Jobs -> JobRow]
    BY <2>1, <2>3, <2>4 DEF TypeInv, TypeOK
  <2>6. row.lead \in Leads /\ row.st = "pending"
    BY <1>1 DEF row, NewJob
  <2>7. \A k \in Jobs : k >= nextJob' => k >= nextJob /\ k # nextJob
    BY <2>1, <2>4, BoundsAssumption DEF Jobs
  <2>8. JobsOK'
    BY <2>1, <2>4, <2>6, <2>7 DEF TypeInv, TypeOK, JobsOK
  <2>9. Kept
    BY <2>1, <2>4, <2>6 DEF Kept, TypeInv, TypeOK
  <2>10. task' \in [Procs -> TaskRow] /\ TaskOK'
    BY <1>1, <2>1, <2>9, GotoTask DEF JobPCs
  <2> QED BY <1>1, <2>4, <2>5, <2>8, <2>10 DEF TypeInv, TypeOK, env, hist
<1>3. CASE ~LeadExists(l)
  <2>1. Throw(p) /\ UNCHANGED <<job, nextJob>>
    BY <1>3 DEF FailRetry
  <2>2. Kept
    BY <2>1 DEF Kept
  <2>3. task' \in [Procs -> TaskRow] /\ TaskOK'
    BY <1>1, <2>1, <2>2, ReturnFollows, FollowsTask
  <2> QED BY <1>1, <2>1, <2>3 DEF TypeInv, TypeOK, JobsOK, env, hist
<1> QED BY <1>2, <1>3

LEMMA FailRequeueType ==
  ASSUME TypeInv, NEW p \in Procs, FailRequeue(p)
  PROVE  TypeInv'
<1>1. /\ task[p].pc \in JobPCs /\ job[task[p].job].lead \in Leads
      /\ UNCHANGED <<camp, job, nextJob, cdrs, env, loop, form, hist>>
  BY TaskFacts DEF FailRequeue, At, JobPCs
<1>2. lead' \in [Leads -> LeadRow]
  BY <1>1, LeadStatus DEF FailRequeue
<1>3. Kept
  BY <1>1 DEF Kept
<1>4. task' \in [Procs -> TaskRow] /\ TaskOK'
  BY <1>1, <1>3, ReturnFollows, FollowsTask DEF FailRequeue
<1> QED BY <1>1, <1>2, <1>4 DEF TypeInv, TypeOK, JobsOK, env, hist

LEMMA IngestCdrType ==
  ASSUME TypeInv, NEW w \in Workers, NEW j \in Jobs, IngestCdr(w, j)
  PROVE  TypeInv'
<1> DEFINE pc == IF call[j] = "answered" THEN "cdrJob" ELSE "mfRead"
           t == [pc |-> pc, job |-> j, ret |-> "ingest"]
<1>1. /\ posts' \in [Jobs -> Nat]
      /\ UNCHANGED <<camp, lead, job, nextJob, call, clock, requests, loop, form, hist>>
  BY DEF TypeInv, TypeOK, IngestCdr
<1>2. pc \in {"cdrJob", "mfRead"}
  OBVIOUS
<1> HIDE DEF pc
<1>3. CASE Insertable(j)
  <2>1. cdrs' = cdrs \cup {j} /\ task' = [task EXCEPT ![w] = t]
    BY <1>3 DEF IngestCdr, pc
  <2>2. job[j].st # "none"
    BY <1>3 DEF Insertable, JobExists, Exists
  <2>3. t \in TaskRow
    BY <1>2 DEF TaskRow, PCs, JobPCs
  <2>4. task' \in [Procs -> TaskRow]
    BY <2>1, <2>3 DEF TypeInv, TypeOK
  <2>5. TaskOK'
    BY <1>1, <1>2, <2>1, <2>2 DEF TypeInv, TypeOK, TaskOK, JobPCs, Procs
  <2> QED BY <1>1, <2>1, <2>4, <2>5 DEF TypeInv, TypeOK, JobsOK, hist
<1>4. CASE ~Insertable(j)
  BY <1>1, <1>4 DEF TypeInv, TypeOK, TaskOK, JobsOK, IngestCdr, hist
<1> QED BY <1>3, <1>4

LEMMA IngestJobType ==
  ASSUME TypeInv, NEW w \in Workers, IngestJob(w)
  PROVE  TypeInv'
<1> DEFINE j == task[w].job
<1>1. /\ task[w].pc \in JobPCs /\ w \in Procs /\ j \in Jobs /\ job[j].st # "none"
      /\ UNCHANGED <<camp, lead, nextJob, cdrs, env, loop, form, hist>>
  BY TaskFacts DEF IngestJob, At, JobPCs, Procs
<1>2. job' \in [Jobs -> JobRow] /\ JobsOK' /\ Kept
  <2>1. CASE job' = [job EXCEPT ![j].st = "completed"]
    BY <1>1, <2>1, JobStatus
  <2>2. CASE job' = job
    BY <1>1, <2>2 DEF TypeInv, TypeOK, JobsOK, Kept
  <2> QED BY <2>1, <2>2 DEF IngestJob
<1>3. task' \in [Procs -> TaskRow] /\ TaskOK'
  BY <1>1, <1>2, GotoTask DEF IngestJob, JobPCs
<1> QED BY <1>1, <1>2, <1>3 DEF TypeInv, TypeOK, env, hist

LEMMA IngestLeadType ==
  ASSUME TypeInv, NEW w \in Workers, IngestLead(w)
  PROVE  TypeInv'
<1>1. /\ task[w].pc \in JobPCs /\ w \in Procs /\ job[task[w].job].lead \in Leads
      /\ UNCHANGED <<camp, job, nextJob, cdrs, env, loop, form, hist>>
  BY TaskFacts DEF IngestLead, At, JobPCs, Procs
<1>2. lead' \in [Leads -> LeadRow]
  BY <1>1, LeadStatus DEF IngestLead
<1>3. task' \in [Procs -> TaskRow] /\ TaskOK'
  <2>1. Kept
    BY <1>1 DEF Kept
  <2> QED BY <1>1, <2>1, GotoTask DEF IngestLead, JobPCs
<1> QED BY <1>1, <1>2, <1>3 DEF TypeInv, TypeOK, JobsOK, env, hist

LEMMA ChargeType ==
  ASSUME TypeInv, NEW w \in Workers, Charge(w)
  PROVE  TypeInv'
<1>1. /\ task[w].pc \in JobPCs /\ w \in Procs /\ task[w].job \in Jobs
      /\ UNCHANGED <<db, env, loop, form, dials>>
  BY TaskFacts DEF Charge, At, JobPCs, Procs
<1>2. charged' \in [Jobs -> Nat]
  BY <1>1 DEF TypeInv, TypeOK, Charge
<1>3. task' \in [Procs -> TaskRow] /\ TaskOK'
  <2>1. Follows(w, Idle) /\ Idle \in TaskRow
    BY DEF Follows, Idle, TaskRow, PCs, JobPCs, NoJob
  <2>2. task' = [task EXCEPT ![w] = Idle] /\ Kept
    BY <1>1 DEF Charge, Finish, Kept, db
  <2> QED BY <1>1, <2>1, <2>2, FollowsTask
<1> QED BY <1>1, <1>2, <1>3 DEF TypeInv, TypeOK, JobsOK, db, env

(* A worker that sends its answer.                                         *)
LEMMA WorkerDone ==
  ASSUME TypeInv, NEW w \in Workers, Finish(w), form' = [form EXCEPT ![w] = NoForm],
         Kept
  PROVE  task' \in [Procs -> TaskRow] /\ TaskOK' /\ form' \in [Workers -> FormRow]
<1>1. task' \in [Procs -> TaskRow]
  BY DEF TypeInv, TypeOK, Finish, Idle, TaskRow, PCs, NoJob
<1>2. form' \in [Workers -> FormRow]
  BY DEF TypeInv, TypeOK, FormRow, NoForm
<1>3. TaskOK'
  BY DEF Kept, TypeInv, TypeOK, TaskOK, Finish, Idle, Procs, JobPCs
<1> QED BY <1>1, <1>2, <1>3

LEMMA UpdateSaveType ==
  ASSUME TypeInv, NEW w \in Workers, UpdateSave(w)
  PROVE  TypeInv'
<1>1. /\ form[w].kind = "update" /\ form[w] \in FormRow
      /\ UNCHANGED <<lead, job, nextJob, cdrs, env, loop, hist>>
  BY DEF TypeInv, TypeOK, TaskOK, UpdateSave, At, Procs
<1>2. form[w].row \in CampaignRow
  BY <1>1 DEF FormRow
<1>3. camp' \in [Campaigns -> CampaignRow]
  BY <1>2 DEF TypeInv, TypeOK, UpdateSave
<1>4. Kept
  BY <1>1 DEF Kept
<1>5. task' \in [Procs -> TaskRow] /\ TaskOK' /\ form' \in [Workers -> FormRow]
  BY <1>4, WorkerDone DEF UpdateSave
<1> QED BY <1>1, <1>3, <1>5 DEF TypeInv, TypeOK, JobsOK, env, hist

LEMMA ScheduleSaveType ==
  ASSUME TypeInv, NEW w \in Workers, ScheduleSave(w)
  PROVE  TypeInv'
<1> DEFINE ls == form[w].leads
<1>1. /\ form[w].kind = "schedule" /\ form[w] \in FormRow
      /\ UNCHANGED <<camp, job, nextJob, cdrs, env, loop, hist>>
  BY DEF TypeInv, TypeOK, TaskOK, ScheduleSave, At, Procs
<1>2. form[w].attempts \in [Leads -> Nat] /\ ls \subseteq Leads
  BY <1>1 DEF FormRow
<1>3. \A l \in ls : [st |-> "scheduled", attempts |-> form[w].attempts[l] + 1] \in LeadRow
  BY <1>2 DEF LeadRow
<1>4. lead' \in [Leads -> LeadRow]
  BY <1>3 DEF TypeInv, TypeOK, ScheduleSave
<1>5. Kept
  BY <1>1 DEF Kept
<1>6. task' \in [Procs -> TaskRow] /\ TaskOK' /\ form' \in [Workers -> FormRow]
  BY <1>5, WorkerDone DEF ScheduleSave
<1> QED BY <1>1, <1>4, <1>6 DEF TypeInv, TypeOK, JobsOK, env, hist

LEMMA ScheduleInsertType ==
  ASSUME TypeInv, NEW w \in Workers, ScheduleInsert(w)
  PROVE  TypeInv'
<1> DEFINE ls == form[w].leads
           idOf(l) == nextJob + Rank(l, ls)
           n == Cardinality(ls)
           pick(j) == CHOOSE m \in ls : idOf(m) = j
           row(j) == NewJob(pick(j), form[w].attempts[pick(j)] + 1, form[w].at, NoJob)
<1>1. /\ form[w].kind = "schedule" /\ form[w] \in FormRow /\ w \in Procs
      /\ UNCHANGED <<camp, lead, cdrs, env, loop, hist>>
  BY DEF TypeInv, TypeOK, TaskOK, ScheduleInsert, At, Procs
<1>2. form[w].attempts \in [Leads -> Nat] /\ ls \subseteq Leads /\ form[w].at \in Times
  BY <1>1 DEF FormRow
<1>3. CASE \A l \in ls : LeadExists(l)
  <2>1. /\ nextJob + n - 1 <= MaxJobs
        /\ job' = [j \in Jobs |-> IF \E l \in ls : idOf(l) = j THEN row(j) ELSE job[j]]
        /\ nextJob' = nextJob + n
        /\ Goto(w, "schSave")
        /\ form' = form
    BY <1>3 DEF ScheduleInsert
  <2>2. IsFiniteSet(ls) /\ ls \subseteq Nat /\ n \in Nat
    BY <1>2, LeadsAssumption, FS_Subset, FS_CardinalityType
  <2>3. \A l \in ls : Rank(l, ls) \in Nat /\ Rank(l, ls) < n
    BY <2>2, RankBound
  <2>4. nextJob \in Nat /\ nextJob >= 1
    BY BoundsAssumption DEF TypeInv, TypeOK
  <2>5. nextJob' \in 1 .. MaxJobs + 1 /\ nextJob' \in Nat /\ nextJob' >= nextJob
    BY <2>1, <2>2, <2>4, BoundsAssumption
  <2>6. \A l \in ls : idOf(l) >= nextJob /\ idOf(l) < nextJob'
    <3> HIDE DEF n
    <3> QED BY <2>1, <2>2, <2>3, <2>4
  <2>7. ASSUME NEW j \in Jobs, \E l \in ls : idOf(l) = j
        PROVE  row(j) \in JobRow /\ row(j).lead \in Leads /\ row(j).st = "pending"
    <3>1. pick(j) \in ls
      BY <2>7
    <3> HIDE DEF pick
    <3>2. pick(j) \in Leads /\ form[w].attempts[pick(j)] + 1 \in Nat /\ form[w].at \in Nat
      BY <1>2, <3>1, BoundsAssumption DEF Times
    <3>3. row(j) \in JobRow
      BY <3>2, NewJobType
    <3> QED BY <3>2, <3>3 DEF NewJob
  <2> HIDE DEF idOf, row
  <2>8. job' \in [Jobs -> JobRow]
    BY <2>1, <2>7 DEF TypeInv, TypeOK
  <2>9. \A j \in Jobs : (\E l \in ls : idOf(l) = j) => j >= nextJob /\ j < nextJob'
    BY <2>6
  <2>10. JobsOK' /\ Kept
    <3> SUFFICES ASSUME NEW j \in Jobs
        PROVE  /\ j >= nextJob' => job'[j].st = "none"
               /\ job'[j].st # "none" => job'[j].lead \in Leads
               /\ job[j].st # "none" => job'[j].st # "none"
      BY DEF JobsOK, Kept
    <3>1. CASE \E l \in ls : idOf(l) = j
      <4>1. job'[j] = row(j) /\ ~(j >= nextJob')
        BY <2>1, <2>5, <2>9, <3>1, BoundsAssumption DEF Jobs
      <4> QED BY <2>7, <3>1, <4>1
    <3>2. CASE ~\E l \in ls : idOf(l) = j
      <4>1. job'[j] = job[j]
        BY <2>1, <3>2
      <4>2. j >= nextJob' => j >= nextJob
        BY <2>4, <2>5, BoundsAssumption DEF Jobs
      <4> QED BY <4>1, <4>2 DEF TypeInv, JobsOK
    <3> QED BY <3>1, <3>2
  <2>11. task' \in [Procs -> TaskRow]
    BY <1>1, <2>1, GotoTyped DEF PCs, JobPCs
  <2>12. TaskOK'
    BY <1>1, <2>1, <2>10 DEF Kept, TypeInv, TypeOK, TaskOK, TaskRow, Goto, JobPCs
  <2> QED BY <1>1, <2>1, <2>5, <2>8, <2>10, <2>11, <2>12 DEF TypeInv, TypeOK, env, hist
<1>4. CASE ~\A l \in ls : LeadExists(l)
  <2>1. Finish(w) /\ form' = [form EXCEPT ![w] = NoForm] /\ UNCHANGED <<job, nextJob>>
    BY <1>4 DEF ScheduleInsert
  <2>2. Kept
    BY <2>1 DEF Kept
  <2>3. task' \in [Procs -> TaskRow] /\ TaskOK' /\ form' \in [Workers -> FormRow]
    BY <2>1, <2>2, WorkerDone
  <2> QED BY <1>1, <2>1, <2>3 DEF TypeInv, TypeOK, JobsOK, env, hist
<1> QED BY <1>3, <1>4

(* Administrative requests.                                                *)
LEMMA StartJobType ==
  ASSUME TypeInv, NEW w \in Workers, NEW j \in Jobs, StartJob(w, j)
  PROVE  TypeInv'
<1> DEFINE t == [pc |-> "claim", job |-> j, ret |-> "dial"]
<1>1. /\ requests' \in Nat /\ job[j].st # "none"
      /\ task' = [task EXCEPT ![w] = t]
      /\ UNCHANGED <<db, call, posts, clock, loop, form, hist>>
  BY DEF TypeInv, TypeOK, StartJob, Request, JobExists, Exists
<1>2. t \in TaskRow
  BY DEF TaskRow, PCs, JobPCs
<1>3. task' \in [Procs -> TaskRow]
  BY <1>1, <1>2 DEF TypeInv, TypeOK
<1>4. TaskOK'
  BY <1>1 DEF TypeInv, TypeOK, TaskOK, JobPCs, Procs, db
<1> QED BY <1>1, <1>3, <1>4 DEF TypeInv, TypeOK, JobsOK, db, hist

LEMMA CreateCampaignType ==
  ASSUME TypeInv, NEW w \in Workers, NEW c \in Campaigns, CreateCampaign(w, c)
  PROVE  TypeInv'
<1>1. /\ requests' \in Nat
      /\ UNCHANGED <<lead, job, nextJob, cdrs, call, posts, clock, mem, hist>>
  BY DEF TypeInv, TypeOK, CreateCampaign, Request
<1>2. camp' \in [Campaigns -> CampaignRow]
  BY LimitsAssumption DEF TypeInv, TypeOK, CreateCampaign, CampaignRow
<1> QED BY <1>1, <1>2 DEF TypeInv, TypeOK, TaskOK, JobsOK, mem, hist

LEMMA AddLeadType ==
  ASSUME TypeInv, NEW w \in Workers, NEW l \in Leads, AddLead(w, l)
  PROVE  TypeInv'
<1>1. /\ requests' \in Nat
      /\ UNCHANGED <<camp, job, nextJob, cdrs, call, posts, clock, mem, hist>>
  BY DEF TypeInv, TypeOK, AddLead, Request
<1>2. lead' \in [Leads -> LeadRow]
  BY DEF TypeInv, TypeOK, AddLead, LeadRow
<1> QED BY <1>1, <1>2 DEF TypeInv, TypeOK, TaskOK, JobsOK, mem, hist

(* A worker that goes on to save what it has read.                         *)
LEMMA FormRead ==
  ASSUME TypeInv, NEW w \in Workers, NEW f \in FormRow,
         NEW pc \in {"schInsert", "updSave"},
         f.kind = IF pc = "updSave" THEN "update" ELSE "schedule",
         form' = [form EXCEPT ![w] = f], Goto(w, pc), At(w, "idle"), UNCHANGED job
  PROVE  task' \in [Procs -> TaskRow] /\ TaskOK' /\ form' \in [Workers -> FormRow]
<1>1. task' \in [Procs -> TaskRow]
  BY GotoTyped DEF PCs, Procs
<1>2. form' \in [Workers -> FormRow]
  BY DEF TypeInv, TypeOK
<1>3. \A q \in Procs : /\ task'[q].job = task[q].job
                       /\ task'[q].ret = task[q].ret
                       /\ task'[q].pc = IF q = w THEN pc ELSE task[q].pc
  BY DEF TypeInv, TypeOK, Goto, TaskRow
<1>4. \A q \in Workers : form'[q] = IF q = w THEN f ELSE form[q]
  BY DEF TypeInv, TypeOK
<1>5. TaskOK'
  <2> SUFFICES ASSUME NEW q \in Procs
      PROVE  /\ task'[q].pc \in JobPCs => /\ task'[q].job \in Jobs
                                          /\ job'[task'[q].job].st # "none"
                                          /\ task'[q].ret # "none"
             /\ task'[q].ret = "ingest" => q \in Workers
             /\ task'[q].ret = "slot" => q \in Schedulers
             /\ task'[q].pc \in {"schInsert", "schSave"} =>
                  q \in Workers /\ form'[q].kind = "schedule"
             /\ task'[q].pc = "updSave" => q \in Workers /\ form'[q].kind = "update"
    BY DEF TaskOK
  <2>1. CASE q = w
    BY <2>1, <1>3, <1>4 DEF TypeInv, TaskOK, JobPCs
  <2>2. CASE q # w
    BY <2>2, <1>3, <1>4 DEF TypeInv, TaskOK
  <2> QED BY <2>1, <2>2
<1> QED BY <1>1, <1>2, <1>5

LEMMA ScheduleReadType ==
  ASSUME TypeInv, NEW w \in Workers, NEW c \in Campaigns, NEW at \in Times,
         ScheduleRead(w, c, at)
  PROVE  TypeInv'
<1> DEFINE f == [kind |-> "schedule", id |-> c, at |-> at,
                 leads |-> Open(c), attempts |-> [l \in Leads |-> lead[l].attempts]]
<1>1. /\ requests' \in Nat /\ At(w, "idle") /\ Goto(w, "schInsert")
      /\ form' = [form EXCEPT ![w] = f]
      /\ UNCHANGED <<db, call, posts, clock, loop, hist>>
  BY DEF TypeInv, TypeOK, ScheduleRead, Request
<1>2. f \in FormRow
  <2>1. Open(c) \subseteq Leads
    BY DEF Open, LeadsOf
  <2>2. f.attempts \in [Leads -> Nat]
    BY <2>1 DEF TypeInv, TypeOK, LeadRow
  <2> QED BY <2>1, <2>2 DEF FormRow
<1>3. f.kind = "schedule"
  OBVIOUS
<1> HIDE DEF f
<1>4. task' \in [Procs -> TaskRow] /\ TaskOK' /\ form' \in [Workers -> FormRow]
  BY <1>1, <1>2, <1>3, FormRead DEF db
<1> QED BY <1>1, <1>4 DEF TypeInv, TypeOK, JobsOK, db, hist

LEMMA UpdateReadType ==
  ASSUME TypeInv, NEW w \in Workers, NEW c \in Campaigns, UpdateRead(w, c)
  PROVE  TypeInv'
<1>1. /\ requests' \in Nat /\ At(w, "idle") /\ Goto(w, "updSave")
      /\ UNCHANGED <<db, call, posts, clock, loop, hist>>
  BY DEF TypeInv, TypeOK, UpdateRead, Request
<1>2. PICK st \in {"running", "paused"}, limit \in Limits \cup {camp[c].limit} :
        form' = [form EXCEPT ![w] =
          [kind |-> "update", id |-> c, row |-> [st |-> st, limit |-> limit]]]
  BY DEF UpdateRead
<1> DEFINE f == [kind |-> "update", id |-> c, row |-> [st |-> st, limit |-> limit]]
<1>3. limit \in Nat
  BY LimitsAssumption DEF TypeInv, TypeOK, CampaignRow
<1>4. f \in FormRow /\ f.kind = "update"
  BY <1>3 DEF FormRow, CampaignRow
<1> HIDE DEF f
<1>5. task' \in [Procs -> TaskRow] /\ TaskOK' /\ form' \in [Workers -> FormRow]
  BY <1>1, <1>2, <1>4, FormRead DEF db, f
<1> QED BY <1>1, <1>5 DEF TypeInv, TypeOK, JobsOK, db, hist

(* Deleting leads and their jobs.                                          *)
LEMMA WithoutType ==
  ASSUME TypeInv, NEW ls \in SUBSET Leads, Without(ls), nextJob' = nextJob
  PROVE  /\ lead' \in [Leads -> LeadRow]
         /\ job' \in [Jobs -> JobRow]
         /\ JobsOK'
         /\ Kept
         /\ \A j \in Jobs : /\ job'[j].lead = job[j].lead
                            /\ job'[j].st \in {job[j].st, "gone"}
<1>1. lead' \in [Leads -> LeadRow]
  BY DEF TypeInv, TypeOK, Without, LeadRow
<1>2. job' \in [Jobs -> JobRow]
  BY DEF TypeInv, TypeOK, Without, JobRow
<1>3. \A j \in Jobs : /\ job'[j].lead = job[j].lead
                      /\ job'[j].st \in {job[j].st, "gone"}
                      /\ job[j].st = "none" => job'[j].st = "none"
  BY DEF TypeInv, TypeOK, Without, JobRow, JobExists, Exists
<1> QED BY <1>1, <1>2, <1>3 DEF TypeInv, JobsOK, Kept

LEMMA DeleteLeadType ==
  ASSUME TypeInv, NEW w \in Workers, NEW l \in Leads, DeleteLead(w, l)
  PROVE  TypeInv'
<1>1. /\ requests' \in Nat
      /\ UNCHANGED <<camp, nextJob, cdrs, call, posts, clock, mem, hist>>
  BY DEF TypeInv, TypeOK, DeleteLead, Request
<1>2. lead' \in [Leads -> LeadRow] /\ job' \in [Jobs -> JobRow] /\ JobsOK' /\ Kept
  BY <1>1, WithoutType DEF DeleteLead
<1> QED BY <1>1, <1>2 DEF TypeInv, TypeOK, TaskOK, Kept, mem, hist

LEMMA DeleteCampaignType ==
  ASSUME TypeInv, NEW w \in Workers, NEW c \in Campaigns, DeleteCampaign(w, c)
  PROVE  TypeInv'
<1>1. /\ requests' \in Nat
      /\ UNCHANGED <<nextJob, call, posts, clock, mem, hist>>
      /\ cdrs' \subseteq cdrs
  BY DEF TypeInv, TypeOK, DeleteCampaign, Request
<1>2. camp' \in [Campaigns -> CampaignRow]
  BY DEF TypeInv, TypeOK, DeleteCampaign, CampaignRow
<1>3. LeadsOf(c) \in SUBSET Leads
  BY DEF LeadsOf
<1>4. lead' \in [Leads -> LeadRow] /\ job' \in [Jobs -> JobRow] /\ JobsOK' /\ Kept
  BY <1>1, <1>3, WithoutType DEF DeleteCampaign
<1> QED BY <1>1, <1>2, <1>4 DEF TypeInv, TypeOK, TaskOK, Kept, mem, hist

(* The environment.                                                        *)
LEMMA EndCallType ==
  ASSUME TypeInv, NEW j \in Jobs, EndCall(j)
  PROVE  TypeInv'
<1>1. call' \in [Jobs -> {"none", "live", "answered", "unanswered"}]
  BY DEF TypeInv, TypeOK, EndCall
<1> QED BY <1>1 DEF TypeInv, TypeOK, TaskOK, JobsOK, EndCall, db, mem, hist

LEMMA PassTimeType ==
  ASSUME TypeInv, PassTime
  PROVE  TypeInv'
<1>1. clock' \in Times
  BY BoundsAssumption DEF TypeInv, TypeOK, PassTime, Times
<1> QED BY <1>1 DEF TypeInv, TypeOK, TaskOK, JobsOK, PassTime, db, mem, hist

LEMMA CrashType ==
  ASSUME TypeInv, NEW h, Crash(h)
  PROVE  TypeInv'
<1>1. Idle \in TaskRow /\ NoLoop \in LoopRow /\ NoForm \in FormRow
  BY BoundsAssumption DEF Idle, TaskRow, PCs, NoJob, NoLoop, LoopRow, Times, NoForm, FormRow
<1>2. /\ task' \in [Procs -> TaskRow]
      /\ loop' \in [Schedulers -> LoopRow]
      /\ form' \in [Workers -> FormRow]
  BY <1>1 DEF TypeInv, TypeOK, Crash
<1>3. TaskOK'
  <2>1. \A p \in Procs :
          \/ task'[p] = Idle
          \/ task'[p] = task[p] /\ (p \in Workers => form'[p] = form[p])
    <3>1. /\ task' = [p \in Procs |-> IF HostOf[p] = h THEN Idle ELSE task[p]]
          /\ form' = [w \in Workers |-> IF HostOf[w] = h THEN NoForm ELSE form[w]]
      BY DEF Crash
    <3> SUFFICES ASSUME NEW p \in Procs
        PROVE  \/ task'[p] = Idle
               \/ task'[p] = task[p] /\ (p \in Workers => form'[p] = form[p])
      OBVIOUS
    <3>2. CASE HostOf[p] = h
      BY <3>1, <3>2
    <3>3. CASE HostOf[p] # h
      BY <3>1, <3>3
    <3> QED BY <3>2, <3>3
  <2>2. UNCHANGED <<db, env, hist>>
    BY DEF Crash
  <2> QED BY <2>1, <2>2 DEF TypeInv, TaskOK, Idle, JobPCs, db
<1> QED BY <1>2, <1>3 DEF TypeInv, TypeOK, JobsOK, Crash, db, env, hist

-----------------------------------------------------------------------------
(* Every step keeps the invariant.                                         *)
LEMMA TypeNext == TypeInv /\ [Next]_vars => TypeInv'
<1> SUFFICES ASSUME TypeInv, [Next]_vars PROVE TypeInv'
  OBVIOUS
<1>1. ASSUME NEW s \in Schedulers, Schedule(s) PROVE TypeInv'
  BY <1>1, TickType, EndTickType, NextCampaignType, NextSlotType DEF Schedule
<1>2. ASSUME NEW p \in Procs, Work(p) PROVE TypeInv'
  <2>1. CASE Dial(p)
    <3>1. CASE Claim(p) \/ LeadStart(p)
      BY <3>1, ClaimType, LeadStartType
    <3>2. CASE OriginateAccepted(p) \/ OriginateVanishes(p) \/ OriginateRefused(p)
               \/ OriginateTimesOut(p)
      BY <3>2, OriginateType
      DEF OriginateAccepted, OriginateVanishes, OriginateRefused, OriginateTimesOut
    <3> QED BY <2>1, <3>1, <3>2 DEF Dial
  <2>2. CASE Fail(p)
    BY <2>2, FailReadType, FailSaveType, FailLeadType, FailRetryType, FailRequeueType DEF Fail
  <2>3. CASE p \in Workers /\ Ingest(p)
    BY <2>3, IngestJobType, IngestLeadType, ChargeType DEF Ingest
  <2>4. CASE p \in Workers /\ Save(p)
    BY <2>4, ScheduleInsertType, ScheduleSaveType, UpdateSaveType DEF Save
  <2> QED BY <1>2, <2>1, <2>2, <2>3, <2>4 DEF Work
<1>3. ASSUME NEW w \in Workers, Ask(w) PROVE TypeInv'
  BY <1>3, StartJobType, AddLeadType, DeleteLeadType, CreateCampaignType, UpdateReadType,
     DeleteCampaignType, ScheduleReadType DEF Ask
<1>4. ASSUME NEW w \in Workers, NEW j \in Jobs, IngestCdr(w, j) PROVE TypeInv'
  BY <1>4, IngestCdrType
<1>5. ASSUME NEW j \in Jobs, EndCall(j) PROVE TypeInv'
  BY <1>5, EndCallType
<1>6. ASSUME NEW h, Crash(h) PROVE TypeInv'
  BY <1>6, CrashType
<1>7. CASE PassTime
  BY <1>7, PassTimeType
<1>8. CASE UNCHANGED vars
  BY <1>8 DEF TypeInv, TypeOK, TaskOK, JobsOK, vars, db, env, mem, hist
<1> QED BY <1>1, <1>2, <1>3, <1>4, <1>5, <1>6, <1>7, <1>8 DEF Next

(* The rows, processes and counters always stay in their domains, and a    *)
(* process only ever works on a job that was created.                      *)
THEOREM TypeCorrect == Spec => []TypeOK
<1>1. Init => TypeInv
  BY TypeInit
<1>2. TypeInv /\ [Next]_vars => TypeInv'
  BY TypeNext
<1>3. TypeInv => TypeOK
  BY DEF TypeInv
<1> QED BY <1>1, <1>2, <1>3, PTL DEF Spec

-----------------------------------------------------------------------------
(* DialedOnce.  A job that was dialled is past pending, and a process on   *)
(* its way to the originate command holds the job alone and before its     *)
(* first dial: the claim can succeed only once for a job.                  *)
Unclaimed(j) == job[j].st \in {"none", "pending"}
Dialling(p)  == task[p].pc \in {"leadStart", "originate"}

DialInv ==
  /\ \A j \in Jobs : dials[j] \in {0, 1}
  /\ \A j \in Jobs : Unclaimed(j) => dials[j] = 0
  /\ \A p \in Procs : Dialling(p) => ~Unclaimed(task[p].job) /\ dials[task[p].job] = 0
  /\ \A p, q \in Procs : Dialling(p) /\ Dialling(q) /\ task[p].job = task[q].job => p = q

(* A step is quiet when it dials nothing, makes no claimed job claimable   *)
(* again and puts nobody on the way to the originate command.              *)
Quiet ==
  /\ UNCHANGED dials
  /\ \A j \in Jobs : job'[j].st \in {"none", "pending"} => Unclaimed(j)
  /\ \A p \in Procs : task'[p].pc \in {"leadStart", "originate"} =>
                        Dialling(p) /\ task'[p].job = task[p].job

LEMMA DialQuiet ==
  ASSUME TypeInv, DialInv, Quiet
  PROVE  DialInv'
<1>1. \A p \in Procs : Dialling(p) => task[p].job \in Jobs
  BY DEF TypeInv, TaskOK, Dialling, JobPCs
<1> QED BY <1>1 DEF DialInv, Quiet, Unclaimed, Dialling

LEMMA DialInit == Init => DialInv
  BY DEF Init, DialInv, Dialling, Idle, Procs

(* A process that follows another step of its own is not dialling.         *)
LEMMA FollowsQuiet ==
  ASSUME TypeInv, NEW p \in Procs,
         \/ Return(p) \/ Throw(p) \/ Finish(p)
         \/ task' = [task EXCEPT ![p] = Rethrow(p)],
         task[p].pc \in JobPCs
  PROVE  \A q \in Procs : task'[q].pc \in {"leadStart", "originate"} =>
                            Dialling(q) /\ task'[q].job = task[q].job
<1>1. \E t \in TaskRow : /\ t.pc \notin {"leadStart", "originate"}
                         /\ task' = [task EXCEPT ![p] = t]
  <2>1. CASE Return(p) \/ Throw(p)
    BY <2>1, ReturnFollows DEF Follows
  <2>2. CASE Finish(p)
    BY <2>2 DEF Finish, Idle, TaskRow, PCs, NoJob
  <2>3. CASE task' = [task EXCEPT ![p] = Rethrow(p)]
    BY <2>3, RethrowFollows DEF Follows
  <2> QED BY <2>1, <2>2, <2>3
<1> QED BY <1>1 DEF TypeInv, TypeOK, Dialling

LEMMA GotoQuiet ==
  ASSUME TypeInv, NEW p \in Procs, NEW pc \in PCs \ {"leadStart", "originate"}, Goto(p, pc)
  PROVE  \A q \in Procs : task'[q].pc \in {"leadStart", "originate"} =>
                            Dialling(q) /\ task'[q].job = task[q].job
  BY DEF TypeInv, TypeOK, TaskRow, Goto, Dialling

LEMMA DialSchedule ==
  ASSUME TypeInv, DialInv, NEW s \in Schedulers, Schedule(s)
  PROVE  DialInv'
<1>1. UNCHANGED <<db, hist>> /\ s \in Procs
  BY DEF Schedule, Tick, EndTick, NextCampaign, NextSlot, Procs
<1>2. \A q \in Procs : task'[q].pc \in {"leadStart", "originate"} =>
                         Dialling(q) /\ task'[q].job = task[q].job
  <2>1. CASE Tick(s) \/ NextCampaign(s)
    <3>1. Goto(s, "campaign") \/ Goto(s, "slot")
      BY <2>1 DEF Tick, NextCampaign
    <3> QED BY <1>1, <3>1, GotoQuiet DEF PCs
  <2>2. CASE EndTick(s)
    BY <2>2 DEF EndTick, Finish, Idle, Dialling, TypeInv, TypeOK
  <2>3. CASE NextSlot(s)
    <3>1. CASE Goto(s, "campaign")
      BY <1>1, <3>1, GotoQuiet DEF PCs
    <3>2. CASE \E j \in Jobs : task' = [task EXCEPT ![s] = [pc |-> "claim", job |-> j, ret |-> "dial"]]
      BY <3>2 DEF Dialling, TypeInv, TypeOK
    <3> DEFINE due == UNION {Due(c, loop[s].now) : c \in loop[s].cur}
    <3>3. First(due) \subseteq Jobs
      BY DEF First, Due, JobsOf
    <3> HIDE DEF due
    <3>4. \/ Goto(s, "campaign")
          \/ \E j \in First(due) : task' = [task EXCEPT ![s] = [pc |-> "claim", job |-> j, ret |-> "dial"]]
      BY <2>3 DEF NextSlot, due
    <3> QED BY <3>1, <3>2, <3>3, <3>4
  <2> QED BY <2>1, <2>2, <2>3 DEF Schedule
<1>3. Quiet
  BY <1>1, <1>2 DEF Quiet, Unclaimed, db, hist
<1> QED BY <1>3, DialQuiet

LEMMA DialClaim ==
  ASSUME TypeInv, DialInv, NEW p \in Procs, Claim(p)
  PROVE  DialInv'
<1> DEFINE j == task[p].job
<1>1. task[p].pc \in JobPCs /\ j \in Jobs /\ job[j].st # "none" /\ UNCHANGED dials
  BY TaskFacts DEF Claim, At, JobPCs, hist
<1>2. CASE Claimable(j)
  <2>1. job' = [job EXCEPT ![j].st = "dialing"] /\ Goto(p, "leadStart")
    BY <1>2 DEF Claim
  <2>2. \A k \in Jobs : job'[k].st = IF k = j THEN "dialing" ELSE job[k].st
    BY <1>1, <2>1, JobStatus
  <2>3. \A q \in Procs : /\ task'[q].job = task[q].job
                         /\ task'[q].pc = IF q = p THEN "leadStart" ELSE task[q].pc
    BY <2>1 DEF Goto, TypeInv, TypeOK, TaskRow
  <2>4. Unclaimed(j) /\ dials[j] = 0
    BY <1>1, <1>2 DEF Claimable, Unclaimed, DialInv
  <2>5. \A q \in Procs : Dialling(q) => task[q].job \in Jobs /\ task[q].job # j
    BY <2>4 DEF DialInv, TypeInv, TaskOK, Dialling, JobPCs
  <2> QED BY <1>1, <2>2, <2>3, <2>4, <2>5 DEF DialInv, Unclaimed, Dialling
<1>3. CASE ~Claimable(j)
  <2>1. job' = job /\ task' = [task EXCEPT ![p] = Rethrow(p)]
    BY <1>3 DEF Claim
  <2>2. Quiet
    BY <1>1, <2>1, FollowsQuiet DEF Quiet, Unclaimed
  <2> QED BY <2>2, DialQuiet
<1> QED BY <1>2, <1>3

LEMMA DialLeadStart ==
  ASSUME TypeInv, DialInv, NEW p \in Procs, LeadStart(p)
  PROVE  DialInv'
<1>1. Quiet
  BY DEF Quiet, LeadStart, At, Goto, Dialling, Unclaimed, TypeInv, TypeOK, TaskRow, hist
<1> QED BY <1>1, DialQuiet

LEMMA DialOriginate ==
  ASSUME TypeInv, DialInv, NEW p \in Procs, Sent(p), Originated(p) \/ Goto(p, "mfRead")
  PROVE  DialInv'
<1> DEFINE j == task[p].job
<1>1. /\ j \in Jobs /\ task[p].pc = "originate" /\ job' = job
      /\ dials' = [dials EXCEPT ![j] = @ + 1]
  BY SentType DEF Sent, At
<1>2. dials[j] = 0 /\ ~Unclaimed(j)
  BY <1>1 DEF DialInv, Dialling
<1>3. \A q \in Procs : task'[q].pc \in {"leadStart", "originate"} =>
                         Dialling(q) /\ task'[q] = task[q] /\ q # p
  <2>1. CASE Goto(p, "mfRead")
    BY <2>1 DEF Goto, Dialling, TypeInv, TypeOK, TaskRow
  <2>2. CASE Originated(p)
    <3>1. PICK t \in TaskRow : Follows(p, t) /\ task' = [task EXCEPT ![p] = t]
      BY <2>2, OriginatedFollows
    <3> QED BY <3>1 DEF Follows, Dialling, TypeInv, TypeOK
  <2> QED BY <2>1, <2>2
<1>4. \A q \in Procs : Dialling(q) /\ q # p => task[q].job # j
  BY <1>1 DEF DialInv, Dialling
<1>5. dials'[j] = 1 /\ \A k \in Jobs : k # j => dials'[k] = dials[k]
  BY <1>1, <1>2 DEF TypeInv, TypeOK
<1>6. \A q \in Procs : Dialling(q) => task[q].job \in Jobs
  BY DEF TypeInv, TaskOK, Dialling, JobPCs
<1> QED BY <1>1, <1>2, <1>3, <1>4, <1>5, <1>6 DEF DialInv, Unclaimed, Dialling

LEMMA DialFail ==
  ASSUME TypeInv, DialInv, NEW p \in Procs, Fail(p)
  PROVE  DialInv'
<1>1. task[p].pc \in JobPCs /\ UNCHANGED dials
  BY DEF Fail, FailRead, FailSave, FailLead, FailRetry, FailRequeue, At, JobPCs, hist
<1>2. \A q \in Procs : task'[q].pc \in {"leadStart", "originate"} =>
                         Dialling(q) /\ task'[q].job = task[q].job
  <2>1. \/ Return(p) \/ Throw(p)
        \/ Goto(p, "mfSave") \/ Goto(p, "mfLead") \/ Goto(p, "mfRetry") \/ Goto(p, "mfRequeue")
    BY DEF Fail, FailRead, FailSave, FailLead, FailRetry, FailRequeue
  <2> QED BY <1>1, <2>1, FollowsQuiet, GotoQuiet DEF PCs, JobPCs
<1>3. \A k \in Jobs : job'[k].st \in {"none", "pending"} => Unclaimed(k)
  <2>1. CASE job' = job
    BY <2>1 DEF Unclaimed
  <2>2. CASE job' = [job EXCEPT ![task[p].job].st = "failed"]
    BY <1>1, <2>2, TaskFacts, JobStatus DEF Unclaimed
  <2>3. CASE \E row : job' = [job EXCEPT ![nextJob] = row]
    <3>1. nextJob \in Jobs => Unclaimed(nextJob)
      BY BoundsAssumption DEF TypeInv, JobsOK, Unclaimed, Jobs
    <3> QED BY <2>3, <3>1 DEF TypeInv, TypeOK, Unclaimed
  <2> QED BY <2>1, <2>2, <2>3 DEF Fail, FailRead, FailSave, FailLead, FailRetry, FailRequeue, db
<1> QED BY <1>1, <1>2, <1>3, DialQuiet DEF Quiet

LEMMA DialIngest ==
  ASSUME TypeInv, DialInv, NEW w \in Workers, Ingest(w)
  PROVE  DialInv'
<1>1. task[w].pc \in JobPCs /\ UNCHANGED dials /\ w \in Procs
  BY DEF Ingest, IngestJob, IngestLead, Charge, At, JobPCs, hist, Procs
<1>2. \A q \in Procs : task'[q].pc \in {"leadStart", "originate"} =>
                         Dialling(q) /\ task'[q].job = task[q].job
  <2>1. Finish(w) \/ Goto(w, "cdrLead") \/ Goto(w, "charge")
    BY DEF Ingest, IngestJob, IngestLead, Charge
  <2> QED BY <1>1, <2>1, FollowsQuiet, GotoQuiet DEF PCs, JobPCs
<1>3. \A k \in Jobs : job'[k].st \in {"none", "pending"} => Unclaimed(k)
  <2>1. CASE job' = job
    BY <2>1 DEF Unclaimed
  <2>2. CASE job' = [job EXCEPT ![task[w].job].st = "completed"]
    BY <1>1, <2>2, TaskFacts, JobStatus DEF Unclaimed
  <2> QED BY <2>1, <2>2 DEF Ingest, IngestJob, IngestLead, Charge, db
<1> QED BY <1>1, <1>2, <1>3, DialQuiet DEF Quiet

LEMMA DialSave ==
  ASSUME TypeInv, DialInv, NEW w \in Workers, Save(w)
  PROVE  DialInv'
<1>1. UNCHANGED dials /\ w \in Procs
  BY DEF Save, ScheduleInsert, ScheduleSave, UpdateSave, hist, Procs
<1>2. \A q \in Procs : task'[q].pc \in {"leadStart", "originate"} =>
                         Dialling(q) /\ task'[q].job = task[q].job
  <2>1. CASE Goto(w, "schSave")
    BY <1>1, <2>1, GotoQuiet DEF PCs, JobPCs
  <2>2. CASE Finish(w)
    BY <2>2 DEF Finish, Idle, Dialling, TypeInv, TypeOK
  <2> QED BY <2>1, <2>2 DEF Save, ScheduleInsert, ScheduleSave, UpdateSave
<1>3. \A k \in Jobs : job'[k].st \in {"none", "pending"} => Unclaimed(k)
  <2>1. CASE job' = job
    BY <2>1 DEF Unclaimed
  <2>2. CASE ScheduleInsert(w) /\ job' # job
    <3> DEFINE ls == form[w].leads
               idOf(l) == nextJob + Rank(l, ls)
    <3>1. ls \subseteq Leads
      BY <2>2 DEF ScheduleInsert, At, TypeInv, TypeOK, TaskOK, Procs, FormRow
    <3>2. \A l \in ls : Rank(l, ls) \in Nat
      BY <3>1, LeadsAssumption, FS_Subset, RankBound
    <3>3. \A j \in Jobs : (\E l \in ls : idOf(l) = j) => Unclaimed(j)
      <4>1. nextJob \in Nat
        BY BoundsAssumption DEF TypeInv, TypeOK
      <4>2. \A l \in ls : idOf(l) \in Nat /\ idOf(l) >= nextJob
        BY <3>2, <4>1
      <4> HIDE DEF idOf, ls
      <4>3. \A j \in Jobs : (\E l \in ls : idOf(l) = j) => j >= nextJob
        BY <4>2
      <4> QED BY <4>3 DEF TypeInv, JobsOK, Unclaimed
    <3>4. \A j \in Jobs : ~(\E l \in ls : idOf(l) = j) => job'[j] = job[j]
      BY <2>2 DEF ScheduleInsert
    <3> QED BY <3>3, <3>4 DEF Unclaimed
  <2> QED BY <2>1, <2>2 DEF Save, ScheduleSave, UpdateSave
<1> QED BY <1>1, <1>2, <1>3, DialQuiet DEF Quiet

LEMMA DialAsk ==
  ASSUME TypeInv, DialInv, NEW w \in Workers, Ask(w)
  PROVE  DialInv'
<1>1. UNCHANGED dials /\ w \in Procs
  BY DEF Ask, StartJob, AddLead, DeleteLead, CreateCampaign, UpdateRead, DeleteCampaign,
         ScheduleRead, hist, Procs
<1>2. \A q \in Procs : task'[q].pc \in {"leadStart", "originate"} =>
                         Dialling(q) /\ task'[q].job = task[q].job
  <2>1. CASE \E j \in Jobs : task' = [task EXCEPT ![w] = [pc |-> "claim", job |-> j, ret |-> "dial"]]
    BY <2>1 DEF Dialling, TypeInv, TypeOK
  <2>2. CASE Goto(w, "schInsert") \/ Goto(w, "updSave")
    BY <1>1, <2>2, GotoQuiet DEF PCs, JobPCs
  <2>3. CASE task' = task
    BY <2>3 DEF Dialling
  <2> QED BY <2>1, <2>2, <2>3
          DEF Ask, StartJob, AddLead, DeleteLead, CreateCampaign, UpdateRead, DeleteCampaign,
              ScheduleRead, mem
<1>3. \A k \in Jobs : job'[k].st \in {"none", "pending"} => Unclaimed(k)
  <2>1. CASE job' = job
    BY <2>1 DEF Unclaimed
  <2>2. CASE \E ls \in SUBSET Leads : Without(ls) /\ nextJob' = nextJob
    BY <2>2, WithoutType DEF Unclaimed
  <2>3. \A c : LeadsOf(c) \in SUBSET Leads
    BY DEF LeadsOf
  <2> QED BY <2>1, <2>2, <2>3
          DEF Ask, StartJob, AddLead, DeleteLead, CreateCampaign, UpdateRead, DeleteCampaign,
              ScheduleRead, db
<1> QED BY <1>1, <1>2, <1>3, DialQuiet DEF Quiet

LEMMA DialEnvironment ==
  ASSUME TypeInv, DialInv,
         \/ \E w \in Workers, j \in Jobs : IngestCdr(w, j)
         \/ \E j \in Jobs : EndCall(j)
         \/ \E h : Crash(h)
         \/ PassTime
         \/ UNCHANGED vars
  PROVE  DialInv'
<1>1. UNCHANGED <<job, dials>>
  BY DEF IngestCdr, EndCall, Crash, PassTime, vars, db, hist
<1>2. \A q \in Procs : task'[q].pc \in {"leadStart", "originate"} =>
                         Dialling(q) /\ task'[q].job = task[q].job
  <2>1. CASE \E w \in Workers, j \in Jobs : IngestCdr(w, j)
    <3>1. PICK w \in Workers, j \in Jobs : IngestCdr(w, j)
      BY <2>1
    <3>2. \/ task' = task
          \/ \E pc \in {"cdrJob", "mfRead"} :
               task' = [task EXCEPT ![w] = [pc |-> pc, job |-> j, ret |-> "ingest"]]
      BY <3>1 DEF IngestCdr
    <3> QED BY <3>2 DEF Dialling, TypeInv, TypeOK
  <2>2. CASE \E h : Crash(h)
    BY <2>2 DEF Crash, Idle, Dialling, TypeInv, TypeOK
  <2>3. CASE task' = task
    BY <2>3 DEF Dialling
  <2> QED BY <2>1, <2>2, <2>3 DEF EndCall, PassTime, vars, mem
<1> QED BY <1>1, <1>2, DialQuiet DEF Quiet, Unclaimed

LEMMA DialNext == TypeInv /\ DialInv /\ [Next]_vars => DialInv'
<1> SUFFICES ASSUME TypeInv, DialInv, [Next]_vars PROVE DialInv'
  OBVIOUS
<1>1. ASSUME NEW p \in Procs, Work(p) PROVE DialInv'
  <2>1. CASE Dial(p)
    <3>1. CASE Claim(p) \/ LeadStart(p)
      BY <3>1, DialClaim, DialLeadStart
    <3>2. CASE OriginateAccepted(p) \/ OriginateVanishes(p) \/ OriginateRefused(p)
               \/ OriginateTimesOut(p)
      BY <3>2, DialOriginate
      DEF OriginateAccepted, OriginateVanishes, OriginateRefused, OriginateTimesOut
    <3> QED BY <2>1, <3>1, <3>2 DEF Dial
  <2> QED BY <1>1, <2>1, DialFail, DialIngest, DialSave DEF Work
<1> QED BY <1>1, DialSchedule, DialAsk, DialEnvironment DEF Next

(* However many instances and requests work on a job, whatever fails and   *)
(* restarts, FreeSWITCH is told to ring it at most once.                   *)
THEOREM JobsDialledOnce == Spec => []DialedOnce
<1>1. Init => TypeInv /\ DialInv
  BY TypeInit, DialInit
<1>2. TypeInv /\ DialInv /\ [Next]_vars => (TypeInv /\ DialInv)'
  BY TypeNext, DialNext
<1>3. DialInv => DialedOnce
  BY DEF DialInv, DialedOnce
<1> QED BY <1>1, <1>2, <1>3, PTL DEF Spec

-----------------------------------------------------------------------------
(* ChargedOnce and the refinement, without deleted campaigns.  A request   *)
(* that ingests the CDR of a job has its CDR row, is alone with it, and    *)
(* has not charged it yet.                                                 *)
Ingesting(p) == task[p].ret = "ingest"

ChargeInv ==
  /\ \A j \in Jobs : charged[j] \in {0, 1}
  /\ \A j \in Jobs : j \notin cdrs => charged[j] = 0
  /\ \A p \in Procs : Ingesting(p) => /\ task[p].job \in cdrs
                                      /\ charged[task[p].job] = 0
                                      /\ task[p].pc \in JobPCs
  /\ \A p, q \in Procs : Ingesting(p) /\ Ingesting(q) /\ task[p].job = task[q].job => p = q
  /\ \A j \in cdrs : Ended(j)
  /\ \A j \in Jobs : dials[j] = 0 => call[j] = "none"

AllInv == TypeInv /\ DialInv /\ ChargeInv

LEMMA ChargeInit == Init => ChargeInv
  BY DEF Init, ChargeInv, Ingesting, Idle, Procs

(* Nobody starts to ingest, and no CDR, call, dial or charge changes.      *)
LEMMA ChargeQuiet ==
  ASSUME TypeInv, ChargeInv, UNCHANGED <<charged, cdrs, call, dials>>,
         \A p \in Procs : task'[p].ret = "ingest" =>
           Ingesting(p) /\ task'[p].job = task[p].job /\ task'[p].pc \in JobPCs
  PROVE  ChargeInv'
  BY DEF ChargeInv, Ingesting, Ended

(* How the control steps treat a request that ingests.                     *)
StaysIngesting ==
  \A q \in Procs : task'[q].ret = "ingest" =>
    Ingesting(q) /\ task'[q].job = task[q].job /\ task'[q].pc \in JobPCs

LEMMA FollowsIngest ==
  ASSUME TypeInv, ChargeInv, NEW p \in Procs,
         \/ Return(p) \/ Throw(p) \/ Finish(p)
         \/ task' = [task EXCEPT ![p] = Rethrow(p)],
         task[p].pc \in JobPCs
  PROVE  StaysIngesting
<1>1. PICK t \in TaskRow : /\ t.ret = "ingest" => /\ t.pc = "charge"
                                                  /\ t.job = task[p].job
                                                  /\ task[p].ret = "ingest"
                           /\ task' = [task EXCEPT ![p] = t]
  <2>1. CASE Return(p) \/ Throw(p)
    BY <2>1, ReturnFollows DEF Follows
  <2>2. CASE Finish(p)
    BY <2>2 DEF Finish, Idle, TaskRow, PCs, NoJob
  <2>3. CASE task' = [task EXCEPT ![p] = Rethrow(p)]
    BY <2>3, RethrowFollows DEF Follows
  <2> QED BY <2>1, <2>2, <2>3
<1> QED BY <1>1 DEF StaysIngesting, TypeInv, TypeOK, ChargeInv, Ingesting, JobPCs

LEMMA GotoIngest ==
  ASSUME TypeInv, ChargeInv, NEW p \in Procs, NEW pc \in PCs, Goto(p, pc),
         pc \in JobPCs \/ task[p].pc \notin JobPCs
  PROVE  StaysIngesting
  BY DEF StaysIngesting, TypeInv, TypeOK, TaskRow, Goto, ChargeInv, Ingesting

(* A step of the dialer seen by CallOnce: one of its steps, or none.       *)
Implements == ChargeInv' /\ [Abstract!Next]_(Abstract!vars)

LEMMA QuietImplements ==
  ASSUME TypeInv, ChargeInv, UNCHANGED <<charged, cdrs, call, dials>>, StaysIngesting
  PROVE  Implements
BY ChargeQuiet DEF StaysIngesting, Implements, Abstract!vars

LEMMA ScheduleImplements ==
  ASSUME AllInv, NEW s \in Schedulers, Schedule(s)
  PROVE  Implements
<1>1. UNCHANGED <<db, env, hist>> /\ s \in Procs /\ TypeInv /\ ChargeInv
  BY DEF Schedule, Tick, EndTick, NextCampaign, NextSlot, Procs, AllInv
<1>2. StaysIngesting
  <2>1. CASE Tick(s) \/ NextCampaign(s)
    <3>1. (Goto(s, "campaign") \/ Goto(s, "slot")) /\ task[s].pc \notin JobPCs
      BY <2>1 DEF Tick, NextCampaign, At, JobPCs
    <3> QED BY <1>1, <3>1, GotoIngest DEF PCs
  <2>2. CASE EndTick(s)
    BY <1>1, <2>2 DEF EndTick, Finish, Idle, StaysIngesting, TypeInv, TypeOK, ChargeInv, Ingesting
  <2>3. CASE NextSlot(s)
    <3>1. CASE Goto(s, "campaign")
      <4>1. task[s].pc \notin JobPCs
        BY <2>3 DEF NextSlot, At, JobPCs
      <4> QED BY <1>1, <3>1, <4>1, GotoIngest DEF PCs
    <3>2. CASE \E j : task' = [task EXCEPT ![s] = [pc |-> "claim", job |-> j, ret |-> "dial"]]
      BY <1>1, <3>2 DEF StaysIngesting, TypeInv, TypeOK, ChargeInv, Ingesting
    <3> DEFINE due == UNION {Due(c, loop[s].now) : c \in loop[s].cur}
    <3> HIDE DEF due
    <3>3. \/ Goto(s, "campaign")
          \/ \E j \in First(due) : task' = [task EXCEPT ![s] = [pc |-> "claim", job |-> j, ret |-> "dial"]]
      BY <2>3 DEF NextSlot, due
    <3> QED BY <3>1, <3>2, <3>3
  <2> QED BY <2>1, <2>2, <2>3 DEF Schedule
<1> QED BY <1>1, <1>2, QuietImplements DEF db, env, hist

LEMMA DialImplements ==
  ASSUME AllInv, NEW p \in Procs, Dial(p)
  PROVE  Implements
<1> DEFINE j == task[p].job
<1>1. task[p].pc \in JobPCs /\ TypeInv /\ ChargeInv
  BY DEF Dial, Claim, LeadStart, OriginateAccepted, OriginateVanishes, OriginateRefused,
         OriginateTimesOut, Sent, At, JobPCs, AllInv
<1>2. CASE Claim(p) \/ LeadStart(p)
  <2>1. UNCHANGED <<charged, cdrs, call, dials>>
    BY <1>2 DEF Claim, LeadStart, env, hist
  <2>2. \/ Goto(p, "leadStart") \/ Goto(p, "originate")
        \/ task' = [task EXCEPT ![p] = Rethrow(p)]
    BY <1>2 DEF Claim, LeadStart
  <2>3. StaysIngesting
    BY <1>1, <2>2, GotoIngest, FollowsIngest DEF PCs, JobPCs
  <2> QED BY <1>1, <2>1, <2>3, QuietImplements
<1>3. CASE OriginateAccepted(p) \/ OriginateVanishes(p) \/ OriginateRefused(p)
           \/ OriginateTimesOut(p)
  <2>1. /\ Sent(p)
        /\ Originated(p) \/ Goto(p, "mfRead")
        /\ CallStarts(j) \/ UNCHANGED call
    BY <1>3 DEF OriginateAccepted, OriginateVanishes, OriginateRefused, OriginateTimesOut
  <2>2. StaysIngesting
    <3>1. CASE Goto(p, "mfRead")
      BY <1>1, <3>1, GotoIngest DEF PCs, JobPCs
    <3>2. CASE Originated(p)
      <4>1. PICK t \in TaskRow : Follows(p, t) /\ task' = [task EXCEPT ![p] = t]
        BY <1>1, <3>2, OriginatedFollows
      <4>2. t.ret = "ingest" => t.pc = "charge" /\ t.job = task[p].job /\ task[p].ret = "ingest"
        BY <4>1 DEF Follows
      <4> QED BY <1>1, <4>1, <4>2 DEF StaysIngesting, TypeInv, TypeOK, ChargeInv, Ingesting, JobPCs
    <3> QED BY <2>1, <3>1, <3>2
  <2>3. /\ j \in Jobs /\ task[p].pc = "originate"
        /\ dials' = [dials EXCEPT ![j] = @ + 1]
        /\ UNCHANGED <<cdrs, charged>>
    BY <1>1, <2>1, SentType DEF Sent, At
  <2>4. dials[j] = 0 /\ call[j] = "none"
    BY <2>3 DEF AllInv, DialInv, Dialling, ChargeInv
  <2>5. dials' = [dials EXCEPT ![j] = 1]
    BY <2>3, <2>4
  <2>6. call' \in {call, [call EXCEPT ![j] = "live"]}
    BY <2>1, <2>4 DEF CallStarts
  <2>7. Abstract!Ring(j)
    BY <2>3, <2>4, <2>5, <2>6 DEF Abstract!Ring
  <2>8. j \notin cdrs
    BY <2>4 DEF AllInv, ChargeInv, Ended
  <2>9. \A k \in Jobs : k # j => call'[k] = call[k] /\ dials'[k] = dials[k]
    BY <2>5, <2>6 DEF AllInv, TypeInv, TypeOK
  <2>10. dials'[j] = 1
    BY <2>3, <2>5 DEF AllInv, TypeInv, TypeOK
  <2>11. cdrs \subseteq Jobs
    BY DEF AllInv, TypeInv, TypeOK
  <2>12. ChargeInv'
    BY <1>1, <2>2, <2>3, <2>8, <2>9, <2>10, <2>11 DEF ChargeInv, StaysIngesting, Ingesting, Ended
  <2> QED BY <2>3, <2>7, <2>12 DEF Implements, Abstract!Next
<1> QED BY <1>2, <1>3 DEF Dial

LEMMA FailImplements ==
  ASSUME AllInv, NEW p \in Procs, Fail(p)
  PROVE  Implements
<1>1. task[p].pc \in JobPCs /\ UNCHANGED <<charged, cdrs, call, dials>> /\ TypeInv /\ ChargeInv
  BY DEF Fail, FailRead, FailSave, FailLead, FailRetry, FailRequeue, At, JobPCs, db, env, hist,
         AllInv
<1>2. \/ Return(p) \/ Throw(p)
      \/ Goto(p, "mfSave") \/ Goto(p, "mfLead") \/ Goto(p, "mfRetry") \/ Goto(p, "mfRequeue")
  BY DEF Fail, FailRead, FailSave, FailLead, FailRetry, FailRequeue
<1>3. StaysIngesting
  BY <1>1, <1>2, FollowsIngest, GotoIngest DEF PCs, JobPCs
<1> QED BY <1>1, <1>3, QuietImplements

LEMMA IngestImplements ==
  ASSUME AllInv, NEW w \in Workers, Ingest(w),
         \A q \in Procs : task[q].pc = "charge" => Ingesting(q)
  PROVE  Implements
<1> DEFINE j == task[w].job
<1>1. task[w].pc \in JobPCs /\ w \in Procs /\ TypeInv /\ ChargeInv /\ j \in Jobs
  BY TaskFacts DEF Ingest, IngestJob, IngestLead, Charge, At, JobPCs, Procs, AllInv
<1>2. StaysIngesting
  <2>1. Finish(w) \/ Goto(w, "cdrLead") \/ Goto(w, "charge")
    BY DEF Ingest, IngestJob, IngestLead, Charge
  <2> QED BY <1>1, <2>1, FollowsIngest, GotoIngest DEF PCs, JobPCs
<1>3. CASE IngestJob(w) \/ IngestLead(w)
  BY <1>1, <1>2, <1>3, QuietImplements DEF IngestJob, IngestLead, env, hist
<1>4. CASE Charge(w)
  <2>1. /\ UNCHANGED <<dials, call, cdrs>> /\ Finish(w)
        /\ charged' = IF call[j] \in Billable THEN [charged EXCEPT ![j] = @ + 1] ELSE charged
    BY <1>4 DEF Charge, db, env
  <2>2. CASE call[j] \notin Billable
    BY <1>1, <1>2, <2>1, <2>2, QuietImplements
  <2>3. CASE call[j] \in Billable
    <3>1. j \in cdrs /\ charged[j] = 0 /\ Ingesting(w)
      BY <1>1, <1>4 DEF Charge, At, ChargeInv
    <3>2. charged' = [charged EXCEPT ![j] = 1]
      BY <2>1, <2>3, <3>1
    <3>3. Abstract!Charge(j)
      BY <2>1, <2>3, <3>1, <3>2 DEF Abstract!Charge
    <3>4. \A q \in Procs : task'[q].ret = "ingest" => q # w /\ task'[q] = task[q]
      BY <2>1 DEF Finish, Idle, AllInv, TypeInv, TypeOK
    <3>5. charged'[j] = 1 /\ \A k \in Jobs : k # j => charged'[k] = charged[k]
      BY <1>1, <3>2 DEF TypeInv, TypeOK
    <3>6. \A q \in Procs : Ingesting(q) => task[q].job \in Jobs
      BY <1>1 DEF ChargeInv, TypeInv, TaskOK
    <3>7. ChargeInv'
      BY <1>1, <2>1, <3>1, <3>4, <3>5, <3>6 DEF ChargeInv, Ingesting, Ended
    <3> QED BY <1>1, <3>3, <3>7 DEF Implements, Abstract!Next
  <2> QED BY <2>2, <2>3
<1> QED BY <1>3, <1>4 DEF Ingest

LEMMA SaveImplements ==
  ASSUME AllInv, NEW w \in Workers, Save(w)
  PROVE  Implements
<1>1. /\ UNCHANGED <<charged, cdrs, call, dials>> /\ w \in Procs /\ TypeInv /\ ChargeInv
      /\ task[w].pc \notin JobPCs
  BY DEF Save, ScheduleInsert, ScheduleSave, UpdateSave, At, JobPCs, env, hist, Procs, AllInv
<1>2. StaysIngesting
  <2>1. CASE Goto(w, "schSave")
    BY <1>1, <2>1, GotoIngest DEF PCs
  <2>2. CASE Finish(w)
    BY <1>1, <2>2 DEF Finish, Idle, StaysIngesting, TypeInv, TypeOK, ChargeInv, Ingesting
  <2> QED BY <2>1, <2>2 DEF Save, ScheduleInsert, ScheduleSave, UpdateSave
<1> QED BY <1>1, <1>2, QuietImplements

LEMMA AskImplements ==
  ASSUME AllInv, "deleteCampaign" \notin Requests, NEW w \in Workers, Ask(w)
  PROVE  Implements
<1>1. /\ UNCHANGED <<charged, cdrs, call, dials>> /\ w \in Procs /\ TypeInv /\ ChargeInv
      /\ task[w].pc \notin JobPCs
  BY DEF Ask, StartJob, AddLead, DeleteLead, CreateCampaign, UpdateRead, DeleteCampaign,
         ScheduleRead, Request, At, JobPCs, db, hist, Procs, AllInv
<1>2. StaysIngesting
  <2>1. CASE \E j : task' = [task EXCEPT ![w] = [pc |-> "claim", job |-> j, ret |-> "dial"]]
    BY <1>1, <2>1 DEF StaysIngesting, TypeInv, TypeOK, ChargeInv, Ingesting
  <2>2. CASE Goto(w, "schInsert") \/ Goto(w, "updSave")
    BY <1>1, <2>2, GotoIngest DEF PCs
  <2>3. CASE task' = task
    BY <1>1, <2>3 DEF StaysIngesting, ChargeInv, Ingesting
  <2> QED BY <2>1, <2>2, <2>3
          DEF Ask, StartJob, AddLead, DeleteLead, CreateCampaign, UpdateRead, DeleteCampaign,
              ScheduleRead, mem
<1> QED BY <1>1, <1>2, QuietImplements

LEMMA IngestCdrImplements ==
  ASSUME AllInv, NEW w \in Workers, NEW j \in Jobs, IngestCdr(w, j)
  PROVE  Implements
<1>1. /\ Ended(j) /\ UNCHANGED <<call, dials, charged>> /\ TypeInv /\ ChargeInv
      /\ w \in Procs
  BY DEF IngestCdr, AllInv, Procs, hist
<1>2. CASE ~Insertable(j)
  <2>1. UNCHANGED <<cdrs, task>>
    BY <1>2 DEF IngestCdr
  <2> QED BY <1>1, <2>1, QuietImplements DEF StaysIngesting, ChargeInv, Ingesting
<1>3. CASE Insertable(j)
  <2>1. PICK pc \in {"cdrJob", "mfRead"} :
          task' = [task EXCEPT ![w] = [pc |-> pc, job |-> j, ret |-> "ingest"]]
    BY <1>3 DEF IngestCdr
  <2>2. cdrs' = cdrs \cup {j} /\ j \notin cdrs
    BY <1>3 DEF IngestCdr, Insertable
  <2>3. Abstract!Accept(j)
    BY <1>1, <2>2 DEF Abstract!Accept, Ended
  <2>4. \A q \in Procs : task'[q] = IF q = w THEN [pc |-> pc, job |-> j, ret |-> "ingest"]
                                    ELSE task[q]
    BY <1>1, <2>1 DEF TypeInv, TypeOK
  <2>5. charged[j] = 0 /\ \A q \in Procs : Ingesting(q) => task[q].job # j
    BY <1>1, <2>2 DEF ChargeInv
  <2>6. ChargeInv'
    BY <1>1, <2>1, <2>2, <2>4, <2>5 DEF ChargeInv, Ingesting, Ended, JobPCs
  <2> QED BY <2>3, <2>6 DEF Implements, Abstract!Next
<1> QED BY <1>2, <1>3

LEMMA EndCallImplements ==
  ASSUME AllInv, NEW j \in Jobs, EndCall(j)
  PROVE  Implements
<1>1. /\ UNCHANGED <<task, dials, charged, cdrs>> /\ TypeInv /\ ChargeInv
      /\ call[j] = "live"
  BY DEF EndCall, AllInv, mem, db, hist
<1>2. PICK outcome \in {"answered", "unanswered"} : call' = [call EXCEPT ![j] = outcome]
  BY DEF EndCall
<1>3. Abstract!End(j)
  BY <1>1, <1>2 DEF Abstract!End
<1>4. \A k \in Jobs : call'[k] = IF k = j THEN outcome ELSE call[k]
  BY <1>1, <1>2 DEF TypeInv, TypeOK
<1>5. dials[j] # 0 /\ cdrs \subseteq Jobs
  BY <1>1 DEF ChargeInv, TypeInv, TypeOK
<1>6. ChargeInv'
  BY <1>1, <1>4, <1>5 DEF ChargeInv, Ingesting, Ended
<1> QED BY <1>3, <1>6 DEF Implements, Abstract!Next

LEMMA OtherImplements ==
  ASSUME AllInv, PassTime \/ (\E h : Crash(h)) \/ UNCHANGED vars
  PROVE  Implements
<1>1. UNCHANGED <<charged, cdrs, call, dials>> /\ TypeInv /\ ChargeInv
  BY DEF PassTime, Crash, vars, db, env, hist, AllInv
<1>2. StaysIngesting
  <2>1. CASE \E h : Crash(h)
    BY <1>1, <2>1 DEF Crash, Idle, StaysIngesting, TypeInv, TypeOK, ChargeInv, Ingesting
  <2>2. CASE task' = task
    BY <1>1, <2>2 DEF StaysIngesting, ChargeInv, Ingesting
  <2> QED BY <2>1, <2>2 DEF PassTime, vars, mem
<1> QED BY <1>1, <1>2, QuietImplements

-----------------------------------------------------------------------------
(* Only a request that ingests a CDR stands in the part of ingestCdr that  *)
(* follows markJobFailed.                                                  *)
IngestSteps == {"cdrJob", "cdrLead", "charge"}
IngestPCs == \A p \in Procs : task[p].pc \in IngestSteps => Ingesting(p)

LEMMA IngestPCsSet ==
  ASSUME TypeInv, IngestPCs, NEW p \in Procs, NEW t,
         task' = [task EXCEPT ![p] = t], t.pc \in IngestSteps => t.ret = "ingest"
  PROVE  IngestPCs'
  BY DEF IngestPCs, Ingesting, TypeInv, TypeOK

LEMMA IngestPCsGoto ==
  ASSUME TypeInv, IngestPCs, NEW p \in Procs, NEW pc, Goto(p, pc),
         pc \in IngestSteps => Ingesting(p)
  PROVE  IngestPCs'
  BY DEF IngestPCs, Ingesting, TypeInv, TypeOK, TaskRow, Goto

LEMMA IngestPCsFollows ==
  ASSUME TypeInv, IngestPCs, NEW p \in Procs, task[p].pc \in JobPCs,
         \/ Return(p) \/ Throw(p) \/ Finish(p) \/ Originated(p)
         \/ task' = [task EXCEPT ![p] = Rethrow(p)]
  PROVE  IngestPCs'
<1>1. PICK t \in TaskRow : /\ t.pc \in IngestSteps => t.ret = "ingest"
                           /\ task' = [task EXCEPT ![p] = t]
  <2>1. CASE Return(p) \/ Throw(p) \/ Originated(p)
    <3>1. PICK t \in TaskRow : Follows(p, t) /\ task' = [task EXCEPT ![p] = t]
      BY <2>1, ReturnFollows, OriginatedFollows
    <3> QED BY <3>1 DEF Follows, IngestSteps
  <2>3. CASE task' = [task EXCEPT ![p] = Rethrow(p)]
    BY <2>3, RethrowFollows DEF Follows, IngestSteps
  <2>2. CASE Finish(p)
    BY <2>2 DEF Finish, Idle, TaskRow, PCs, NoJob, IngestSteps
  <2> QED BY <2>1, <2>2, <2>3
<1> QED BY <1>1, IngestPCsSet

LEMMA IngestPCsNext == TypeInv /\ IngestPCs /\ [Next]_vars => IngestPCs'
<1> SUFFICES ASSUME TypeInv, IngestPCs, [Next]_vars PROVE IngestPCs'
  OBVIOUS
<1>1. ASSUME NEW s \in Schedulers, Schedule(s) PROVE IngestPCs'
  <2>1. CASE Goto(s, "campaign") \/ Goto(s, "slot") \/ Finish(s)
    BY <2>1, IngestPCsGoto, IngestPCsSet DEF IngestSteps, Finish, Idle, Procs
  <2> DEFINE due == UNION {Due(c, loop[s].now) : c \in loop[s].cur}
  <2> HIDE DEF due
  <2>2. CASE \E j \in First(due) :
               task' = [task EXCEPT ![s] = [pc |-> "claim", job |-> j, ret |-> "dial"]]
    BY <2>2, IngestPCsSet DEF IngestSteps, Procs
  <2> QED BY <1>1, <2>1, <2>2
          DEF Schedule, Tick, EndTick, NextCampaign, NextSlot, due
<1>2. ASSUME NEW p \in Procs, Dial(p) \/ Fail(p) PROVE IngestPCs'
  <2>1. task[p].pc \in JobPCs
    BY <1>2 DEF Dial, Claim, LeadStart, OriginateAccepted, OriginateVanishes, OriginateRefused,
         OriginateTimesOut, Sent, At, JobPCs, Fail, FailRead, FailSave, FailLead, FailRetry,
         FailRequeue
  <2>2. \/ Return(p) \/ Throw(p) \/ Originated(p) \/ task' = [task EXCEPT ![p] = Rethrow(p)]
        \/ \E pc \in {"leadStart", "originate", "mfRead", "mfSave", "mfLead", "mfRetry", "mfRequeue"} :
             Goto(p, pc)
    BY <1>2 DEF Dial, Claim, LeadStart, OriginateAccepted, OriginateVanishes, OriginateRefused,
         OriginateTimesOut, Fail, FailRead, FailSave, FailLead, FailRetry, FailRequeue
  <2> QED BY <2>1, <2>2, IngestPCsFollows, IngestPCsGoto DEF IngestSteps
<1>3. ASSUME NEW w \in Workers, Ingest(w) \/ Save(w) PROVE IngestPCs'
  <2>1. \/ Finish(w) \/ Goto(w, "schSave")
        \/ (Goto(w, "cdrLead") \/ Goto(w, "charge")) /\ task[w].pc \in IngestSteps
    BY <1>3 DEF Ingest, IngestJob, IngestLead, Charge, Save, ScheduleInsert, ScheduleSave,
         UpdateSave, At, IngestSteps
  <2> QED BY <2>1, IngestPCsGoto, IngestPCsSet DEF IngestSteps, Finish, Idle, Procs, IngestPCs
<1>4. ASSUME NEW w \in Workers, Ask(w) PROVE IngestPCs'
  <2>1. \/ \E j : task' = [task EXCEPT ![w] = [pc |-> "claim", job |-> j, ret |-> "dial"]]
        \/ Goto(w, "schInsert") \/ Goto(w, "updSave") \/ task' = task
    BY <1>4 DEF Ask, StartJob, AddLead, DeleteLead, CreateCampaign, UpdateRead, DeleteCampaign,
              ScheduleRead, mem
  <2>2. CASE task' = task
    BY <2>2 DEF IngestPCs, Ingesting
  <2> QED BY <2>1, <2>2, IngestPCsGoto, IngestPCsSet DEF IngestSteps, Procs
<1>5. ASSUME NEW w \in Workers, NEW j \in Jobs, IngestCdr(w, j) PROVE IngestPCs'
  <2>1. \/ task' = task
        \/ \E pc : task' = [task EXCEPT ![w] = [pc |-> pc, job |-> j, ret |-> "ingest"]]
    BY <1>5 DEF IngestCdr
  <2>2. CASE task' = task
    BY <2>2 DEF IngestPCs, Ingesting
  <2> QED BY <2>1, <2>2, IngestPCsSet DEF Procs
<1>6. ASSUME NEW h, Crash(h) PROVE IngestPCs'
  BY <1>6 DEF Crash, IngestPCs, Ingesting, Idle, IngestSteps
<1>7. CASE (\E j \in Jobs : EndCall(j)) \/ PassTime \/ UNCHANGED vars
  BY <1>7 DEF EndCall, PassTime, vars, mem, IngestPCs, Ingesting
<1> QED BY <1>1, <1>2, <1>3, <1>4, <1>5, <1>6, <1>7 DEF Next, Work

-----------------------------------------------------------------------------
(* The inductive invariant, and the two theorems it gives.                 *)
CallInv == AllInv /\ IngestPCs

LEMMA NextImplements ==
  ASSUME CallInv, "deleteCampaign" \notin Requests, [Next]_vars
  PROVE  Implements
<1>1. AllInv /\ \A q \in Procs : task[q].pc = "charge" => Ingesting(q)
  BY DEF CallInv, IngestPCs, IngestSteps
<1>2. ASSUME NEW p \in Procs, Work(p) PROVE Implements
  BY <1>1, <1>2, DialImplements, FailImplements, IngestImplements, SaveImplements DEF Work
<1>3. CASE PassTime \/ (\E h : Crash(h)) \/ UNCHANGED vars
  BY <1>1, <1>3, OtherImplements
<1> QED BY <1>1, <1>2, <1>3, ScheduleImplements, AskImplements, IngestCdrImplements,
           EndCallImplements DEF Next

LEMMA CallInvInit == Init => CallInv
<1>1. Init => IngestPCs
  BY DEF Init, IngestPCs, Idle, IngestSteps
<1> QED BY <1>1, TypeInit, DialInit, ChargeInit DEF CallInv, AllInv

LEMMA CallInvNext ==
  ASSUME "deleteCampaign" \notin Requests
  PROVE  CallInv /\ [Next]_vars => CallInv'
  BY TypeNext, DialNext, IngestPCsNext, NextImplements DEF CallInv, AllInv, Implements

(* While no campaign is deleted, the call of a job is charged to the       *)
(* prepaid balance at most once, however often its CDR is posted and       *)
(* wherever an instance is lost.                                           *)
THEOREM CallsChargedOnce ==
  ASSUME "deleteCampaign" \notin Requests
  PROVE  Spec => []ChargedOnce
<1>1. Init => CallInv
  BY CallInvInit
<1>2. CallInv /\ [Next]_vars => CallInv'
  BY CallInvNext
<1>3. CallInv => ChargedOnce
  BY DEF CallInv, AllInv, ChargeInv, ChargedOnce
<1> QED BY <1>1, <1>2, <1>3, PTL DEF Spec

(* While no campaign is deleted, the dialer implements CallOnce: every     *)
(* step of the schedulers, the requests and FreeSWITCH is a step of the    *)
(* abstract call, or leaves it unchanged.                                  *)
THEOREM DialerImplementsCallOnce ==
  ASSUME "deleteCampaign" \notin Requests
  PROVE  Spec => OneCallPerJob
<1>1. Init => CallInv
  BY CallInvInit
<1>2. CallInv /\ [Next]_vars => CallInv'
  BY CallInvNext
<1>3. Init => Abstract!Init
  BY DEF Init, Abstract!Init
<1>4. CallInv /\ [Next]_vars => [Abstract!Next]_(Abstract!vars)
  BY NextImplements DEF Implements
<1> QED BY <1>1, <1>2, <1>3, <1>4, PTL DEF Spec, OneCallPerJob, Abstract!Spec

-----------------------------------------------------------------------------
(* The tables AutoDialer keeps: the foreign keys between campaigns, leads   *)
(* and jobs, and the fate of deleted rows.                                  *)

(* A request about to save saves rows of the campaign it read: the leads   *)
(* scheduleJobs inserts anew belong to it, and updateCampaign writes a     *)
(* status a campaign can have.                                             *)
FormsOK ==
  \A w \in Workers :
    /\ form[w].kind = "schedule" => \A l \in form[w].leads : CampaignOf[l] = form[w].id
    /\ form[w].kind = "update" => form[w].row.st \in {"running", "paused"}

RowsInv == ForeignKeys /\ FormsOK

(* A step that leaves the campaigns alone, neither deletes nor inserts a   *)
(* lead, and has a job only where its lead is, keeps the foreign keys.     *)
LEMMA KeysKept ==
  ASSUME TypeInv, ForeignKeys, camp' = camp,
         \A l \in Leads : LeadExists(l)' <=> LeadExists(l),
         \A j \in Jobs : JobExists(j)' => LeadExists(job'[j].lead)
  PROVE  ForeignKeys'
<1>1. \A j \in Jobs : JobExists(j)' => job'[j].lead \in Leads /\ Exists(lead'[job'[j].lead])
  BY DEF LeadExists, Exists
<1>2. \A l \in Leads : Exists(lead'[l]) => Exists(camp'[CampaignOf[l]])
  BY DEF ForeignKeys, LeadExists, CampaignExists, Exists
<1> QED BY <1>1, <1>2 DEF ForeignKeys, LeadExists, CampaignExists, JobExists, Exists

LEMMA SetLeadExists ==
  ASSUME TypeInv, NEW m, NEW st \in {"pending", "in_progress", "completed", "failed"},
         SetLead(m, st)
  PROVE  \A l \in Leads : LeadExists(l)' <=> LeadExists(l)
  BY DEF TypeInv, TypeOK, SetLead, LeadExists, Exists, LeadRow

LEMMA FormsKept ==
  ASSUME FormsOK, \A w \in Workers : form'[w] = form[w] \/ form'[w] = NoForm
  PROVE  FormsOK'
<1> SUFFICES ASSUME NEW w \in Workers
    PROVE  /\ form'[w].kind = "schedule" =>
                \A l \in form'[w].leads : CampaignOf[l] = form'[w].id
           /\ form'[w].kind = "update" => form'[w].row.st \in {"running", "paused"}
  BY DEF FormsOK
<1>1. CASE form'[w] = form[w]
  BY <1>1 DEF FormsOK
<1>2. CASE form'[w] = NoForm
  BY <1>2 DEF NoForm
<1> QED BY <1>1, <1>2

LEMMA RowsInit == Init => RowsInv
<1> SUFFICES ASSUME Init PROVE RowsInv
  OBVIOUS
<1>1. \A j \in Jobs : ~JobExists(j)
  BY DEF Init, JobExists, Exists, NoRow
<1>2. \A l \in Leads : LeadExists(l) => l \in InitLeads
  BY DEF Init, LeadExists, Exists
<1>3. \A l \in InitLeads : CampaignExists(CampaignOf[l])
  BY InitAssumption DEF Init, CampaignExists, Exists
<1>4. FormsOK
  BY DEF Init, FormsOK, NoForm
<1> QED BY <1>1, <1>2, <1>3, <1>4 DEF RowsInv, ForeignKeys

-----------------------------------------------------------------------------
(* The steps that touch no row, or only the state of a lead.               *)
LEMMA RowsSame ==
  ASSUME TypeInv, RowsInv, UNCHANGED <<camp, job>>,
         \A l \in Leads : LeadExists(l)' <=> LeadExists(l),
         \A w \in Workers : form'[w] = form[w] \/ form'[w] = NoForm
  PROVE  RowsInv'
<1>1. \A j \in Jobs : JobExists(j)' => LeadExists(job'[j].lead)
  BY DEF RowsInv, ForeignKeys, JobExists
<1>2. ForeignKeys'
  BY <1>1, KeysKept DEF RowsInv
<1>3. FormsOK'
  BY FormsKept DEF RowsInv
<1> QED BY <1>2, <1>3 DEF RowsInv

LEMMA RowsDial ==
  ASSUME TypeInv, RowsInv, NEW p \in Procs, Dial(p)
  PROVE  RowsInv'
<1>1. form' = form /\ camp' = camp
  BY DEF Dial, Claim, LeadStart, OriginateAccepted, OriginateVanishes, OriginateRefused,
         OriginateTimesOut, Sent, db
<1>2. CASE Claim(p)
  <2>1. lead' = lead /\ task[p].pc \in JobPCs
    BY <1>2 DEF Claim, At, JobPCs
  <2>2. CASE job' = job
    BY <1>1, <2>1, <2>2, RowsSame DEF LeadExists
  <2>3. CASE Claimable(task[p].job) /\ job' = [job EXCEPT ![task[p].job].st = "dialing"]
    <3>1. \A k \in Jobs : /\ job'[k].lead = job[k].lead
                          /\ job'[k].st = IF k = task[p].job THEN "dialing" ELSE job[k].st
      BY <2>1, <2>3, TaskFacts, JobStatus
    <3>2. \A k \in Jobs : JobExists(k)' => JobExists(k)
      BY <2>3, <3>1 DEF JobExists, Exists, Claimable
    <3>3. \A k \in Jobs : JobExists(k)' => LeadExists(job'[k].lead)
      BY <3>1, <3>2 DEF RowsInv, ForeignKeys
    <3>4. ForeignKeys'
      BY <1>1, <2>1, <3>3, KeysKept DEF RowsInv, LeadExists
    <3> QED BY <1>1, <3>4, FormsKept DEF RowsInv
  <2> QED BY <1>2, <2>2, <2>3 DEF Claim
<1>3. CASE LeadStart(p)
  BY <1>1, <1>3, SetLeadExists, RowsSame DEF LeadStart
<1>4. CASE Sent(p)
  BY <1>1, <1>4, RowsSame DEF Sent, db, LeadExists
<1> QED BY <1>2, <1>3, <1>4
        DEF Dial, OriginateAccepted, OriginateVanishes, OriginateRefused, OriginateTimesOut

(* markJobFailed: its save inserts a deleted job anew only for a lead that *)
(* is there, and so does its insert of the retry.                          *)
LEMMA RowsFailSave ==
  ASSUME TypeInv, RowsInv, NEW p \in Procs, FailSave(p)
  PROVE  RowsInv'
<1>1. task[p].pc \in JobPCs /\ UNCHANGED <<camp, lead, form>>
  BY DEF FailSave, At, JobPCs
<1>2. CASE job' = job
  BY <1>1, <1>2, RowsSame DEF LeadExists
<1>3. CASE /\ JobExists(task[p].job) \/ LeadExists(job[task[p].job].lead)
           /\ job' = [job EXCEPT ![task[p].job].st = "failed"]
  <2>1. \A k \in Jobs : /\ job'[k].lead = job[k].lead
                        /\ job'[k].st = IF k = task[p].job THEN "failed" ELSE job[k].st
    BY <1>1, <1>3, TaskFacts, JobStatus
  <2>2. LeadExists(job[task[p].job].lead)
    BY <1>1, <1>3, TaskFacts DEF RowsInv, ForeignKeys
  <2>3. \A k \in Jobs : JobExists(k)' => LeadExists(job'[k].lead)
    BY <2>1, <2>2 DEF RowsInv, ForeignKeys, JobExists, Exists
  <2>4. ForeignKeys'
    BY <1>1, <2>3, KeysKept DEF RowsInv, LeadExists
  <2> QED BY <1>1, <2>4, FormsKept DEF RowsInv
<1> QED BY <1>2, <1>3 DEF FailSave

LEMMA RowsFailRetry ==
  ASSUME TypeInv, RowsInv, NEW p \in Procs, FailRetry(p)
  PROVE  RowsInv'
<1>1. task[p].pc \in JobPCs /\ UNCHANGED <<camp, lead, form>>
  BY DEF FailRetry, At, JobPCs
<1>2. CASE job' = job
  BY <1>1, <1>2, RowsSame DEF LeadExists
<1>3. CASE job' # job
  <2> DEFINE l == job[task[p].job].lead
  <2>1. LeadExists(l) /\ \E row : row.lead = l /\ job' = [job EXCEPT ![nextJob] = row]
    <3>1. PICK row : /\ row = NewJob(l, job[task[p].job].attempt + 1, clock + RetryDelay, task[p].job)
                     /\ job' = [job EXCEPT ![nextJob] = row]
      BY <1>3 DEF FailRetry
    <3> QED BY <1>3, <3>1 DEF FailRetry, NewJob
  <2>2. \A k \in Jobs : job'[k] = job[k] \/ job'[k].lead = l
    BY <2>1 DEF TypeInv, TypeOK
  <2>3. \A k \in Jobs : JobExists(k)' => LeadExists(job'[k].lead)
    BY <2>1, <2>2 DEF RowsInv, ForeignKeys, JobExists
  <2>4. ForeignKeys'
    BY <1>1, <2>3, KeysKept DEF RowsInv, LeadExists
  <2> QED BY <1>1, <2>4, FormsKept DEF RowsInv
<1> QED BY <1>2, <1>3

LEMMA RowsFail ==
  ASSUME TypeInv, RowsInv, NEW p \in Procs, Fail(p)
  PROVE  RowsInv'
<1>1. CASE FailRead(p)
  BY <1>1, RowsSame DEF FailRead, db, LeadExists
<1>2. CASE FailLead(p)
  BY <1>2, SetLeadExists, RowsSame DEF FailLead
<1>3. CASE FailRequeue(p)
  BY <1>3, SetLeadExists, RowsSame DEF FailRequeue
<1> QED BY <1>1, <1>2, <1>3, RowsFailSave, RowsFailRetry DEF Fail

LEMMA RowsIngest ==
  ASSUME TypeInv, RowsInv, NEW w \in Workers, Ingest(w)
  PROVE  RowsInv'
<1>1. CASE IngestJob(w)
  <2>1. task[w].pc \in JobPCs /\ UNCHANGED <<camp, lead, form>> /\ w \in Procs
    BY <1>1 DEF IngestJob, At, JobPCs, Procs
  <2>2. CASE job' = job
    BY <2>1, <2>2, RowsSame DEF LeadExists
  <2>3. CASE JobExists(task[w].job) /\ job' = [job EXCEPT ![task[w].job].st = "completed"]
    <3>1. \A k \in Jobs : /\ job'[k].lead = job[k].lead
                          /\ job'[k].st = IF k = task[w].job THEN "completed" ELSE job[k].st
      BY <2>1, <2>3, TaskFacts, JobStatus
    <3>2. \A k \in Jobs : JobExists(k)' => LeadExists(job'[k].lead)
      BY <2>3, <3>1 DEF RowsInv, ForeignKeys, JobExists, Exists
    <3>3. ForeignKeys'
      BY <2>1, <3>2, KeysKept DEF RowsInv, LeadExists
    <3> QED BY <2>1, <3>3, FormsKept DEF RowsInv
  <2> QED BY <1>1, <2>2, <2>3 DEF IngestJob
<1>2. CASE IngestLead(w)
  BY <1>2, SetLeadExists, RowsSame DEF IngestLead
<1>3. CASE Charge(w)
  BY <1>3, RowsSame DEF Charge, db, LeadExists
<1> QED BY <1>1, <1>2, <1>3 DEF Ingest

(* scheduleJobs inserts its jobs only when all the leads are there, and    *)
(* saves the leads only when their campaign is: a lead deleted in between  *)
(* comes back under a campaign that exists.                                *)
LEMMA RowsScheduleInsert ==
  ASSUME TypeInv, RowsInv, NEW w \in Workers, ScheduleInsert(w)
  PROVE  RowsInv'
<1> DEFINE ls == form[w].leads
           idOf(l) == nextJob + Rank(l, ls)
           pick(j) == CHOOSE m \in ls : idOf(m) = j
           row(j) == NewJob(pick(j), form[w].attempts[pick(j)] + 1, form[w].at, NoJob)
<1>1. UNCHANGED <<camp, lead>>
  BY DEF ScheduleInsert
<1>2. \A v \in Workers : form'[v] = form[v] \/ form'[v] = NoForm
  BY DEF ScheduleInsert, TypeInv, TypeOK
<1>3. CASE \A l \in ls : LeadExists(l)
  <2>1. job' = [j \in Jobs |-> IF \E l \in ls : idOf(l) = j THEN row(j) ELSE job[j]]
    BY <1>3 DEF ScheduleInsert
  <2>2. \A j \in Jobs : (\E l \in ls : idOf(l) = j) => pick(j) \in ls
    OBVIOUS
  <2>3. \A j \in Jobs : (\E l \in ls : idOf(l) = j) => row(j).lead \in ls
    BY <2>2 DEF NewJob
  <2> HIDE DEF idOf, row, ls
  <2>4. \A j \in Jobs : JobExists(j)' => LeadExists(job'[j].lead)
    <3> SUFFICES ASSUME NEW j \in Jobs, JobExists(j)'
        PROVE  LeadExists(job'[j].lead)
      OBVIOUS
    <3>1. CASE \E l \in ls : idOf(l) = j
      BY <1>3, <2>1, <2>3, <3>1
    <3>2. CASE ~\E l \in ls : idOf(l) = j
      <4>1. job'[j] = job[j]
        BY <2>1, <3>2
      <4> QED BY <4>1 DEF RowsInv, ForeignKeys, JobExists
    <3> QED BY <3>1, <3>2
  <2>5. ForeignKeys'
    BY <1>1, <2>4, KeysKept DEF RowsInv, LeadExists
  <2> QED BY <1>2, <2>5, FormsKept DEF RowsInv
<1>4. CASE ~\A l \in ls : LeadExists(l)
  <2>1. job' = job
    BY <1>4 DEF ScheduleInsert
  <2> QED BY <1>1, <1>2, <2>1, RowsSame DEF LeadExists
<1> QED BY <1>3, <1>4

LEMMA RowsScheduleSave ==
  ASSUME TypeInv, RowsInv, NEW w \in Workers, ScheduleSave(w)
  PROVE  RowsInv'
<1>1. /\ UNCHANGED <<camp, job>>
      /\ \A v \in Workers : form'[v] = form[v] \/ form'[v] = NoForm
  BY DEF ScheduleSave, TypeInv, TypeOK
<1>2. form[w].kind = "schedule" /\ form[w] \in FormRow /\ form[w].leads \subseteq Leads
  BY DEF TypeInv, TypeOK, TaskOK, ScheduleSave, At, Procs, FormRow
<1>3. CASE ~CampaignExists(form[w].id)
  <2>1. lead' = lead
    BY <1>3 DEF ScheduleSave
  <2> QED BY <1>1, <2>1, RowsSame DEF LeadExists
<1>4. CASE CampaignExists(form[w].id)
  <2>1. \A l \in Leads : IF l \in form[w].leads THEN lead'[l].st = "scheduled"
                                               ELSE lead'[l] = lead[l]
    BY <1>4 DEF ScheduleSave
  <2>2. \A l \in Leads : Exists(lead[l]) => Exists(lead'[l])
    BY <2>1 DEF Exists
  <2>3. \A l \in Leads : Exists(lead'[l]) => Exists(camp[CampaignOf[l]])
    <3>1. \A l \in form[w].leads : CampaignOf[l] = form[w].id
      BY <1>2 DEF RowsInv, FormsOK
    <3> QED BY <1>4, <2>1, <3>1 DEF RowsInv, ForeignKeys, LeadExists, CampaignExists
  <2>4. ForeignKeys'
    BY <1>1, <2>2, <2>3 DEF RowsInv, ForeignKeys, LeadExists, CampaignExists, JobExists
  <2> QED BY <1>1, <2>4, FormsKept DEF RowsInv
<1> QED BY <1>3, <1>4

(* updateCampaign inserts a deleted campaign anew; nothing refers to it.   *)
LEMMA RowsUpdateSave ==
  ASSUME TypeInv, RowsInv, NEW w \in Workers, UpdateSave(w)
  PROVE  RowsInv'
<1>1. /\ UNCHANGED <<lead, job>>
      /\ camp' = [camp EXCEPT ![form[w].id] = form[w].row]
      /\ \A v \in Workers : form'[v] = form[v] \/ form'[v] = NoForm
  BY DEF UpdateSave, TypeInv, TypeOK
<1>2. form[w].row.st \in {"running", "paused"}
  BY DEF TypeInv, TaskOK, UpdateSave, At, Procs, RowsInv, FormsOK
<1>3. \A c \in Campaigns : Exists(camp[c]) => Exists(camp'[c])
  BY <1>1, <1>2 DEF Exists, TypeInv, TypeOK
<1>4. \A l \in Leads : CampaignOf[l] \in Campaigns
  BY LeadsAssumption
<1>5. ForeignKeys'
  BY <1>1, <1>3, <1>4 DEF RowsInv, ForeignKeys, LeadExists, CampaignExists, JobExists
<1> QED BY <1>1, <1>5, FormsKept DEF RowsInv

-----------------------------------------------------------------------------
(* Administrative requests.  A delete takes the rows that refer to the     *)
(* deleted one with it.                                                    *)
LEMMA WithoutKeys ==
  ASSUME TypeInv, ForeignKeys, NEW ls \in SUBSET Leads, Without(ls)
  PROVE  /\ \A l \in Leads : LeadExists(l)' => LeadExists(l) /\ l \notin ls
         /\ \A j \in Jobs : JobExists(j)' =>
              job[j].lead \in Leads /\ Exists(lead'[job[j].lead])
         /\ \A j \in Jobs : job'[j].lead = job[j].lead
<1>1. \A l \in Leads : /\ l \in ls => lead'[l].st = "gone"
                       /\ l \notin ls => lead'[l] = lead[l]
  BY DEF Without, TypeInv, TypeOK, LeadRow
<1>2. \A j \in Jobs :
        /\ job'[j].lead = job[j].lead
        /\ JobExists(j) /\ job[j].lead \in ls => job'[j].st = "gone"
        /\ ~(JobExists(j) /\ job[j].lead \in ls) => job'[j] = job[j]
  BY DEF Without, TypeInv, TypeOK, JobRow
<1>3. \A l \in Leads : LeadExists(l)' => LeadExists(l) /\ l \notin ls
  BY <1>1 DEF LeadExists, Exists
<1>4. \A j \in Jobs : JobExists(j)' => JobExists(j) /\ job[j].lead \notin ls
  BY <1>2 DEF JobExists, Exists
<1>5. \A j \in Jobs : JobExists(j)' => Exists(lead'[job[j].lead]) /\ job[j].lead \in Leads
  BY <1>1, <1>4 DEF ForeignKeys, LeadExists
<1> QED BY <1>2, <1>3, <1>5

LEMMA RowsDelete ==
  ASSUME TypeInv, RowsInv, NEW w \in Workers,
         \/ \E l \in Leads : DeleteLead(w, l)
         \/ \E c \in Campaigns : DeleteCampaign(w, c)
  PROVE  RowsInv'
<1>1. FormsOK'
  BY FormsKept DEF DeleteLead, DeleteCampaign, mem, RowsInv
<1>2. PICK ls \in SUBSET Leads :
        /\ Without(ls)
        /\ \/ camp' = camp
           \/ \E c \in Campaigns : ls = LeadsOf(c) /\ camp' = [camp EXCEPT ![c].st = "gone"]
  BY DEF DeleteLead, DeleteCampaign, LeadsOf
<1>3. /\ \A l \in Leads : LeadExists(l)' => LeadExists(l) /\ l \notin ls
      /\ \A j \in Jobs : JobExists(j)' =>
           job[j].lead \in Leads /\ Exists(lead'[job[j].lead])
      /\ \A j \in Jobs : job'[j].lead = job[j].lead
  BY <1>2, WithoutKeys DEF RowsInv
<1>4. \A l \in Leads : LeadExists(l)' => CampaignExists(CampaignOf[l])'
  <2> SUFFICES ASSUME NEW l \in Leads, LeadExists(l)'
      PROVE  CampaignExists(CampaignOf[l])'
    OBVIOUS
  <2>1. LeadExists(l) /\ l \notin ls /\ CampaignExists(CampaignOf[l]) /\ CampaignOf[l] \in Campaigns
    BY <1>3, LeadsAssumption DEF RowsInv, ForeignKeys
  <2>2. camp'[CampaignOf[l]] = camp[CampaignOf[l]]
    BY <1>2, <2>1 DEF LeadsOf, TypeInv, TypeOK
  <2> QED BY <2>1, <2>2 DEF CampaignExists
<1>5. \A j \in Jobs : JobExists(j)' => job'[j].lead \in Leads /\ Exists(lead'[job'[j].lead])
  BY <1>3
<1> QED BY <1>1, <1>4, <1>5 DEF RowsInv, ForeignKeys, LeadExists

LEMMA RowsCreate ==
  ASSUME TypeInv, RowsInv, NEW w \in Workers,
         \/ \E l \in Leads : AddLead(w, l)
         \/ \E c \in Campaigns : CreateCampaign(w, c)
  PROVE  RowsInv'
<1>1. FormsOK'
  BY FormsKept DEF AddLead, CreateCampaign, mem, RowsInv
<1>2. CASE \E l \in Leads : AddLead(w, l)
  <2>1. PICK l \in Leads : AddLead(w, l)
    BY <1>2
  <2>2. /\ UNCHANGED <<camp, job>> /\ CampaignExists(CampaignOf[l])
        /\ \A m \in Leads : /\ m # l => lead'[m] = lead[m]
                            /\ lead'[l].st = "pending"
    BY <2>1 DEF AddLead, TypeInv, TypeOK, LeadRow
  <2>3. \A m \in Leads : Exists(lead[m]) => Exists(lead'[m])
    BY <2>2 DEF Exists
  <2>4. \A m \in Leads : Exists(lead'[m]) => Exists(camp[CampaignOf[m]])
    BY <2>2 DEF RowsInv, ForeignKeys, LeadExists, CampaignExists
  <2> QED BY <1>1, <2>2, <2>3, <2>4
          DEF RowsInv, ForeignKeys, LeadExists, CampaignExists, JobExists
<1>3. CASE \E c \in Campaigns : CreateCampaign(w, c)
  <2>1. PICK c \in Campaigns : CreateCampaign(w, c)
    BY <1>3
  <2>2. UNCHANGED <<lead, job>> /\ \A d \in Campaigns : Exists(camp[d]) => Exists(camp'[d])
    BY <2>1 DEF CreateCampaign, Exists, TypeInv, TypeOK
  <2>3. \A m \in Leads : CampaignOf[m] \in Campaigns
    BY LeadsAssumption
  <2> QED BY <1>1, <2>2, <2>3
          DEF RowsInv, ForeignKeys, LeadExists, CampaignExists, JobExists
<1> QED BY <1>2, <1>3

LEMMA RowsRead ==
  ASSUME TypeInv, RowsInv, NEW w \in Workers,
         \/ \E c \in Campaigns : UpdateRead(w, c)
         \/ \E c \in Campaigns, at \in Times : ScheduleRead(w, c, at)
  PROVE  RowsInv'
<1>1. UNCHANGED <<camp, lead, job>>
  BY DEF UpdateRead, ScheduleRead, db
<1>2. ForeignKeys'
  BY <1>1 DEF RowsInv, ForeignKeys, LeadExists, CampaignExists, JobExists
<1>3. FormsOK'
  <2>1. CASE \E c \in Campaigns : UpdateRead(w, c)
    <3>1. PICK c \in Campaigns : UpdateRead(w, c)
      BY <2>1
    <3>2. PICK st \in {"running", "paused"}, limit \in Limits \cup {camp[c].limit} :
            form' = [form EXCEPT ![w] =
              [kind |-> "update", id |-> c, row |-> [st |-> st, limit |-> limit]]]
      BY <3>1 DEF UpdateRead
    <3> QED BY <3>2 DEF RowsInv, FormsOK, TypeInv, TypeOK
  <2>2. CASE \E c \in Campaigns, at \in Times : ScheduleRead(w, c, at)
    <3>1. PICK c \in Campaigns, at \in Times :
            form' = [form EXCEPT ![w] =
              [kind |-> "schedule", id |-> c, at |-> at, leads |-> Open(c),
               attempts |-> [l \in Leads |-> lead[l].attempts]]]
      BY <2>2 DEF ScheduleRead
    <3>2. \A l \in Open(c) : CampaignOf[l] = c
      BY DEF Open, LeadsOf
    <3> QED BY <3>1, <3>2 DEF RowsInv, FormsOK, TypeInv, TypeOK
  <2> QED BY <2>1, <2>2
<1> QED BY <1>2, <1>3 DEF RowsInv

LEMMA RowsNext == TypeInv /\ RowsInv /\ [Next]_vars => RowsInv'
<1> SUFFICES ASSUME TypeInv, RowsInv, [Next]_vars PROVE RowsInv'
  OBVIOUS
<1>1. ASSUME NEW p \in Procs, Work(p) PROVE RowsInv'
  BY <1>1, RowsDial, RowsFail, RowsIngest, RowsScheduleInsert, RowsScheduleSave, RowsUpdateSave
  DEF Work, Save
<1>2. ASSUME NEW w \in Workers, Ask(w) PROVE RowsInv'
  <2>1. ASSUME NEW j \in Jobs, StartJob(w, j) PROVE RowsInv'
    BY <2>1, RowsSame DEF StartJob, db, LeadExists
  <2> QED BY <1>2, <2>1, RowsDelete, RowsCreate, RowsRead DEF Ask
<1>3. ASSUME NEW s \in Schedulers, Schedule(s) PROVE RowsInv'
  BY <1>3, RowsSame DEF Schedule, Tick, EndTick, NextCampaign, NextSlot, db, LeadExists
<1>4. ASSUME NEW w \in Workers, NEW j \in Jobs, IngestCdr(w, j) PROVE RowsInv'
  BY <1>4, RowsSame DEF IngestCdr, LeadExists
<1>5. ASSUME NEW h, Crash(h) PROVE RowsInv'
  BY <1>5, RowsSame DEF Crash, db, LeadExists
<1>6. CASE (\E j \in Jobs : EndCall(j)) \/ PassTime \/ UNCHANGED vars
  BY <1>6, RowsSame DEF EndCall, PassTime, vars, db, mem, LeadExists
<1> QED BY <1>1, <1>2, <1>3, <1>4, <1>5, <1>6 DEF Next

(* The foreign keys hold in every state: whatever stale entity is saved    *)
(* after whatever delete, a job has its lead and a lead its campaign.      *)
THEOREM RowsKeepTheirKeys == Spec => []ForeignKeys
<1>1. Init => TypeInv /\ RowsInv
  BY TypeInit, RowsInit
<1>2. TypeInv /\ RowsInv /\ [Next]_vars => (TypeInv /\ RowsInv)'
  BY TypeNext, RowsNext
<1>3. RowsInv => ForeignKeys
  BY DEF RowsInv
<1> QED BY <1>1, <1>2, <1>3, PTL DEF Spec

-----------------------------------------------------------------------------
(* What one step of the system can do to a job, and which step does it.    *)
(* A job is created pending, and only once; its lead, attempt and parent   *)
(* never change; only the claim makes it dialling; a deleted one is        *)
(* written again by nothing but the save of markJobFailed.                 *)
DeletesAsked == "deleteLead" \in Requests \/ "deleteCampaign" \in Requests

JobFate(j) ==
  \/ job'[j] = job[j]
  \/ /\ job[j].st = "none" /\ j >= nextJob
     /\ job'[j].st = "pending"
     /\ \/ job'[j].parent = NoJob
        \/ \E p \in Procs : FailRetry(p) /\ job'[j].parent = task[p].job
  \/ /\ job[j].st # "none"
     /\ job'[j].lead = job[j].lead
     /\ job'[j].attempt = job[j].attempt
     /\ job'[j].parent = job[j].parent
     /\ \/ job'[j].st = "failed" /\ \E p \in Procs : FailSave(p) /\ task[p].job = j
        \/ job'[j].st = "completed" /\ job[j].st # "gone"
        \/ job'[j].st = "gone" /\ job[j].st # "gone" /\ DeletesAsked
        \/ /\ job'[j].st = "dialing" /\ job[j].st = "pending"
           /\ \E p \in Procs : Claim(p) /\ task[p].job = j

LEMMA FateSet ==
  ASSUME TypeInv, NEW p \in Procs, NEW st \in {"dialing", "completed", "failed"},
         task[p].job \in Jobs, job[task[p].job].st # "none",
         st = "dialing" => Claim(p) /\ job[task[p].job].st = "pending",
         st = "completed" => job[task[p].job].st # "gone",
         st = "failed" => FailSave(p),
         job' = [job EXCEPT ![task[p].job].st = st]
  PROVE  \A k \in Jobs : JobFate(k)
<1>1. \A k \in Jobs : k # task[p].job => job'[k] = job[k]
  BY DEF TypeInv, TypeOK
<1>2. job'[task[p].job] = [job[task[p].job] EXCEPT !.st = st] /\ job[task[p].job] \in JobRow
  BY DEF TypeInv, TypeOK
<1>3. /\ job'[task[p].job].st = st
      /\ job'[task[p].job].lead = job[task[p].job].lead
      /\ job'[task[p].job].attempt = job[task[p].job].attempt
      /\ job'[task[p].job].parent = job[task[p].job].parent
  BY <1>2 DEF JobRow
<1>4. JobFate(task[p].job)
  BY <1>3 DEF JobFate
<1>5. \A k \in Jobs : k # task[p].job => JobFate(k)
  BY <1>1 DEF JobFate
<1> QED BY <1>4, <1>5

LEMMA FateWork ==
  ASSUME TypeInv, NEW p \in Procs, Dial(p) \/ Fail(p) \/ Ingest(p)
  PROVE  \A j \in Jobs : JobFate(j)
<1>1. CASE job' = job
  BY <1>1 DEF JobFate
<1>2. CASE Claim(p) /\ job' # job
  <2>1. /\ task[p].job \in Jobs
        /\ job[task[p].job].st = "pending"
        /\ job' = [job EXCEPT ![task[p].job].st = "dialing"]
    BY <1>2, TaskFacts DEF Claim, Claimable, At, JobPCs
  <2> QED BY <1>2, <2>1, FateSet
<1>3. CASE FailSave(p) /\ job' # job
  <2>1. task[p].job \in Jobs /\ job[task[p].job].st # "none"
    BY <1>3, TaskFacts DEF FailSave, At, JobPCs
  <2>2. job' = [job EXCEPT ![task[p].job].st = "failed"]
    BY <1>3 DEF FailSave
  <2> QED BY <1>3, <2>1, <2>2, FateSet
<1>4. CASE FailRetry(p) /\ job' # job
  <2>1. PICK row : /\ row.st = "pending" /\ row.parent = task[p].job
                   /\ job' = [job EXCEPT ![nextJob] = row]
    <3>1. job' = [job EXCEPT ![nextJob] =
                    NewJob(job[task[p].job].lead, job[task[p].job].attempt + 1,
                           clock + RetryDelay, task[p].job)]
      BY <1>4 DEF FailRetry
    <3> QED BY <3>1 DEF NewJob
  <2>2. nextJob \in Jobs => job[nextJob].st = "none" /\ nextJob >= nextJob
    BY BoundsAssumption DEF TypeInv, JobsOK, Jobs
  <2>3. \A k \in Jobs : \/ job'[k] = job[k]
                        \/ /\ k = nextJob /\ job'[k].st = "pending"
                           /\ job'[k].parent = task[p].job
    BY <2>1 DEF TypeInv, TypeOK
  <2> QED BY <1>4, <2>2, <2>3 DEF JobFate
<1>5. CASE IngestJob(p) /\ job' # job
  <2>1. task[p].job \in Jobs
    BY <1>5, TaskFacts DEF IngestJob, At, JobPCs
  <2>2. JobExists(task[p].job) /\ job' = [job EXCEPT ![task[p].job].st = "completed"]
    BY <1>5 DEF IngestJob
  <2> QED BY <2>1, <2>2, FateSet DEF JobExists, Exists
<1> QED BY <1>1, <1>2, <1>3, <1>4, <1>5
        DEF Dial, LeadStart, OriginateAccepted, OriginateVanishes, OriginateRefused,
            OriginateTimesOut, Sent, Fail, FailRead, FailLead, FailRequeue,
            Ingest, IngestLead, Charge, db

LEMMA FateSave ==
  ASSUME TypeInv, NEW w \in Workers, Save(w)
  PROVE  /\ \A j \in Jobs : JobFate(j)
         /\ \A j \in Jobs : job'[j] # job[j] => job'[j].parent = NoJob
<1>1. CASE job' = job
  BY <1>1 DEF JobFate
<1>2. CASE ScheduleInsert(w) /\ job' # job
  <2> DEFINE ls == form[w].leads
             idOf(l) == nextJob + Rank(l, ls)
             pick(j) == CHOOSE m \in ls : idOf(m) = j
             row(j) == NewJob(pick(j), form[w].attempts[pick(j)] + 1, form[w].at, NoJob)
  <2>1. ls \subseteq Leads /\ nextJob \in Nat
    BY <1>2, BoundsAssumption
    DEF ScheduleInsert, At, TypeInv, TypeOK, TaskOK, Procs, FormRow
  <2>2. \A l \in ls : Rank(l, ls) \in Nat
    BY <2>1, LeadsAssumption, FS_Subset, RankBound
  <2>3. \A l \in ls : idOf(l) \in Nat /\ idOf(l) >= nextJob
    BY <2>1, <2>2
  <2>4. job' = [j \in Jobs |-> IF \E l \in ls : idOf(l) = j THEN row(j) ELSE job[j]]
    BY <1>2 DEF ScheduleInsert
  <2>5. \A j : row(j).st = "pending" /\ row(j).parent = NoJob
    BY DEF NewJob
  <2> HIDE DEF idOf, ls, row
  <2>6. \A j \in Jobs : (\E l \in ls : idOf(l) = j) => job[j].st = "none" /\ j >= nextJob
    BY <2>3 DEF TypeInv, JobsOK
  <2>7. \A j \in Jobs : \/ job'[j] = job[j]
                        \/ /\ job'[j].st = "pending" /\ job'[j].parent = NoJob
                           /\ job[j].st = "none" /\ j >= nextJob
    BY <2>4, <2>5, <2>6
  <2> QED BY <2>7 DEF JobFate
<1> QED BY <1>1, <1>2 DEF Save, ScheduleSave, UpdateSave

LEMMA FateWithout ==
  ASSUME TypeInv, NEW ls \in SUBSET Leads, Without(ls), DeletesAsked
  PROVE  \A j \in Jobs : JobFate(j) /\ job'[j].parent = job[j].parent
<1> SUFFICES ASSUME NEW j \in Jobs PROVE JobFate(j) /\ job'[j].parent = job[j].parent
  OBVIOUS
<1>1. CASE JobExists(j) /\ job[j].lead \in ls
  <2>1. job'[j] = [job[j] EXCEPT !.st = "gone"] /\ job[j] \in JobRow
    BY <1>1 DEF Without, TypeInv, TypeOK
  <2>2. /\ job'[j].st = "gone"
        /\ job'[j].lead = job[j].lead
        /\ job'[j].attempt = job[j].attempt
        /\ job'[j].parent = job[j].parent
    BY <2>1 DEF JobRow
  <2> QED BY <1>1, <2>2 DEF JobFate, JobExists, Exists
<1>2. CASE ~(JobExists(j) /\ job[j].lead \in ls)
  <2>1. job'[j] = job[j]
    BY <1>2 DEF Without
  <2> QED BY <2>1 DEF JobFate
<1> QED BY <1>1, <1>2

LEMMA FateNext == TypeInv /\ [Next]_vars => \A j \in Jobs : JobFate(j)
<1> SUFFICES ASSUME TypeInv, [Next]_vars PROVE \A j \in Jobs : JobFate(j)
  OBVIOUS
<1>1. CASE job' = job
  BY <1>1 DEF JobFate
<1>2. ASSUME NEW w \in Workers, Ask(w), job' # job PROVE \A j \in Jobs : JobFate(j)
  <2>1. PICK ls \in SUBSET Leads : Without(ls) /\ DeletesAsked
    <3>1. \A c : LeadsOf(c) \in SUBSET Leads
      BY DEF LeadsOf
    <3> QED BY <1>2, <3>1
            DEF Ask, StartJob, AddLead, DeleteLead, CreateCampaign, UpdateRead, DeleteCampaign,
                ScheduleRead, db, Request, DeletesAsked
  <2> QED BY <2>1, FateWithout
<1>3. ASSUME NEW p \in Procs, Work(p) PROVE \A j \in Jobs : JobFate(j)
  BY <1>3, FateWork, FateSave DEF Work
<1> QED BY <1>1, <1>2, <1>3
        DEF Next, Schedule, Tick, EndTick, NextCampaign, NextSlot, IngestCdr, EndCall, Crash,
            PassTime, vars, db

(* Nothing that was deleted is dialled anew: a stale save can bring a      *)
(* deleted job back, but only as a failed one.                             *)
THEOREM DeletedStayDeleted == Spec => DeletedNotRequeued
<1>1. Init => TypeInv
  BY TypeInit
<1>2. TypeInv /\ [Next]_vars => TypeInv'
  BY TypeNext
<1>3. TypeInv /\ [Next]_vars =>
        [\A j \in Jobs : job[j].st = "gone" => job'[j].st \in {"gone", "failed"}]_vars
  BY FateNext DEF JobFate
<1> QED BY <1>1, <1>2, <1>3, PTL DEF Spec, DeletedNotRequeued

-----------------------------------------------------------------------------
(* The jobs that occupy the slots of a campaign: how many of them there can  *)
(* be, that each is settled by somebody, and that a retry is made when it is *)
(* owed and not for a call that was answered.                                *)

(* How a step of a process leaves its task.                                *)
LEMMA GotoMoves ==
  ASSUME TypeInv, NEW p \in Procs, NEW pc, Goto(p, pc)
  PROVE  \A q \in Procs : /\ task'[q].job = task[q].job
                          /\ task'[q].ret = task[q].ret
                          /\ task'[q].pc = IF q = p THEN pc ELSE task[q].pc
  BY DEF TypeInv, TypeOK, TaskRow, Goto

LEMMA JobLeft ==
  ASSUME TypeInv, NEW p \in Procs, task[p].pc \in JobPCs,
         \/ Return(p) \/ Throw(p) \/ Originated(p) \/ Finish(p)
         \/ task' = [task EXCEPT ![p] = Rethrow(p)]
  PROVE  /\ \A q \in Procs : q # p => task'[q] = task[q]
         /\ task'[p].pc \in {"idle", "campaign", "slot", "mfRead", "charge"}
         /\ task'[p].pc \in {"mfRead", "charge"} => task'[p].job = task[p].job
         /\ task'[p].pc = "mfRead" => task'[p].ret = "slot" /\ p \in Schedulers
         /\ task'[p].pc = "charge" => task'[p].ret = "ingest" /\ task[p].ret = "ingest"
<1>1. PICK t \in TaskRow : Follows(p, t) /\ task' = [task EXCEPT ![p] = t]
  <2>1. Follows(p, Idle) /\ Idle \in TaskRow
    BY DEF Follows, Idle, TaskRow, PCs, JobPCs, NoJob
  <2>2. Follows(p, Rethrow(p)) /\ Rethrow(p) \in TaskRow
    BY RethrowFollows DEF Follows
  <2> QED BY <2>1, <2>2, ReturnFollows, OriginatedFollows DEF Finish
<1> QED BY <1>1 DEF Follows, TypeInv, TypeOK

-----------------------------------------------------------------------------
(* The calls.  A call starts with the originate command of its job, and a  *)
(* CDR is only accepted for a call that ended.                             *)
CallsOK ==
  /\ \A j \in Jobs : dials[j] = 0 => call[j] = "none"
  /\ \A j \in cdrs : Ended(j)

BaseInv == TypeInv /\ DialInv /\ CallsOK

LEMMA CallsInit == Init => CallsOK
  BY DEF Init, CallsOK

LEMMA CallsSame ==
  ASSUME CallsOK, UNCHANGED <<dials, call>>, cdrs' \subseteq cdrs
  PROVE  CallsOK'
  BY DEF CallsOK, Ended

LEMMA SentCalls ==
  ASSUME BaseInv, NEW p \in Procs, Sent(p), CallStarts(task[p].job) \/ UNCHANGED call
  PROVE  /\ task[p].job \in Jobs /\ call[task[p].job] = "none"
         /\ call'[task[p].job] \in {"none", "live"}
         /\ \A j \in Jobs : j # task[p].job => call'[j] = call[j]
         /\ CallsOK'
<1> DEFINE j == task[p].job
<1>1. TypeInv /\ DialInv /\ CallsOK
  BY DEF BaseInv
<1>2. /\ j \in Jobs /\ task[p].pc = "originate"
      /\ dials' = [dials EXCEPT ![j] = @ + 1]
      /\ UNCHANGED cdrs
  BY <1>1, SentType DEF Sent, At, db
<1>3. dials[j] = 0 /\ call[j] = "none"
  BY <1>1, <1>2 DEF DialInv, Dialling, CallsOK
<1>4. dials'[j] = 1 /\ \A k \in Jobs : k # j => dials'[k] = dials[k]
  BY <1>1, <1>2, <1>3 DEF TypeInv, TypeOK
<1>5. call'[j] \in {"none", "live"} /\ \A k \in Jobs : k # j => call'[k] = call[k]
  BY <1>1, <1>2, <1>3 DEF CallStarts, TypeInv, TypeOK
<1>6. j \notin cdrs /\ cdrs \subseteq Jobs
  BY <1>1, <1>3 DEF CallsOK, Ended, TypeInv, TypeOK
<1>7. CallsOK'
  BY <1>1, <1>2, <1>4, <1>5, <1>6 DEF CallsOK, Ended
<1> QED BY <1>2, <1>3, <1>5, <1>7

LEMMA CallsNext == BaseInv /\ [Next]_vars => CallsOK'
<1> SUFFICES ASSUME BaseInv, [Next]_vars PROVE CallsOK'
  OBVIOUS
<1>1. CallsOK /\ TypeInv
  BY DEF BaseInv
<1>2. CASE UNCHANGED <<dials, call>> /\ cdrs' \subseteq cdrs
  BY <1>1, <1>2, CallsSame
<1>3. ASSUME NEW p \in Procs, Dial(p) PROVE CallsOK'
  <2>1. CASE Claim(p) \/ LeadStart(p)
    BY <1>2, <2>1 DEF Claim, LeadStart, env, hist
  <2>2. CASE Sent(p) /\ (CallStarts(task[p].job) \/ UNCHANGED call)
    BY <2>2, SentCalls
  <2> QED BY <1>3, <2>1, <2>2
          DEF Dial, OriginateAccepted, OriginateVanishes, OriginateRefused, OriginateTimesOut
<1>4. ASSUME NEW w \in Workers, NEW j \in Jobs, IngestCdr(w, j) PROVE CallsOK'
  <2>1. /\ UNCHANGED <<dials, call>> /\ Ended(j)
        /\ cdrs' \subseteq cdrs \cup {j}
    BY <1>4 DEF IngestCdr, hist
  <2> QED BY <1>1, <2>1 DEF CallsOK, Ended
<1>5. ASSUME NEW j \in Jobs, EndCall(j) PROVE CallsOK'
  <2>1. PICK outcome \in {"answered", "unanswered"} : call' = [call EXCEPT ![j] = outcome]
    BY <1>5 DEF EndCall
  <2>2. \A k \in Jobs : call'[k] = IF k = j THEN outcome ELSE call[k]
    BY <1>1, <2>1 DEF TypeInv, TypeOK
  <2>3. call[j] = "live" /\ UNCHANGED <<dials, cdrs>> /\ cdrs \subseteq Jobs
    BY <1>1, <1>5 DEF EndCall, db, hist, TypeInv, TypeOK
  <2> QED BY <1>1, <2>2, <2>3 DEF CallsOK, Ended
<1>6. ASSUME NEW w \in Workers, Ask(w) PROVE CallsOK'
  <2>1. UNCHANGED <<dials, call>> /\ cdrs' \subseteq cdrs
    BY <1>6 DEF Ask, StartJob, AddLead, DeleteLead, CreateCampaign, UpdateRead, DeleteCampaign,
                ScheduleRead, hist, db
  <2> QED BY <1>2, <2>1
<1>7. ASSUME NEW p \in Procs, Fail(p) \/ Ingest(p) \/ Save(p) PROVE CallsOK'
  <2>1. UNCHANGED <<dials, call>> /\ cdrs' \subseteq cdrs
    BY <1>7 DEF Fail, FailRead, FailSave, FailLead, FailRetry, FailRequeue, Ingest, IngestJob,
                IngestLead, Charge, Save, ScheduleInsert, ScheduleSave, UpdateSave, hist, db, env
  <2> QED BY <1>2, <2>1
<1>8. CASE (\E s \in Schedulers : Schedule(s)) \/ (\E h : Crash(h)) \/ PassTime \/ UNCHANGED vars
  <2>1. UNCHANGED <<dials, call>> /\ cdrs' \subseteq cdrs
    BY <1>8 DEF Schedule, Tick, EndTick, NextCampaign, NextSlot, Crash, PassTime, vars, db, env,
                hist
  <2> QED BY <1>2, <2>1
<1> QED BY <1>3, <1>4, <1>5, <1>6, <1>7, <1>8 DEF Next, Work

LEMMA BaseInit == Init => BaseInv
  BY TypeInit, DialInit, CallsInit DEF BaseInv

LEMMA BaseNext == BaseInv /\ [Next]_vars => BaseInv'
  BY TypeNext, DialNext, CallsNext DEF BaseInv

-----------------------------------------------------------------------------
(* Requests that are never made have no process.                           *)
WorkersBarred ==
  \A w \in Workers :
    /\ task[w].pc \in {"claim", "leadStart", "originate"} => "start" \in Requests
    /\ task[w].pc = "updSave" => "update" \in Requests

LEMMA BarredInit == Init => WorkersBarred
  BY DEF Init, WorkersBarred, Idle, Procs

(* A step that moves one process.                                          *)
LEMMA BarredMove ==
  ASSUME TypeInv, WorkersBarred, NEW p \in Procs,
         \A q \in Procs : q # p => task'[q].pc = task[q].pc,
         task'[p].pc \in {"claim", "leadStart", "originate"} =>
           \/ p \notin Workers \/ "start" \in Requests
           \/ task[p].pc \in {"claim", "leadStart", "originate"},
         task'[p].pc = "updSave" => "update" \in Requests
  PROVE  WorkersBarred'
<1> SUFFICES ASSUME NEW w \in Workers
    PROVE  /\ task'[w].pc \in {"claim", "leadStart", "originate"} => "start" \in Requests
           /\ task'[w].pc = "updSave" => "update" \in Requests
  BY DEF WorkersBarred
<1>1. CASE w = p
  BY <1>1 DEF WorkersBarred
<1>2. CASE w # p
  BY <1>2 DEF WorkersBarred, Procs
<1> QED BY <1>1, <1>2

LEMMA BarredNext == TypeInv /\ WorkersBarred /\ [Next]_vars => WorkersBarred'
<1> SUFFICES ASSUME TypeInv, WorkersBarred, [Next]_vars PROVE WorkersBarred'
  OBVIOUS
<1>1. CASE task' = task
  BY <1>1 DEF WorkersBarred
<1>2. ASSUME NEW s \in Schedulers, Schedule(s) PROVE WorkersBarred'
  <2>1. \A w \in Workers : w # s
    BY ProcsAssumption
  <2>2. \A q \in Procs : q # s => task'[q] = task[q]
    <3>1. \E t : task' = [task EXCEPT ![s] = t]
      BY <1>2 DEF Schedule, Tick, EndTick, NextCampaign, NextSlot, Goto, Finish
    <3> QED BY <3>1 DEF TypeInv, TypeOK
  <2> QED BY <2>1, <2>2 DEF WorkersBarred, Procs
<1>3. ASSUME NEW p \in Procs, Dial(p) \/ Fail(p) \/ Ingest(p) PROVE WorkersBarred'
  <2>1. task[p].pc \in JobPCs
    BY <1>3 DEF Dial, Claim, LeadStart, OriginateAccepted, OriginateVanishes, OriginateRefused,
         OriginateTimesOut, Sent, At, JobPCs, Fail, FailRead, FailSave, FailLead, FailRetry,
         FailRequeue, Ingest, IngestJob, IngestLead, Charge
  <2>2. \/ Return(p) \/ Throw(p) \/ Originated(p) \/ Finish(p)
        \/ task' = [task EXCEPT ![p] = Rethrow(p)]
        \/ \E pc \in {"mfRead", "mfSave", "mfLead", "mfRetry", "mfRequeue", "cdrLead", "charge"} :
             Goto(p, pc)
        \/ task[p].pc \in {"claim", "leadStart"} /\ (Goto(p, "leadStart") \/ Goto(p, "originate"))
    BY <1>3 DEF Dial, Claim, LeadStart, OriginateAccepted, OriginateVanishes, OriginateRefused,
         OriginateTimesOut, Fail, FailRead, FailSave, FailLead, FailRetry, FailRequeue,
         Ingest, IngestJob, IngestLead, Charge, At
  <2>3. CASE \/ Return(p) \/ Throw(p) \/ Originated(p) \/ Finish(p)
             \/ task' = [task EXCEPT ![p] = Rethrow(p)]
    <3>1. /\ \A q \in Procs : q # p => task'[q] = task[q]
          /\ task'[p].pc \in {"idle", "campaign", "slot", "mfRead", "charge"}
      BY <2>1, <2>3, JobLeft
    <3> QED BY <3>1, BarredMove
  <2>4. CASE \E pc \in {"mfRead", "mfSave", "mfLead", "mfRetry", "mfRequeue", "cdrLead", "charge"} :
               Goto(p, pc)
    <3>1. /\ \A q \in Procs : q # p => task'[q].pc = task[q].pc
          /\ task'[p].pc \notin {"claim", "leadStart", "originate", "updSave"}
      BY <2>4, GotoMoves
    <3> QED BY <3>1, BarredMove
  <2>5. CASE task[p].pc \in {"claim", "leadStart"} /\ (Goto(p, "leadStart") \/ Goto(p, "originate"))
    <3>1. /\ \A q \in Procs : q # p => task'[q].pc = task[q].pc
          /\ task'[p].pc \in {"leadStart", "originate"}
      BY <2>5, GotoMoves
    <3> QED BY <2>5, <3>1, BarredMove
  <2> QED BY <2>2, <2>3, <2>4, <2>5
<1>4. ASSUME NEW w \in Workers, Save(w) PROVE WorkersBarred'
  <2>1. Finish(w) \/ Goto(w, "schSave")
    BY <1>4 DEF Save, ScheduleInsert, ScheduleSave, UpdateSave
  <2>2. /\ \A q \in Procs : q # w => task'[q].pc = task[q].pc
        /\ task'[w].pc \in {"idle", "schSave"}
    BY <2>1, GotoMoves DEF Finish, Idle, Procs, TypeInv, TypeOK
  <2> QED BY <2>2, BarredMove DEF Procs
<1>5. ASSUME NEW w \in Workers, Ask(w), task' # task PROVE WorkersBarred'
  <2>1. \/ /\ "start" \in Requests
           /\ \E j \in Jobs : task' = [task EXCEPT ![w] = [pc |-> "claim", job |-> j, ret |-> "dial"]]
        \/ Goto(w, "schInsert")
        \/ "update" \in Requests /\ Goto(w, "updSave")
    BY <1>5 DEF Ask, StartJob, AddLead, DeleteLead, CreateCampaign, UpdateRead, DeleteCampaign,
                ScheduleRead, Request, mem
  <2>2. /\ \A q \in Procs : q # w => task'[q].pc = task[q].pc
        /\ \/ task'[w].pc = "claim" /\ "start" \in Requests
           \/ task'[w].pc = "schInsert"
           \/ task'[w].pc = "updSave" /\ "update" \in Requests
    <3>1. CASE Goto(w, "schInsert") \/ ("update" \in Requests /\ Goto(w, "updSave"))
      BY <3>1, GotoMoves DEF Procs
    <3>2. ASSUME NEW j \in Jobs, "start" \in Requests,
                 task' = [task EXCEPT ![w] = [pc |-> "claim", job |-> j, ret |-> "dial"]]
          PROVE  /\ \A q \in Procs : q # w => task'[q].pc = task[q].pc
                 /\ task'[w].pc = "claim"
      BY <3>2 DEF Procs, TypeInv, TypeOK
    <3> QED BY <2>1, <3>1, <3>2
  <2> QED BY <2>2, BarredMove DEF Procs
<1>6. ASSUME NEW w \in Workers, NEW j \in Jobs, IngestCdr(w, j), task' # task
      PROVE  WorkersBarred'
  <2>1. PICK pc \in {"cdrJob", "mfRead"} :
          task' = [task EXCEPT ![w] = [pc |-> pc, job |-> j, ret |-> "ingest"]]
    BY <1>6 DEF IngestCdr
  <2>2. /\ \A q \in Procs : q # w => task'[q].pc = task[q].pc
        /\ task'[w].pc \in {"cdrJob", "mfRead"}
    BY <2>1 DEF Procs, TypeInv, TypeOK
  <2> QED BY <2>2, BarredMove DEF Procs
<1>7. ASSUME NEW h, Crash(h) PROVE WorkersBarred'
  BY <1>7 DEF Crash, WorkersBarred, Idle, Procs
<1> QED BY <1>1, <1>2, <1>3, <1>4, <1>5, <1>6, <1>7
        DEF Next, Work, EndCall, PassTime, vars, mem

-----------------------------------------------------------------------------
(* CapacityRespected, for one instance that takes no manual starts and     *)
(* whose campaigns keep their limit.  The slots dispatchJobs still has for *)
(* its campaign, the claim it is about to make and the jobs dialling       *)
(* together stay within the limit.                                         *)
Claiming(s) == IF At(s, "claim") THEN 1 ELSE 0

SlotsOK ==
  /\ \A s \in Schedulers : At(s, "claim") => CampaignOf[job[task[s].job].lead] \in loop[s].cur
  /\ \A s \in Schedulers : \A c \in loop[s].todo :
       camp[c.id].st # "absent" /\ camp[c.id].limit = c.limit
  /\ \A s \in Schedulers : \A c \in loop[s].cur :
       /\ camp[c].st # "absent"
       /\ Cardinality(Dialing(c)) + loop[s].slots + Claiming(s) <= camp[c].limit
  /\ CapacityRespected

LEMMA DialingFinite ==
  ASSUME NEW c
  PROVE  IsFiniteSet(Dialing(c)) /\ Cardinality(Dialing(c)) \in Nat
<1>1. IsFiniteSet(Jobs)
  BY BoundsAssumption, FS_Interval DEF Jobs
<1>2. Dialing(c) \subseteq Jobs
  BY DEF Dialing, JobsOf
<1> QED BY <1>1, <1>2, FS_Subset, FS_CardinalityType

LEMMA DialingFiniteNext ==
  ASSUME NEW c, NEW S, S \subseteq Dialing(c)'
  PROVE  IsFiniteSet(S) /\ Cardinality(S) \in Nat
<1>1. IsFiniteSet(Jobs)
  BY BoundsAssumption, FS_Interval DEF Jobs
<1>2. S \subseteq Jobs
  BY DEF Dialing, JobsOf
<1> QED BY <1>1, <1>2, FS_Subset, FS_CardinalityType

(* A step that dials no further job, leaves the limits and moves the       *)
(* scheduler neither to a claim nor to another campaign.                   *)
SameLimits ==
  \A c \in Campaigns :
    /\ camp[c].st # "absent" => camp'[c].st # "absent" /\ camp'[c].limit = camp[c].limit
    /\ camp'[c].limit = camp[c].limit \/ Dialing(c)' = {}

SameLoop ==
  \A s \in Schedulers :
    \/ /\ loop'[s] = loop[s]
       /\ task'[s].pc = "claim" => task[s].pc = "claim" /\ task'[s].job = task[s].job
    \/ loop'[s] = NoLoop /\ task'[s].pc # "claim"

SameLeads == \A j \in Jobs : job[j].st # "none" => job'[j].lead = job[j].lead

FewerDialing == \A c \in Campaigns : Dialing(c)' \subseteq Dialing(c)

LEMMA FewerCapacity ==
  ASSUME TypeInv, CapacityRespected, SameLimits, FewerDialing, camp' \in [Campaigns -> CampaignRow]
  PROVE  CapacityRespected'
<1> SUFFICES ASSUME NEW c \in Campaigns
    PROVE  Cardinality(Dialing(c)') <= camp'[c].limit
  BY DEF CapacityRespected
<1>1. Dialing(c)' \subseteq Dialing(c)
  BY DEF FewerDialing
<1>2. /\ Cardinality(Dialing(c)') <= Cardinality(Dialing(c))
      /\ Cardinality(Dialing(c)') \in Nat
      /\ Cardinality(Dialing(c)) \in Nat
  BY <1>1, DialingFinite, FS_Subset, FS_CardinalityType
<1>3. /\ Cardinality(Dialing(c)) <= camp[c].limit
      /\ camp[c].limit \in Nat /\ camp'[c].limit \in Nat
  BY DEF CapacityRespected, TypeInv, TypeOK, CampaignRow
<1>4. CASE camp'[c].limit = camp[c].limit
  BY <1>2, <1>3, <1>4
<1>5. CASE Dialing(c)' = {}
  <2>1. Cardinality(Dialing(c)') = 0
    BY <1>5, FS_EmptySet
  <2> QED BY <1>3, <2>1
<1> QED BY <1>4, <1>5 DEF SameLimits

LEMMA SlotsQuiet ==
  ASSUME TypeInv, TypeInv', SlotsOK, SameLimits, SameLoop, SameLeads, FewerDialing
  PROVE  SlotsOK'
<1> SUFFICES ASSUME NEW s \in Schedulers
    PROVE  /\ task'[s].pc = "claim" => CampaignOf[job'[task'[s].job].lead] \in loop'[s].cur
           /\ \A c \in loop'[s].todo : camp'[c.id].st # "absent" /\ camp'[c.id].limit = c.limit
           /\ \A c \in loop'[s].cur :
                /\ camp'[c].st # "absent"
                /\ Cardinality(Dialing(c)') + loop'[s].slots + Claiming(s)' <= camp'[c].limit
           /\ CapacityRespected'
  <2>1. CapacityRespected'
    BY FewerCapacity DEF SlotsOK, TypeInv, TypeOK
  <2> QED BY <2>1 DEF SlotsOK, At
<1>1. CapacityRespected'
  BY FewerCapacity DEF SlotsOK, TypeInv, TypeOK
<1>2. CASE loop'[s] = NoLoop /\ task'[s].pc # "claim"
  BY <1>1, <1>2 DEF NoLoop
<1>3. CASE /\ loop'[s] = loop[s]
           /\ task'[s].pc = "claim" => task[s].pc = "claim" /\ task'[s].job = task[s].job
  <2>1. task'[s].pc = "claim" => CampaignOf[job'[task'[s].job].lead] \in loop'[s].cur
    <3> SUFFICES ASSUME task'[s].pc = "claim"
        PROVE  CampaignOf[job'[task'[s].job].lead] \in loop'[s].cur
      OBVIOUS
    <3>1. task[s].pc \in JobPCs /\ task[s].pc = "claim" /\ task'[s].job = task[s].job /\ s \in Procs
      BY <1>3 DEF JobPCs, Procs
    <3>2. task[s].job \in Jobs /\ job[task[s].job].st # "none"
      BY <3>1, TaskFacts
    <3> QED BY <1>3, <3>1, <3>2 DEF SameLeads, SlotsOK, At
  <2>2. loop[s] \in LoopRow
    BY DEF TypeInv, TypeOK
  <2>3. \A c \in loop'[s].todo : camp'[c.id].st # "absent" /\ camp'[c.id].limit = c.limit
    BY <1>3, <2>2 DEF SlotsOK, SameLimits, LoopRow
  <2>4. ASSUME NEW c \in loop'[s].cur
        PROVE  /\ camp'[c].st # "absent"
               /\ Cardinality(Dialing(c)') + loop'[s].slots + Claiming(s)' <= camp'[c].limit
    <3>1. c \in Campaigns /\ c \in loop[s].cur /\ loop[s].slots \in Nat
      BY <1>3, <2>2, <2>4 DEF LoopRow
    <3>2. /\ camp[c].st # "absent"
          /\ Cardinality(Dialing(c)) + loop[s].slots + Claiming(s) <= camp[c].limit
      BY <3>1 DEF SlotsOK
    <3>3. camp'[c].st # "absent" /\ camp'[c].limit = camp[c].limit /\ camp[c].limit \in Nat
      BY <3>1, <3>2 DEF SameLimits, TypeInv, TypeOK, CampaignRow
    <3>4. Dialing(c)' \subseteq Dialing(c)
      BY <3>1 DEF FewerDialing
    <3>5. /\ Cardinality(Dialing(c)') <= Cardinality(Dialing(c))
          /\ Cardinality(Dialing(c)') \in Nat
          /\ Cardinality(Dialing(c)) \in Nat
      BY <3>4, DialingFinite, FS_Subset, FS_CardinalityType
    <3>6. Claiming(s)' \in {0, 1} /\ Claiming(s) \in {0, 1} /\ Claiming(s)' <= Claiming(s)
      BY <1>3 DEF Claiming, At
    <3> HIDE DEF Claiming
    <3>7. loop'[s].slots = loop[s].slots
      BY <1>3
    <3> QED BY <3>1, <3>2, <3>3, <3>5, <3>6, <3>7
  <2> QED BY <1>1, <2>1, <2>3, <2>4
<1> QED BY <1>2, <1>3 DEF SameLoop

LEMMA FewerNext ==
  ASSUME TypeInv, [Next]_vars, \A p \in Procs : ~Claim(p)
  PROVE  SameLeads /\ FewerDialing
<1>1. \A j \in Jobs : JobFate(j)
  BY FateNext
<1>2. SameLeads
  BY <1>1 DEF SameLeads, JobFate
<1>3. \A j \in Jobs : job'[j].st = "dialing" => job[j].st = "dialing"
  BY <1>1 DEF JobFate
<1>4. ASSUME NEW c \in Campaigns, NEW j \in Dialing(c)' PROVE j \in Dialing(c)
  <2>1. j \in Jobs /\ job'[j].st = "dialing" /\ CampaignOf[job'[j].lead] = c
    BY <1>4 DEF Dialing, JobsOf
  <2>2. job[j].st = "dialing" /\ job'[j].lead = job[j].lead
    BY <1>2, <1>3, <2>1 DEF SameLeads
  <2> QED BY <2>1, <2>2 DEF Dialing, JobsOf, JobExists, Exists
<1> QED BY <1>2, <1>4 DEF FewerDialing

LEMMA LimitsNext ==
  ASSUME TypeInv, RowsInv, WorkersBarred, "update" \notin Requests, [Next]_vars, FewerDialing
  PROVE  SameLimits
<1>1. CASE camp' = camp
  BY <1>1 DEF SameLimits
<1>2. ASSUME NEW w \in Workers, NEW c \in Campaigns, CreateCampaign(w, c) PROVE SameLimits
  <2>1. camp[c].st = "absent" /\ \A d \in Campaigns : d # c => camp'[d] = camp[d]
    BY <1>2 DEF CreateCampaign, TypeInv, TypeOK
  <2>2. Dialing(c) = {}
    BY <2>1, LeadsAssumption
    DEF Dialing, JobsOf, RowsInv, ForeignKeys, LeadExists, CampaignExists, Exists
  <2>3. Dialing(c)' = {}
    BY <2>2 DEF FewerDialing
  <2> QED BY <2>1, <2>3 DEF SameLimits
<1>3. ASSUME NEW w \in Workers, NEW c \in Campaigns, DeleteCampaign(w, c) PROVE SameLimits
  <2>1. \A d \in Campaigns : d # c => camp'[d] = camp[d]
    BY <1>3 DEF DeleteCampaign, TypeInv, TypeOK
  <2>2. camp'[c] = [camp[c] EXCEPT !.st = "gone"] /\ camp[c] \in CampaignRow
    BY <1>3 DEF DeleteCampaign, TypeInv, TypeOK
  <2>3. camp'[c].st = "gone" /\ camp'[c].limit = camp[c].limit
    BY <2>2 DEF CampaignRow
  <2> QED BY <2>1, <2>3 DEF SameLimits
<1>4. ASSUME NEW w \in Workers, UpdateSave(w) PROVE FALSE
  BY <1>4 DEF UpdateSave, At, WorkersBarred
<1>5. \/ camp' = camp
      \/ \E w \in Workers : UpdateSave(w)
      \/ \E w \in Workers, c \in Campaigns : CreateCampaign(w, c) \/ DeleteCampaign(w, c)
  <2>1. ASSUME NEW p \in Procs, Dial(p) \/ Fail(p) \/ Ingest(p) PROVE camp' = camp
    BY <2>1 DEF Dial, Claim, LeadStart, OriginateAccepted, OriginateVanishes,
         OriginateRefused, OriginateTimesOut, Sent, Fail, FailRead, FailSave, FailLead, FailRetry,
         FailRequeue, Ingest, IngestJob, IngestLead, Charge, db
  <2>2. ASSUME NEW w \in Workers, Save(w) PROVE camp' = camp \/ UpdateSave(w)
    BY <2>2 DEF Save, ScheduleInsert, ScheduleSave
  <2>3. ASSUME NEW w \in Workers, Ask(w)
        PROVE  camp' = camp \/ \E c \in Campaigns : CreateCampaign(w, c) \/ DeleteCampaign(w, c)
    BY <2>3 DEF Ask, StartJob, AddLead, DeleteLead, UpdateRead, ScheduleRead, db
  <2> QED BY <2>1, <2>2, <2>3
          DEF Next, Work, Schedule, Tick, EndTick, NextCampaign, NextSlot, IngestCdr, EndCall,
              Crash, PassTime, vars, db
<1> QED BY <1>1, <1>2, <1>3, <1>4, <1>5

(* The steps outside dispatchJobs leave the scheduler where it is in it.   *)
LEMMA LoopMove ==
  ASSUME TypeInv, NEW p \in Procs, loop' = loop,
         \A q \in Procs : q # p => task'[q].pc = task[q].pc /\ task'[q].job = task[q].job,
         p \in Schedulers => task'[p].pc # "claim"
  PROVE  SameLoop
  BY DEF SameLoop, Procs

LEMMA LoopNext ==
  ASSUME TypeInv, [Next]_vars, \A s \in Schedulers : ~Schedule(s)
  PROVE  SameLoop
<1>1. CASE UNCHANGED <<task, loop>>
  BY <1>1 DEF SameLoop
<1>2. ASSUME NEW p \in Procs, Dial(p) \/ Fail(p) \/ Ingest(p) PROVE SameLoop
  <2>1. task[p].pc \in JobPCs /\ loop' = loop
    BY <1>2 DEF Dial, Claim, LeadStart, OriginateAccepted, OriginateVanishes, OriginateRefused,
         OriginateTimesOut, Sent, At, JobPCs, Fail, FailRead, FailSave, FailLead, FailRetry,
         FailRequeue, Ingest, IngestJob, IngestLead, Charge
  <2>2. \/ Return(p) \/ Throw(p) \/ Originated(p) \/ Finish(p)
        \/ task' = [task EXCEPT ![p] = Rethrow(p)]
        \/ \E pc \in {"leadStart", "originate", "mfRead", "mfSave", "mfLead", "mfRetry",
                      "mfRequeue", "cdrLead", "charge"} : Goto(p, pc)
    BY <1>2 DEF Dial, Claim, LeadStart, OriginateAccepted, OriginateVanishes, OriginateRefused,
         OriginateTimesOut, Fail, FailRead, FailSave, FailLead, FailRetry, FailRequeue,
         Ingest, IngestJob, IngestLead, Charge
  <2>3. /\ \A q \in Procs : q # p => task'[q].pc = task[q].pc /\ task'[q].job = task[q].job
        /\ task'[p].pc # "claim"
    BY <2>1, <2>2, JobLeft, GotoMoves
  <2> QED BY <2>1, <2>3, LoopMove
<1>3. ASSUME NEW w \in Workers, Save(w) \/ Ask(w) \/ \E j \in Jobs : IngestCdr(w, j)
      PROVE  SameLoop
  <2>1. loop' = loop
    BY <1>3 DEF Save, ScheduleInsert, ScheduleSave, UpdateSave, Ask, StartJob, AddLead,
                DeleteLead, CreateCampaign, UpdateRead, DeleteCampaign, ScheduleRead, IngestCdr,
                mem
  <2>2. task' = task \/ (\E pc : Goto(w, pc)) \/ (\E t : task' = [task EXCEPT ![w] = t])
    BY <1>3 DEF Save, ScheduleInsert, ScheduleSave, UpdateSave, Ask, StartJob, AddLead,
                DeleteLead, CreateCampaign, UpdateRead, DeleteCampaign, ScheduleRead, IngestCdr,
                Finish, mem
  <2>3. \A q \in Procs : q # w => task'[q].pc = task[q].pc /\ task'[q].job = task[q].job
    <3>1. CASE \E pc : Goto(w, pc)
      BY <3>1, GotoMoves DEF Procs
    <3>2. CASE \E t : task' = [task EXCEPT ![w] = t]
      BY <3>2 DEF TypeInv, TypeOK
    <3> QED BY <2>2, <3>1, <3>2
  <2> QED BY <2>1, <2>3, LoopMove, ProcsAssumption DEF Procs
<1>4. ASSUME NEW h, Crash(h) PROVE SameLoop
  <2> SUFFICES ASSUME NEW s \in Schedulers
      PROVE  \/ /\ loop'[s] = loop[s]
                /\ task'[s].pc = "claim" => task[s].pc = "claim" /\ task'[s].job = task[s].job
             \/ loop'[s] = NoLoop /\ task'[s].pc # "claim"
    BY DEF SameLoop
  <2>1. /\ task' = [p \in Procs |-> IF HostOf[p] = h THEN Idle ELSE task[p]]
        /\ loop' = [t \in Schedulers |-> IF HostOf[t] = h THEN NoLoop ELSE loop[t]]
    BY <1>4 DEF Crash
  <2>2. CASE HostOf[s] = h
    BY <2>1, <2>2 DEF Idle, Procs
  <2>3. CASE HostOf[s] # h
    BY <2>1, <2>3 DEF Procs
  <2> QED BY <2>2, <2>3
<1> QED BY <1>1, <1>2, <1>3, <1>4
        DEF Next, Work, EndCall, PassTime, vars, mem

(* dispatchJobs itself: the tick reads the limits, the slots are counted   *)
(* from the jobs that dial, and each slot used becomes the claim of a job  *)
(* of the campaign.                                                        *)
LEMMA SlotsSchedule ==
  ASSUME TypeInv, TypeInv', SlotsOK, NEW s \in Schedulers, Schedule(s)
  PROVE  SlotsOK'
<1>1. UNCHANGED <<camp, job>> /\ s \in Procs /\ task[s].pc # "claim"
  BY DEF Schedule, Tick, EndTick, NextCampaign, NextSlot, At, db, Procs
<1>2. \A c : Dialing(c)' = Dialing(c)
  BY <1>1 DEF Dialing, JobsOf, JobExists
<1>3. CapacityRespected'
  BY <1>1, <1>2 DEF SlotsOK, CapacityRespected
<1>4. \A t \in Schedulers : t # s => loop'[t] = loop[t] /\ task'[t] = task[t]
  <2>1. (\E r : loop' = [loop EXCEPT ![s] = r]) /\ (\E r : task' = [task EXCEPT ![s] = r])
    BY DEF Schedule, Tick, EndTick, NextCampaign, NextSlot, Goto, Finish
  <2> QED BY <2>1 DEF TypeInv, TypeOK, Procs
<1>5. SUFFICES
        /\ task'[s].pc = "claim" => CampaignOf[job[task'[s].job].lead] \in loop'[s].cur
        /\ \A c \in loop'[s].todo : camp[c.id].st # "absent" /\ camp[c.id].limit = c.limit
        /\ \A c \in loop'[s].cur :
             /\ camp[c].st # "absent"
             /\ Cardinality(Dialing(c)) + loop'[s].slots + Claiming(s)' <= camp[c].limit
  <2>1. \A t \in Schedulers : t # s => Claiming(t)' = Claiming(t)
    BY <1>4 DEF Claiming, At
  <2> QED BY <1>1, <1>2, <1>3, <1>4, <2>1 DEF SlotsOK, At
<1>6. CASE Tick(s)
  <2>1. task'[s].pc = "campaign"
    BY <1>1, <1>6, GotoMoves DEF Tick
  <2>2. /\ loop'[s].cur = {}
        /\ loop'[s].todo = {[id |-> c, limit |-> camp[c].limit] :
                               c \in {d \in Campaigns : camp[d].st = "running"}}
    BY <1>6 DEF Tick, TypeInv, TypeOK
  <2> QED BY <2>1, <2>2
<1>7. CASE EndTick(s)
  BY <1>1, <1>7 DEF EndTick, Finish, Idle, NoLoop, TypeInv, TypeOK
<1>8. CASE NextCampaign(s)
  <2> DEFINE Slots(c) == IF loop[s].now \in OpenTimes THEN Capacity(c.id, c.limit) ELSE 0
  <2>1. PICK c \in loop[s].todo :
          /\ loop' = [loop EXCEPT ![s].todo  = @ \ {c},
                                  ![s].cur   = IF Slots(c) > 0 THEN {c.id} ELSE {},
                                  ![s].slots = Slots(c)]
          /\ Goto(s, IF Slots(c) > 0 THEN "slot" ELSE "campaign")
    BY <1>8 DEF NextCampaign
  <2>2. loop[s] \in LoopRow /\ c.id \in Campaigns /\ c.limit \in Nat
    BY DEF TypeInv, TypeOK, LoopRow
  <2>3. Cardinality(Dialing(c.id)) \in Nat
    BY DialingFinite
  <2>4. Slots(c) \in Nat /\ (Slots(c) > 0 => Slots(c) = c.limit - Cardinality(Dialing(c.id)))
    BY <2>2, <2>3 DEF Capacity
  <2>5. camp[c.id].st # "absent" /\ camp[c.id].limit = c.limit
    BY DEF SlotsOK
  <2> HIDE DEF Slots
  <2>6. /\ loop'[s].todo = loop[s].todo \ {c}
        /\ loop'[s].cur = IF Slots(c) > 0 THEN {c.id} ELSE {}
        /\ loop'[s].slots = Slots(c)
    BY <2>1, <2>2 DEF TypeInv, TypeOK, LoopRow
  <2>7. task'[s].pc # "claim"
    BY <1>1, <2>1, GotoMoves
  <2>8. Claiming(s)' = 0
    BY <2>7 DEF Claiming, At
  <2>9. \A d \in loop'[s].cur :
          /\ camp[d].st # "absent"
          /\ Cardinality(Dialing(d)) + loop'[s].slots + Claiming(s)' <= camp[d].limit
    <3> SUFFICES ASSUME Slots(c) > 0
        PROVE  Cardinality(Dialing(c.id)) + Slots(c) + 0 <= camp[c.id].limit
      BY <2>5, <2>6, <2>8
    <3> QED BY <2>2, <2>3, <2>4, <2>5
  <2> QED BY <2>6, <2>7, <2>9 DEF SlotsOK
<1>9. CASE NextSlot(s)
  <2> DEFINE due == UNION {Due(c, loop[s].now) : c \in loop[s].cur}
  <2>1. loop[s] \in LoopRow
    BY DEF TypeInv, TypeOK
  <2>2. CASE loop[s].slots > 0 /\ due # {}
    <3>1. PICK j \in First(due) :
            /\ task' = [task EXCEPT ![s] = [pc |-> "claim", job |-> j, ret |-> "dial"]]
            /\ loop' = [loop EXCEPT ![s].slots = @ - 1]
      BY <1>9, <2>2 DEF NextSlot
    <3>2. CampaignOf[job[j].lead] \in loop[s].cur
      BY DEF First, Due, JobsOf
    <3> HIDE DEF due
    <3>3. task'[s].pc = "claim" /\ task'[s].job = j
      BY <1>1, <3>1 DEF TypeInv, TypeOK
    <3>4. /\ loop'[s].todo = loop[s].todo
          /\ loop'[s].cur = loop[s].cur
          /\ loop'[s].slots = loop[s].slots - 1
      BY <2>1, <3>1 DEF TypeInv, TypeOK, LoopRow
    <3>5. Claiming(s)' = 1 /\ Claiming(s) = 0
      BY <1>1, <3>3 DEF Claiming, At
    <3>6. ASSUME NEW c \in loop'[s].cur
          PROVE  /\ camp[c].st # "absent"
                 /\ Cardinality(Dialing(c)) + loop'[s].slots + Claiming(s)' <= camp[c].limit
      <4>1. /\ c \in Campaigns /\ c \in loop[s].cur /\ loop[s].slots \in Nat
            /\ camp[c].limit \in Nat
        BY <2>1, <3>4, <3>6 DEF LoopRow, TypeInv, TypeOK, CampaignRow
      <4>2. /\ camp[c].st # "absent"
            /\ Cardinality(Dialing(c)) + loop[s].slots + 0 <= camp[c].limit
        BY <3>5, <4>1 DEF SlotsOK
      <4>3. Cardinality(Dialing(c)) \in Nat
        BY DialingFinite
      <4> QED BY <3>4, <3>5, <4>1, <4>2, <4>3
    <3> QED BY <3>2, <3>3, <3>4, <3>6 DEF SlotsOK
  <2>3. CASE ~(loop[s].slots > 0 /\ due # {})
    <3>1. Goto(s, "campaign") /\ loop' = [loop EXCEPT ![s].cur = {}, ![s].slots = 0]
      BY <1>9, <2>3 DEF NextSlot
    <3>2. task'[s].pc = "campaign"
      BY <1>1, <3>1, GotoMoves
    <3>3. loop'[s].todo = loop[s].todo /\ loop'[s].cur = {}
      BY <2>1, <3>1 DEF TypeInv, TypeOK, LoopRow
    <3> QED BY <3>2, <3>3 DEF SlotsOK
  <2> QED BY <2>2, <2>3
<1> QED BY <1>6, <1>7, <1>8, <1>9 DEF Schedule

(* The claim turns the slot it was counted for into a dialling job.        *)
LEMMA SlotsClaim ==
  ASSUME TypeInv, TypeInv', SlotsOK, NEW s \in Schedulers, \A t \in Schedulers : t = s, Claim(s)
  PROVE  SlotsOK'
<1> DEFINE j == task[s].job
           c == CampaignOf[job[task[s].job].lead]
<1>1. /\ UNCHANGED <<camp, loop>> /\ s \in Procs /\ task[s].pc = "claim"
      /\ j \in Jobs /\ job[j].st # "none" /\ job[j].lead \in Leads
  BY TaskFacts DEF Claim, At, Procs, JobPCs
<1>2. loop[s] \in LoopRow /\ c \in loop[s].cur /\ c \in Campaigns
  BY <1>1, LeadsAssumption DEF TypeInv, TypeOK, SlotsOK, At
<1>3. CASE Claimable(j)
  <2>1. job' = [job EXCEPT ![j].st = "dialing"] /\ Goto(s, "leadStart")
    BY <1>3 DEF Claim
  <2>2. \A k \in Jobs : /\ job'[k].lead = job[k].lead
                        /\ job'[k].st = IF k = j THEN "dialing" ELSE job[k].st
    BY <1>1, <2>1, JobStatus
  <2>3. \A d : Dialing(d)' \subseteq Dialing(d) \cup {k \in {j} : d = c}
    BY <2>2 DEF Dialing, JobsOf, JobExists, Exists
  <2>4. task'[s].pc = "leadStart"
    BY <1>1, <2>1, GotoMoves
  <2>5. Claiming(s) = 1 /\ Claiming(s)' = 0
    BY <1>1, <2>4 DEF Claiming, At
  <2>6. ASSUME NEW d \in Campaigns
        PROVE  /\ Cardinality(Dialing(d)) \in Nat
               /\ Cardinality(Dialing(d)') \in Nat
               /\ Cardinality(Dialing(d)') <= Cardinality(Dialing(d)) + 1
               /\ d # c => Cardinality(Dialing(d)') <= Cardinality(Dialing(d))
    <3>1. IsFiniteSet(Dialing(d)) /\ Cardinality(Dialing(d)) \in Nat
      BY DialingFinite
    <3>2. Dialing(d)' \subseteq Dialing(d) \cup {j}
      BY <2>3
    <3>3. /\ IsFiniteSet(Dialing(d) \cup {j})
          /\ Cardinality(Dialing(d) \cup {j}) \in Nat
          /\ Cardinality(Dialing(d) \cup {j}) <= Cardinality(Dialing(d)) + 1
      BY <3>1, FS_AddElement, FS_CardinalityType
    <3>4. /\ Cardinality(Dialing(d)') \in Nat
          /\ Cardinality(Dialing(d)') <= Cardinality(Dialing(d) \cup {j})
      BY <3>2, <3>3, FS_Subset, FS_CardinalityType
    <3>5. d # c => Cardinality(Dialing(d)') <= Cardinality(Dialing(d))
      <4> SUFFICES ASSUME d # c PROVE Cardinality(Dialing(d)') <= Cardinality(Dialing(d))
        OBVIOUS
      <4>1. Dialing(d)' \subseteq Dialing(d)
        BY <2>3
      <4> QED BY <3>1, <4>1, FS_Subset
    <3> QED BY <3>1, <3>3, <3>4, <3>5
  <2> HIDE DEF c, j
  <2>7. ASSUME NEW d \in loop'[s].cur
        PROVE  /\ camp'[d].st # "absent"
               /\ Cardinality(Dialing(d)') + loop'[s].slots + Claiming(s)' <= camp'[d].limit
    <3>1. /\ d \in Campaigns /\ d \in loop[s].cur /\ loop[s].slots \in Nat
          /\ camp[d].limit \in Nat
      BY <1>1, <1>2, <2>7 DEF LoopRow, TypeInv, TypeOK, CampaignRow
    <3>2. /\ camp[d].st # "absent"
          /\ Cardinality(Dialing(d)) + loop[s].slots + 1 <= camp[d].limit
      BY <2>5, <3>1 DEF SlotsOK
    <3>3. Cardinality(Dialing(d)') + loop[s].slots + 0 <= camp[d].limit
      BY <2>6, <3>1, <3>2
    <3> QED BY <1>1, <2>5, <3>2, <3>3
  <2>8. ASSUME NEW d \in Campaigns
        PROVE  Cardinality(Dialing(d)') <= camp'[d].limit
    <3>1. camp[d].limit \in Nat /\ Cardinality(Dialing(d)) <= camp[d].limit
      BY DEF TypeInv, TypeOK, CampaignRow, SlotsOK, CapacityRespected
    <3>2. CASE d = c
      <4>1. loop[s].slots \in Nat /\ Cardinality(Dialing(c)) + loop[s].slots + 1 <= camp[c].limit
        BY <1>2, <2>5 DEF SlotsOK, LoopRow
      <4>2. Cardinality(Dialing(d)) + loop[s].slots + 1 <= camp[d].limit
        BY <3>2, <4>1
      <4> QED BY <1>1, <2>6, <3>1, <4>1, <4>2
    <3>3. CASE d # c
      BY <1>1, <2>6, <3>1, <3>3
    <3> QED BY <3>2, <3>3
  <2>9. CapacityRespected'
    BY <2>8 DEF CapacityRespected
  <2>10. \A d \in loop'[s].todo : camp'[d.id].st # "absent" /\ camp'[d.id].limit = d.limit
    BY <1>1 DEF SlotsOK
  <2> QED BY <2>4, <2>7, <2>9, <2>10 DEF SlotsOK, At
<1>4. CASE ~Claimable(j)
  <2>1. job' = job /\ task' = [task EXCEPT ![s] = Rethrow(s)]
    BY <1>4 DEF Claim
  <2>2. /\ \A q \in Procs : q # s => task'[q] = task[q]
        /\ task'[s].pc # "claim"
    BY <1>1, <2>1, JobLeft DEF JobPCs
  <2>3. SameLoop
    BY <1>1, <2>2, LoopMove
  <2>4. SameLeads /\ SameLimits /\ FewerDialing
    BY <1>1, <2>1 DEF SameLeads, SameLimits, FewerDialing, Dialing, JobsOf, JobExists
  <2> QED BY <2>3, <2>4, SlotsQuiet
<1> QED BY <1>3, <1>4

LEMMA SlotsInit == Init => SlotsOK
<1> SUFFICES ASSUME Init PROVE SlotsOK
  OBVIOUS
<1>1. CapacityRespected
  <2> SUFFICES ASSUME NEW c \in Campaigns PROVE Cardinality(Dialing(c)) <= camp[c].limit
    BY DEF CapacityRespected
  <2>1. Dialing(c) = {}
    BY DEF Init, Dialing, JobsOf, JobExists, Exists, NoRow
  <2>2. Cardinality(Dialing(c)) = 0
    BY <2>1, FS_EmptySet
  <2>3. camp[c].limit \in Nat
    BY InitAssumption DEF Init, CampaignRow
  <2> QED BY <2>2, <2>3
<1>2. \A s \in Schedulers : loop[s] = NoLoop /\ task[s] = Idle
  BY DEF Init, Procs
<1> QED BY <1>1, <1>2 DEF SlotsOK, NoLoop, Idle, At

LEMMA SlotsNext ==
  ASSUME \A s, t \in Schedulers : s = t, "start" \notin Requests, "update" \notin Requests
  PROVE  BaseInv /\ RowsInv /\ WorkersBarred /\ SlotsOK /\ [Next]_vars => SlotsOK'
<1> SUFFICES ASSUME BaseInv, RowsInv, WorkersBarred, SlotsOK, [Next]_vars PROVE SlotsOK'
  OBVIOUS
<1>1. TypeInv /\ TypeInv'
  BY TypeNext DEF BaseInv
<1>2. ASSUME NEW p \in Procs, Claim(p) PROVE SlotsOK'
  <2>1. p \in Schedulers
    BY <1>2 DEF Claim, At, WorkersBarred, Procs
  <2> QED BY <1>1, <1>2, <2>1, SlotsClaim
<1>3. ASSUME NEW s \in Schedulers, Schedule(s) PROVE SlotsOK'
  BY <1>1, <1>3, SlotsSchedule
<1>4. CASE (\A p \in Procs : ~Claim(p)) /\ (\A s \in Schedulers : ~Schedule(s))
  BY <1>1, <1>4, FewerNext, LimitsNext, LoopNext, SlotsQuiet
<1> QED BY <1>2, <1>3, <1>4

(* With one instance, no manual starts and no change of a limit, a         *)
(* campaign never has more jobs dialling than maxConcurrentCalls, whatever *)
(* is created, scheduled or deleted meanwhile, whatever FreeSWITCH refuses *)
(* or loses, and wherever the instance is restarted.                       *)
THEOREM CapacityKept ==
  ASSUME \A s, t \in Schedulers : s = t, "start" \notin Requests, "update" \notin Requests
  PROVE  Spec => []CapacityRespected
<1> DEFINE Inv == BaseInv /\ RowsInv /\ WorkersBarred /\ SlotsOK
<1>1. Init => Inv
  BY BaseInit, RowsInit, BarredInit, SlotsInit
<1>2. Inv /\ [Next]_vars => Inv'
  BY BaseNext, RowsNext, BarredNext, SlotsNext DEF BaseInv
<1>3. Inv => CapacityRespected
  BY DEF SlotsOK
<1> QED BY <1>1, <1>2, <1>3, PTL DEF Spec

-----------------------------------------------------------------------------
(* Who moves: a process changes its task by a step of its own, or forgets  *)
(* it when its instance ends.                                              *)
LEMMA Moved ==
  ASSUME TypeInv, [Next]_vars, NEW p \in Procs, task'[p] # task[p]
  PROVE  \/ p \in Schedulers /\ Schedule(p)
         \/ Dial(p) \/ Fail(p)
         \/ p \in Workers /\ (Ingest(p) \/ Save(p) \/ Ask(p) \/ \E j \in Jobs : IngestCdr(p, j))
         \/ \E h : Crash(h) /\ task'[p] = Idle
<1>1. ASSUME NEW s \in Schedulers, Schedule(s) PROVE s = p
  <2>1. \E t : task' = [task EXCEPT ![s] = t]
    BY <1>1 DEF Schedule, Tick, EndTick, NextCampaign, NextSlot, Goto, Finish
  <2> QED BY <2>1 DEF TypeInv, TypeOK
<1>2. ASSUME NEW q \in Procs, Dial(q) \/ Fail(q) \/ Ingest(q) PROVE q = p
  <2>1. \E t : task' = [task EXCEPT ![q] = t]
    BY <1>2 DEF Dial, Claim, LeadStart, OriginateAccepted, OriginateVanishes, OriginateRefused,
         OriginateTimesOut, Originated, Fail, FailRead, FailSave, FailLead, FailRetry,
         FailRequeue, Ingest, IngestJob, IngestLead, Charge, Goto, Finish, Return, Throw
  <2> QED BY <2>1 DEF TypeInv, TypeOK
<1>3. ASSUME NEW w \in Workers, Save(w) \/ Ask(w) \/ \E j \in Jobs : IngestCdr(w, j) PROVE w = p
  <2>1. task' = task \/ \E t : task' = [task EXCEPT ![w] = t]
    BY <1>3 DEF Save, ScheduleInsert, ScheduleSave, UpdateSave, Ask, StartJob, AddLead,
                DeleteLead, CreateCampaign, UpdateRead, DeleteCampaign, ScheduleRead, IngestCdr,
                Goto, Finish, mem
  <2> QED BY <2>1 DEF TypeInv, TypeOK
<1>4. ASSUME NEW h, Crash(h) PROVE task'[p] = Idle
  BY <1>4 DEF Crash
<1> QED BY <1>1, <1>2, <1>3, <1>4 DEF Next, Work, EndCall, PassTime, vars, mem

(* Where the task of a job leads, apart from the end of the work on it.    *)
JobStep(p) ==
  /\ task[p].pc \in JobPCs
  /\ task'[p].pc \in JobPCs => task'[p].job = task[p].job
  /\ task'[p].pc \notin {"claim"}
  /\ task'[p].pc = "leadStart" => Claim(p) /\ Claimable(task[p].job)
  /\ task'[p].pc = "originate" => LeadStart(p)
  /\ task'[p].pc = "mfRead" => Claim(p) \/ OriginateRefused(p) \/ OriginateTimesOut(p) \/ Fail(p)
  /\ task'[p].pc \in {"mfSave", "mfLead", "mfRetry", "mfRequeue"} => Fail(p)

LEMMA JobMoves ==
  ASSUME TypeInv, NEW p \in Procs, Dial(p) \/ Fail(p) \/ Ingest(p)
  PROVE  JobStep(p)
<1>1. task[p].pc \in JobPCs
  BY DEF Dial, Claim, LeadStart, OriginateAccepted, OriginateVanishes, OriginateRefused,
         OriginateTimesOut, Sent, At, JobPCs, Fail, FailRead, FailSave, FailLead, FailRetry,
         FailRequeue, Ingest, IngestJob, IngestLead, Charge
<1>2. CASE Claim(p)
  <2>1. CASE Claimable(task[p].job)
    <3>1. Goto(p, "leadStart")
      BY <1>2, <2>1 DEF Claim
    <3> QED BY <1>1, <1>2, <2>1, <3>1, GotoMoves DEF JobStep
  <2>2. CASE ~Claimable(task[p].job)
    <3>1. task' = [task EXCEPT ![p] = Rethrow(p)]
      BY <1>2, <2>2 DEF Claim
    <3> QED BY <1>1, <1>2, <3>1, JobLeft DEF JobStep, JobPCs
  <2> QED BY <2>1, <2>2
<1>3. CASE LeadStart(p)
  BY <1>1, <1>3, GotoMoves DEF JobStep, LeadStart
<1>4. CASE OriginateRefused(p) \/ OriginateTimesOut(p)
  BY <1>1, <1>4, GotoMoves DEF JobStep, OriginateRefused, OriginateTimesOut
<1>5. CASE OriginateAccepted(p) \/ OriginateVanishes(p)
  <2>1. Originated(p) /\ p \in Procs
    BY <1>5 DEF OriginateAccepted, OriginateVanishes
  <2>2. task'[p].pc \in {"idle", "slot"}
    BY <2>1 DEF Originated, Idle, TypeInv, TypeOK
  <2> QED BY <1>1, <2>2 DEF JobStep, JobPCs
<1>6. CASE Fail(p)
  <2>1. \/ Return(p) \/ Throw(p)
        \/ \E pc \in {"mfSave", "mfLead", "mfRetry", "mfRequeue"} : Goto(p, pc)
    BY <1>6 DEF Fail, FailRead, FailSave, FailLead, FailRetry, FailRequeue
  <2> QED BY <1>1, <1>6, <2>1, JobLeft, GotoMoves DEF JobStep, JobPCs
<1>7. CASE Ingest(p)
  <2>1. \/ Finish(p)
        \/ \E pc \in {"cdrLead", "charge"} : Goto(p, pc)
    BY <1>7 DEF Ingest, IngestJob, IngestLead, Charge
  <2>2. CASE Finish(p)
    BY <1>1, <2>2 DEF Finish, Idle, TypeInv, TypeOK, JobStep, JobPCs
  <2> QED BY <1>1, <2>1, <2>2, GotoMoves DEF JobStep, JobPCs
<1> QED BY <1>2, <1>3, <1>4, <1>5, <1>6, <1>7 DEF Dial

(* A process comes to work on a job by a step on it, by a slot of          *)
(* dispatchJobs, by a manual start or by a CDR.                            *)
JobEntered(p) ==
  \/ /\ task'[p].pc = "claim" /\ p \in Schedulers /\ NextSlot(p)
     /\ task'[p].job \in Jobs /\ job[task'[p].job].st = "pending"
  \/ task'[p].pc = "claim" /\ "start" \in Requests
  \/ /\ task'[p].pc \in {"cdrJob", "mfRead"} /\ p \in Workers
     /\ task'[p].job \in Jobs /\ IngestCdr(p, task'[p].job) /\ Insertable(task'[p].job)
     /\ task'[p].pc = "mfRead" => call[task'[p].job] = "unanswered"

LEMMA JobEnters ==
  ASSUME TypeInv, [Next]_vars, NEW p \in Procs, task'[p] # task[p], task'[p].pc \in JobPCs
  PROVE  \/ JobStep(p) /\ (Dial(p) \/ Fail(p) \/ (p \in Workers /\ Ingest(p)))
         \/ JobEntered(p)
<1>1. CASE Dial(p) \/ Fail(p) \/ (p \in Workers /\ Ingest(p))
  BY <1>1, JobMoves
<1>2. CASE p \in Schedulers /\ Schedule(p)
  <2>1. CASE Tick(p) \/ EndTick(p) \/ NextCampaign(p)
    <3>1. Goto(p, "campaign") \/ Goto(p, "slot") \/ Finish(p)
      BY <2>1 DEF Tick, EndTick, NextCampaign
    <3>2. task'[p].pc \in {"campaign", "slot", "idle"}
      BY <3>1, GotoMoves DEF Finish, Idle, TypeInv, TypeOK
    <3> QED BY <3>2 DEF JobPCs
  <2>2. CASE NextSlot(p)
    <3> DEFINE due == UNION {Due(c, loop[p].now) : c \in loop[p].cur}
    <3>1. CASE Goto(p, "campaign")
      BY <3>1, GotoMoves DEF JobPCs
    <3>2. \A j \in First(due) : j \in Jobs /\ job[j].st = "pending"
      BY DEF First, Due, JobsOf
    <3>3. \/ Goto(p, "campaign")
          \/ \E j \in First(due) : task' = [task EXCEPT ![p] = [pc |-> "claim", job |-> j, ret |-> "dial"]]
      BY <2>2 DEF NextSlot
    <3> HIDE DEF due
    <3>4. ASSUME NEW j \in First(due),
                 task' = [task EXCEPT ![p] = [pc |-> "claim", job |-> j, ret |-> "dial"]]
          PROVE  JobEntered(p)
      <4>1. task'[p].pc = "claim" /\ task'[p].job = j
        BY <3>4 DEF TypeInv, TypeOK
      <4> QED BY <1>2, <2>2, <3>2, <4>1 DEF JobEntered
    <3> QED BY <3>1, <3>3, <3>4
  <2> QED BY <1>2, <2>1, <2>2 DEF Schedule
<1>3. CASE p \in Workers /\ Save(p)
  <2>1. Finish(p) \/ Goto(p, "schSave")
    BY <1>3 DEF Save, ScheduleInsert, ScheduleSave, UpdateSave
  <2>2. task'[p].pc \in {"idle", "schSave"}
    BY <2>1, GotoMoves DEF Finish, Idle, TypeInv, TypeOK
  <2> QED BY <2>2 DEF JobPCs
<1>4. CASE p \in Workers /\ Ask(p)
  <2>1. \/ /\ "start" \in Requests
           /\ \E j \in Jobs : task' = [task EXCEPT ![p] = [pc |-> "claim", job |-> j, ret |-> "dial"]]
        \/ Goto(p, "schInsert") \/ Goto(p, "updSave")
    BY <1>4 DEF Ask, StartJob, AddLead, DeleteLead, CreateCampaign, UpdateRead, DeleteCampaign,
                ScheduleRead, Request, mem
  <2>2. CASE Goto(p, "schInsert") \/ Goto(p, "updSave")
    BY <2>2, GotoMoves DEF JobPCs
  <2> QED BY <2>1, <2>2 DEF JobEntered, TypeInv, TypeOK
<1>5. ASSUME p \in Workers, NEW j \in Jobs, IngestCdr(p, j) PROVE JobEntered(p)
  <2>1. PICK pc \in {"cdrJob", "mfRead"} :
          /\ task' = [task EXCEPT ![p] = [pc |-> pc, job |-> j, ret |-> "ingest"]]
          /\ pc = "mfRead" => call[j] # "answered"
          /\ Ended(j) /\ Insertable(j)
    BY <1>5 DEF IngestCdr
  <2>2. task'[p].pc = pc /\ task'[p].job = j
    BY <2>1 DEF TypeInv, TypeOK
  <2> QED BY <1>5, <2>1, <2>2 DEF JobEntered, Ended
<1>6. CASE task'[p] = Idle
  BY <1>6 DEF Idle, JobPCs
<1> QED BY <1>1, <1>2, <1>3, <1>4, <1>5, <1>6, Moved

-----------------------------------------------------------------------------
(* AnsweredNotRetried, for one instance that takes no manual starts and    *)
(* an event socket that answers in time.  A job whose failure is being     *)
(* marked is dead: its call ended unanswered, or it was claimed and will   *)
(* never be dialled any more.                                              *)
MarkingPCs == {"mfRead", "mfSave", "mfLead", "mfRetry", "mfRequeue"}

Dead(j) ==
  \/ call[j] = "unanswered"
  \/ /\ call[j] = "none"
     /\ ~Unclaimed(j)
     /\ \A p \in Procs : Dialling(p) => task[p].job # j

RetryInv ==
  /\ \A p \in Procs : At(p, "claim") => call[task[p].job] = "none"
  /\ \A p \in Procs : task[p].pc \in MarkingPCs => Dead(task[p].job)
  /\ \A k \in Jobs : job[k].parent # NoJob => Dead(job[k].parent)

(* A call changes when its job is dialled and when it ends.                *)
LEMMA CallMoves ==
  ASSUME BaseInv, [Next]_vars, NEW j \in Jobs, call'[j] # call[j]
  PROVE  \/ \E p \in Procs : Sent(p) /\ task[p].job = j /\ call[j] = "none"
         \/ call[j] = "live" /\ call'[j] \in {"answered", "unanswered"}
<1>1. TypeInv
  BY DEF BaseInv
<1>2. ASSUME NEW p \in Procs, Dial(p)
      PROVE  Sent(p) /\ task[p].job = j /\ call[j] = "none"
  <2>1. Sent(p) /\ (CallStarts(task[p].job) \/ UNCHANGED call)
    BY <1>2 DEF Dial, Claim, LeadStart, OriginateAccepted, OriginateVanishes, OriginateRefused,
         OriginateTimesOut, env
  <2> QED BY <2>1, SentCalls
<1>3. ASSUME NEW k \in Jobs, EndCall(k)
      PROVE  call[j] = "live" /\ call'[j] \in {"answered", "unanswered"}
  BY <1>1, <1>3 DEF EndCall, TypeInv, TypeOK
<1>4. CASE call' = call
  BY <1>4
<1> QED BY <1>2, <1>3, <1>4
        DEF Next, Work, Schedule, Tick, EndTick, NextCampaign, NextSlot, Fail, FailRead, FailSave,
            FailLead, FailRetry, FailRequeue, Ingest, IngestJob, IngestLead, Charge, Save,
            ScheduleInsert, ScheduleSave, UpdateSave, Ask, StartJob, AddLead, DeleteLead,
            CreateCampaign, UpdateRead, DeleteCampaign, ScheduleRead, IngestCdr, Crash, PassTime,
            vars, env

(* The dead stay dead.                                                     *)
LEMMA DeadStays ==
  ASSUME BaseInv, [Next]_vars, NEW j \in Jobs, Dead(j)
  PROVE  Dead(j)'
<1>1. TypeInv /\ DialInv
  BY DEF BaseInv
<1>2. CASE call[j] = "unanswered"
  BY <1>2, CallMoves DEF Dead
<1>3. CASE /\ call[j] = "none" /\ ~Unclaimed(j)
           /\ \A p \in Procs : Dialling(p) => task[p].job # j
  <2>1. call'[j] = "none"
    BY <1>3, CallMoves DEF Sent, At, Dialling
  <2>2. ~Unclaimed(j)'
    <3>1. JobFate(j)
      BY <1>1, FateNext
    <3> QED BY <1>3, <3>1 DEF JobFate, Unclaimed
  <2>3. ASSUME NEW p \in Procs, task'[p].pc \in {"leadStart", "originate"}
        PROVE  task'[p].job # j
    <3>1. CASE task'[p] = task[p]
      BY <1>3, <2>3, <3>1 DEF Dialling
    <3>2. CASE task'[p] # task[p]
      <4>1. JobStep(p)
        BY <1>1, <2>3, <3>2, JobEnters DEF JobPCs, JobEntered
      <4>2. task'[p].job = task[p].job
        BY <2>3, <4>1 DEF JobStep, JobPCs
      <4>3. Claimable(task[p].job) \/ Dialling(p)
        BY <2>3, <4>1 DEF JobStep, LeadStart, At, Dialling
      <4> QED BY <1>3, <4>2, <4>3 DEF Claimable, Unclaimed
    <3> QED BY <3>1, <3>2
  <2> QED BY <2>1, <2>2, <2>3 DEF Dead, Dialling
<1> QED BY <1>2, <1>3 DEF Dead

LEMMA RetryInit == Init => RetryInv
  BY DEF Init, RetryInv, MarkingPCs, Idle, At, NoRow

LEMMA RetryNext ==
  ASSUME \A s, t \in Schedulers : s = t, "start" \notin Requests, "eslTimeout" \notin Faults
  PROVE  BaseInv /\ WorkersBarred /\ RetryInv /\ [Next]_vars => RetryInv'
<1> SUFFICES ASSUME BaseInv, WorkersBarred, RetryInv, [Next]_vars PROVE RetryInv'
  OBVIOUS
<1>1. TypeInv /\ DialInv /\ CallsOK /\ WorkersBarred'
  BY BarredNext DEF BaseInv
<1>2. ASSUME NEW p \in Procs, Dialling(p) \/ At(p, "claim")
      PROVE  p \in Schedulers /\ \A q \in Procs : Dialling(q) \/ At(q, "claim") => q = p
  BY <1>1, <1>2 DEF WorkersBarred, Dialling, At, Procs
<1>3. ASSUME NEW p \in Procs, task'[p].pc = "claim" PROVE call'[task'[p].job] = "none"
  <2>1. task'[p].job \in Jobs /\ call[task'[p].job] = "none"
    <3>1. CASE task'[p] = task[p]
      BY <1>1, <1>3, <3>1, TaskFacts DEF RetryInv, At, JobPCs
    <3>2. CASE task'[p] # task[p]
      <4>1. task'[p].job \in Jobs /\ job[task'[p].job].st = "pending"
        BY <1>1, <1>3, <3>2, JobEnters DEF JobPCs, JobEntered, JobStep
      <4> QED BY <1>1, <4>1 DEF DialInv, CallsOK, Unclaimed
    <3> QED BY <3>1, <3>2
  <2>2. ASSUME NEW q \in Procs, Sent(q) PROVE FALSE
    <3>1. p \in Schedulers /\ q \in Schedulers
      BY <1>1, <1>3, <2>2 DEF WorkersBarred, Sent, At, Procs
    <3>2. task[p].pc = "originate"
      <4>1. q = p /\ task[q].pc = "originate"
        BY <2>2, <3>1 DEF Sent, At
      <4> QED BY <4>1
    <3>3. JobStep(p) \/ JobEntered(p)
      BY <1>1, <1>3, <3>2, JobEnters DEF JobPCs
    <3> QED BY <1>3, <3>2, <3>3 DEF JobStep, JobEntered, NextSlot, At
  <2> QED BY <2>1, <2>2, CallMoves
<1>4. ASSUME NEW p \in Procs, task'[p].pc \in MarkingPCs
      PROVE  \E j \in Jobs : task'[p].job = j /\ Dead(j)'
  <2>1. ASSUME NEW j \in Jobs, task'[p].job = j, Dead(j)
        PROVE  \E k \in Jobs : task'[p].job = k /\ Dead(k)'
    BY <2>1, DeadStays
  <2>2. CASE task[p].pc \in MarkingPCs /\ task'[p].job = task[p].job
    <3>1. task[p].job \in Jobs /\ Dead(task[p].job)
      BY <1>1, <2>2, TaskFacts DEF RetryInv, MarkingPCs, JobPCs
    <3> QED BY <2>1, <2>2, <3>1
  <2>3. CASE task'[p] # task[p] /\ JobEntered(p)
    BY <1>4, <2>1, <2>3 DEF JobEntered, MarkingPCs, Dead
  <2>4. CASE JobStep(p) /\ (Claim(p) \/ OriginateRefused(p))
    <3>1. PICK j \in Jobs : j = task[p].job /\ task'[p].job = j /\ job[j].st # "none"
      BY <1>1, <1>4, <2>4, TaskFacts DEF JobStep, MarkingPCs, JobPCs
    <3>2. CASE Claim(p)
      <4>1. call[j] = "none"
        BY <3>1, <3>2 DEF Claim, RetryInv
      <4>2. ~Claimable(j)
        <5>1. Claimable(j) => Goto(p, "leadStart")
          BY <3>1, <3>2 DEF Claim
        <5> QED BY <1>1, <1>4, <5>1, GotoMoves DEF MarkingPCs
      <4>3. \A q \in Procs : ~Dialling(q)
        <5> SUFFICES ASSUME NEW q \in Procs, Dialling(q) PROVE FALSE
          OBVIOUS
        <5>1. q = p
          BY <1>2, <3>2 DEF Claim
        <5> QED BY <3>2, <5>1 DEF Claim, At, Dialling
      <4>4. Dead(j)
        BY <3>1, <4>1, <4>2, <4>3 DEF Dead, Unclaimed, Claimable
      <4> QED BY <2>1, <3>1, <4>4
    <3>3. CASE OriginateRefused(p)
      <4>1. /\ task[p].pc = "originate" /\ UNCHANGED <<call, job>>
            /\ \A q \in Procs : q # p => task'[q].pc = task[q].pc /\ task'[q].job = task[q].job
            /\ task'[p].pc = "mfRead"
        BY <1>1, <3>3, GotoMoves DEF OriginateRefused, Sent, At, db
      <4>2. call[j] = "none" /\ ~Unclaimed(j)
        BY <1>1, <3>1, <4>1 DEF DialInv, CallsOK, Dialling
      <4>3. \A q \in Procs : task'[q].pc \in {"leadStart", "originate"} => task'[q].job # j
        BY <1>1, <3>1, <4>1 DEF DialInv, Dialling
      <4>4. Dead(j)'
        BY <4>1, <4>2, <4>3 DEF Dead, Unclaimed, Dialling
      <4> QED BY <3>1, <4>4
    <3> QED BY <2>4, <3>2, <3>3
  <2>5. CASE JobStep(p) /\ Fail(p)
    <3>1. task[p].pc \in MarkingPCs
      BY <2>5 DEF Fail, FailRead, FailSave, FailLead, FailRetry, FailRequeue, At, MarkingPCs
    <3> QED BY <1>4, <2>2, <2>5, <3>1 DEF JobStep, MarkingPCs, JobPCs
  <2>6. ~OriginateTimesOut(p)
    BY DEF OriginateTimesOut
  <2>7. \/ task'[p] = task[p]
        \/ task'[p] # task[p] /\ JobEntered(p)
        \/ JobStep(p) /\ (Claim(p) \/ OriginateRefused(p) \/ Fail(p))
    <3>1. MarkingPCs \subseteq JobPCs
      BY DEF MarkingPCs, JobPCs
    <3>2. task'[p] # task[p] => JobStep(p) \/ JobEntered(p)
      BY <1>1, <1>4, <3>1, JobEnters
    <3> QED BY <1>4, <2>6, <3>2 DEF JobStep, MarkingPCs
  <2> QED BY <1>4, <2>2, <2>3, <2>4, <2>5, <2>7
<1>5. ASSUME NEW k \in Jobs, job'[k].parent # NoJob
      PROVE  \E j \in Jobs : job'[k].parent = j /\ Dead(j)'
  <2>1. JobFate(k)
    BY <1>1, FateNext
  <2>2. CASE job'[k].parent = job[k].parent
    <3>1. job[k].parent \in Jobs /\ Dead(job[k].parent)
      BY <1>1, <1>5, <2>2 DEF RetryInv, TypeInv, TypeOK, JobRow
    <3> QED BY <2>2, <3>1, DeadStays
  <2>3. ASSUME NEW p \in Procs, FailRetry(p), job'[k].parent = task[p].job
        PROVE  \E j \in Jobs : job'[k].parent = j /\ Dead(j)'
    <3>1. task[p].job \in Jobs /\ Dead(task[p].job)
      BY <1>1, <2>3, TaskFacts DEF FailRetry, At, RetryInv, MarkingPCs, JobPCs
    <3> QED BY <2>3, <3>1, DeadStays
  <2> QED BY <1>5, <2>1, <2>2, <2>3 DEF JobFate
<1> QED BY <1>3, <1>4, <1>5 DEF RetryInv, At, Dead, Unclaimed

(* With one instance, no manual starts and an event socket that answers in *)
(* time, no retry is made for a call that was answered: not when the CDR   *)
(* is posted again, not when markJobFailed races the call it gave up, and  *)
(* not after a restart.                                                    *)
THEOREM AnsweredStaySettled ==
  ASSUME \A s, t \in Schedulers : s = t, "start" \notin Requests, "eslTimeout" \notin Faults
  PROVE  Spec => []AnsweredNotRetried
<1> DEFINE Inv == BaseInv /\ WorkersBarred /\ RetryInv
<1>1. Init => Inv
  BY BaseInit, BarredInit, RetryInit
<1>2. Inv /\ [Next]_vars => Inv'
  BY BaseNext, BarredNext, RetryNext DEF BaseInv
<1>3. Inv => AnsweredNotRetried
  BY DEF RetryInv, Dead, AnsweredNotRetried
<1> QED BY <1>1, <1>2, <1>3, PTL DEF Spec

-----------------------------------------------------------------------------
(* NothingLost, for any number of instances, as long as none ends, no      *)
(* accepted originate is forgotten by FreeSWITCH and no lead or campaign   *)
(* is deleted.  Who is left to settle a job of which a row still speaks:   *)
(* a process at one of the places pcs, or its call.                        *)
Held(j, pcs) ==
  \/ \E p \in Procs : task[p].job = j /\ task[p].pc \in pcs
  \/ call[j] = "live"
  \/ Ended(j) /\ j \notin cdrs

SlotPCs == {"leadStart", "originate", "mfRead", "mfSave", "cdrJob"}
LeadPCs == {"originate", "mfRead", "mfSave", "mfLead", "cdrJob", "cdrLead"}

SlotKept == \A j \in Jobs : job[j].st = "dialing" => Held(j, SlotPCs)

LeadKept ==
  \A l \in Leads : lead[l].st = "in_progress" =>
    \E j \in Jobs : job[j].st # "none" /\ job[j].lead = l /\ Held(j, LeadPCs)

RetryKept == RetryOwed /\ \A k \in Jobs : job[k].parent # NoJob => job[k].st # "none"

NoneGone == \A j \in Jobs : job[j].st # "gone"

LostInv == NoneGone /\ SlotKept /\ LeadKept /\ RetryKept

LEMMA LostInit == Init => LostInv
  BY DEF Init, LostInv, NoneGone, SlotKept, LeadKept, RetryKept, RetryOwed, NoRow, NoJob

LEMMA GoneNext ==
  ASSUME TypeInv, NoneGone, [Next]_vars, ~DeletesAsked
  PROVE  NoneGone'
  BY FateNext DEF NoneGone, JobFate

(* The CDR of an ended call is taken up by the request that saves it.      *)
LEMMA CdrsGrow ==
  ASSUME TypeInv, [Next]_vars, NEW j \in Jobs, j \notin cdrs, j \in cdrs'
  PROVE  \E w \in Workers :
           /\ task'[w].job = j
           /\ task'[w].pc \in {"cdrJob", "mfRead"}
<1>1. PICK w \in Workers, k \in Jobs : IngestCdr(w, k)
  BY DEF Next, Work, Dial, Claim, LeadStart, OriginateAccepted, OriginateVanishes,
         OriginateRefused, OriginateTimesOut, Sent, Schedule, Tick, EndTick, NextCampaign,
         NextSlot, Fail, FailRead, FailSave, FailLead, FailRetry, FailRequeue, Ingest, IngestJob,
         IngestLead, Charge, Save, ScheduleInsert, ScheduleSave, UpdateSave, Ask, StartJob,
         AddLead, DeleteLead, CreateCampaign, UpdateRead, DeleteCampaign, ScheduleRead, EndCall,
         Crash, PassTime, vars, db
<1>2. /\ cdrs' = cdrs \cup {k}
      /\ \E pc \in {"cdrJob", "mfRead"} :
           task' = [task EXCEPT ![w] = [pc |-> pc, job |-> k, ret |-> "ingest"]]
  BY <1>1 DEF IngestCdr
<1> QED BY <1>2 DEF TypeInv, TypeOK, Procs

(* The call of a job holds it from its first ring to the save of its CDR.  *)
LEMMA CallHolds ==
  ASSUME BaseInv, [Next]_vars, NEW j \in Jobs, NEW pcs, {"cdrJob", "mfRead"} \subseteq pcs,
         \/ call[j] = "live"
         \/ Ended(j) /\ j \notin cdrs
  PROVE  Held(j, pcs)'
<1>1. TypeInv /\ CallsOK
  BY DEF BaseInv
<1>2. j \notin cdrs
  BY <1>1 DEF CallsOK, Ended
<1>3. call'[j] = "live" \/ call'[j] \in {"answered", "unanswered"}
  BY CallMoves DEF Ended
<1>4. CASE j \in cdrs'
  <2>1. PICK w \in Workers : task'[w].job = j /\ task'[w].pc \in {"cdrJob", "mfRead"}
    BY <1>1, <1>2, <1>4, CdrsGrow
  <2> QED BY <2>1 DEF Held, Procs
<1>5. CASE j \notin cdrs'
  BY <1>3, <1>5 DEF Held, Ended
<1> QED BY <1>4, <1>5

(* A process at work on a job, its instance staying up, makes the next     *)
(* step of that work.                                                      *)
LEMMA HolderMoves ==
  ASSUME TypeInv, [Next]_vars, "crash" \notin Faults, NEW p \in Procs, task[p].pc \in JobPCs,
         task'[p] # task[p]
  PROVE  Dial(p) \/ Fail(p) \/ (p \in Workers /\ Ingest(p))
<1>1. ASSUME NEW h PROVE ~Crash(h)
  BY DEF Crash
<1>2. ASSUME p \in Schedulers, Schedule(p) PROVE FALSE
  BY <1>2 DEF Schedule, Tick, EndTick, NextCampaign, NextSlot, At, JobPCs
<1>3. ASSUME p \in Workers, Save(p) PROVE FALSE
  BY <1>3 DEF Save, ScheduleInsert, ScheduleSave, UpdateSave, At, JobPCs
<1>4. ASSUME p \in Workers, Ask(p) \/ \E j \in Jobs : IngestCdr(p, j) PROVE FALSE
  BY <1>4 DEF Ask, StartJob, AddLead, DeleteLead, CreateCampaign, UpdateRead, DeleteCampaign,
              ScheduleRead, Request, IngestCdr, At, JobPCs
<1> QED BY <1>1, <1>2, <1>3, <1>4, Moved

(* The originate command leaves the job with its call or with              *)
(* markJobFailed.                                                          *)
LEMMA SentHolds ==
  ASSUME BaseInv, "bgFail" \notin Faults, NEW p \in Procs, Dial(p), task[p].pc = "originate",
         NEW j \in Jobs, task[p].job = j, NEW pcs, "mfRead" \in pcs
  PROVE  Held(j, pcs)'
<1>1. TypeInv
  BY DEF BaseInv
<1>2. OriginateAccepted(p) \/ OriginateRefused(p) \/ OriginateTimesOut(p)
  BY DEF Dial, Claim, LeadStart, OriginateVanishes, At
<1>3. CASE OriginateAccepted(p)
  <2>1. call[j] = "none"
    BY <1>3, SentCalls DEF OriginateAccepted
  <2>2. call' = [call EXCEPT ![j] = IF @ = "none" THEN "live" ELSE @]
    BY <1>3 DEF OriginateAccepted, CallStarts
  <2>3. call'[j] = "live"
    BY <1>1, <2>1, <2>2 DEF TypeInv, TypeOK
  <2> QED BY <2>3 DEF Held
<1>4. CASE OriginateRefused(p) \/ OriginateTimesOut(p)
  <2>1. Goto(p, "mfRead")
    BY <1>4 DEF OriginateRefused, OriginateTimesOut
  <2>2. task'[p].pc = "mfRead" /\ task'[p].job = j
    BY <1>1, <2>1, GotoMoves
  <2> QED BY <2>2 DEF Held
<1> QED BY <1>2, <1>3, <1>4

(* Who holds a slot goes on holding it until the job is settled.           *)
LEMMA SlotHolds ==
  ASSUME BaseInv, [Next]_vars, "crash" \notin Faults, "bgFail" \notin Faults,
         NEW p \in Procs, task[p].pc \in SlotPCs,
         NEW j \in Jobs, task[p].job = j, job[j].st = "dialing"
  PROVE  job'[j].st # "dialing" \/ Held(j, SlotPCs)'
<1>1. TypeInv /\ task[p].pc \in JobPCs /\ JobExists(j) /\ job[j].st # "none"
  BY DEF BaseInv, SlotPCs, JobPCs, JobExists, Exists
<1>2. CASE task'[p] = task[p]
  BY <1>2 DEF Held
<1>3. CASE Goto(p, "originate") \/ Goto(p, "mfSave")
  <2>1. task'[p].pc \in SlotPCs /\ task'[p].job = j
    BY <1>1, <1>3, GotoMoves DEF SlotPCs
  <2> QED BY <2>1 DEF Held
<1>4. CASE Dial(p)
  <2>1. CASE task[p].pc = "leadStart"
    <3>1. LeadStart(p)
      BY <1>4, <2>1 DEF Dial, Claim, OriginateAccepted, OriginateVanishes, OriginateRefused,
           OriginateTimesOut, Sent, At
    <3> QED BY <1>3, <3>1 DEF LeadStart
  <2>2. CASE task[p].pc = "originate"
    BY <1>4, <2>2, SentHolds DEF SlotPCs
  <2> QED BY <1>4, <2>1, <2>2
          DEF Dial, Claim, LeadStart, OriginateAccepted, OriginateVanishes, OriginateRefused,
              OriginateTimesOut, Sent, At, SlotPCs
<1>5. CASE Fail(p)
  <2>1. FailRead(p) \/ FailSave(p)
    BY <1>5 DEF Fail, FailRead, FailSave, FailLead, FailRetry, FailRequeue, At, SlotPCs
  <2>2. CASE FailRead(p)
    BY <1>1, <1>3, <2>2 DEF FailRead
  <2>3. CASE FailSave(p)
    <3>1. job' = [job EXCEPT ![j].st = "failed"]
      BY <1>1, <2>3 DEF FailSave
    <3>2. job'[j].st = "failed"
      BY <1>1, <3>1 DEF TypeInv, TypeOK, JobRow
    <3> QED BY <3>2
  <2> QED BY <2>1, <2>2, <2>3
<1>6. CASE Ingest(p)
  <2>1. IngestJob(p)
    BY <1>6 DEF Ingest, IngestJob, IngestLead, Charge, At, SlotPCs
  <2>2. job' = [job EXCEPT ![j].st = "completed"]
    BY <1>1, <2>1 DEF IngestJob
  <2>3. job'[j].st = "completed"
    BY <1>1, <2>2 DEF TypeInv, TypeOK, JobRow
  <2> QED BY <2>3
<1> QED BY <1>1, <1>2, <1>4, <1>5, <1>6, HolderMoves

LEMMA SlotNext ==
  ASSUME "crash" \notin Faults, "bgFail" \notin Faults
  PROVE  BaseInv /\ SlotKept /\ [Next]_vars => SlotKept'
<1> SUFFICES ASSUME BaseInv, SlotKept, [Next]_vars, NEW j \in Jobs, job'[j].st = "dialing"
    PROVE  Held(j, SlotPCs)'
  BY DEF SlotKept
<1>1. TypeInv
  BY DEF BaseInv
<1>2. CASE job[j].st = "dialing"
  <2>1. CASE call[j] = "live" \/ (Ended(j) /\ j \notin cdrs)
    BY <2>1, CallHolds DEF SlotPCs
  <2>2. ASSUME NEW p \in Procs, task[p].job = j, task[p].pc \in SlotPCs
        PROVE  Held(j, SlotPCs)'
    BY <1>2, <2>2, SlotHolds
  <2> QED BY <1>2, <2>1, <2>2 DEF SlotKept, Held
<1>3. CASE job[j].st # "dialing"
  <2>1. PICK p \in Procs : Claim(p) /\ task[p].job = j /\ job[j].st = "pending"
    BY <1>1, <1>3, FateNext DEF JobFate
  <2>2. Goto(p, "leadStart")
    BY <2>1 DEF Claim, Claimable
  <2>3. task'[p].pc = "leadStart" /\ task'[p].job = j
    BY <1>1, <2>1, <2>2, GotoMoves
  <2> QED BY <2>3 DEF Held, SlotPCs
<1> QED BY <1>2, <1>3

(* A lead is shown as in progress by the process about to dial it.         *)
LEMMA LeadTaken ==
  ASSUME TypeInv, [Next]_vars, NEW l \in Leads,
         lead'[l].st = "in_progress", lead[l].st # "in_progress"
  PROVE  \E p \in Procs : LeadStart(p) /\ job[task[p].job].lead = l
<1>1. ASSUME NEW m, NEW st, SetLead(m, st), lead' # lead
      PROVE  m = l /\ st = "in_progress"
  BY <1>1 DEF SetLead, TypeInv, TypeOK, LeadRow
<1>2. ASSUME NEW p \in Procs, Dial(p) \/ Fail(p) \/ Ingest(p)
      PROVE  LeadStart(p) /\ job[task[p].job].lead = l
  BY <1>1, <1>2 DEF Dial, Claim, LeadStart, OriginateAccepted, OriginateVanishes,
       OriginateRefused, OriginateTimesOut, Sent, Fail, FailRead, FailSave, FailLead, FailRetry,
       FailRequeue, Ingest, IngestJob, IngestLead, Charge, db
<1>3. ASSUME NEW w \in Workers, Save(w) PROVE FALSE
  BY <1>3 DEF Save, ScheduleInsert, ScheduleSave, UpdateSave
<1>4. ASSUME NEW w \in Workers, Ask(w) PROVE FALSE
  <2>1. lead' = lead \/ (\E ls : Without(ls)) \/ (\E m \in Leads : lead' = [lead EXCEPT ![m].st = "pending"])
    BY <1>4 DEF Ask, StartJob, AddLead, DeleteLead, CreateCampaign, UpdateRead, DeleteCampaign,
                ScheduleRead, db
  <2>2. CASE \E ls : Without(ls)
    BY <2>2 DEF Without, TypeInv, TypeOK, LeadRow
  <2>3. CASE \E m \in Leads : lead' = [lead EXCEPT ![m].st = "pending"]
    BY <2>3 DEF TypeInv, TypeOK, LeadRow
  <2> QED BY <2>1, <2>2, <2>3
<1>5. CASE lead' = lead
  BY <1>5
<1> QED BY <1>2, <1>3, <1>4, <1>5
        DEF Next, Work, Schedule, Tick, EndTick, NextCampaign, NextSlot, IngestCdr, EndCall,
            Crash, PassTime, vars, db

(* Who holds a lead goes on holding it until the lead is settled.          *)
LEMMA LeadHolds ==
  ASSUME BaseInv, RowsInv, [Next]_vars, "crash" \notin Faults, "bgFail" \notin Faults,
         NEW p \in Procs, task[p].pc \in LeadPCs,
         NEW j \in Jobs, task[p].job = j, JobExists(j), NEW l \in Leads, job[j].lead = l
  PROVE  lead'[l].st # "in_progress" \/ Held(j, LeadPCs)'
<1>1. TypeInv /\ task[p].pc \in JobPCs /\ LeadExists(l)
  BY DEF BaseInv, LeadPCs, JobPCs, RowsInv, ForeignKeys
<1>2. CASE task'[p] = task[p]
  BY <1>2 DEF Held
<1>3. ASSUME \E pc \in LeadPCs : Goto(p, pc) PROVE Held(j, LeadPCs)'
  <2>1. task'[p].pc \in LeadPCs /\ task'[p].job = j
    BY <1>1, <1>3, GotoMoves
  <2> QED BY <2>1 DEF Held
<1>4. ASSUME NEW st \in {"completed", "failed"}, SetLead(l, st) PROVE lead'[l].st # "in_progress"
  BY <1>1, <1>4 DEF SetLead, TypeInv, TypeOK, LeadRow
<1>5. CASE Dial(p)
  <2>1. task[p].pc = "originate"
    BY <1>5 DEF Dial, Claim, LeadStart, OriginateAccepted, OriginateVanishes, OriginateRefused,
           OriginateTimesOut, Sent, At, LeadPCs
  <2> QED BY <1>5, <2>1, SentHolds DEF LeadPCs
<1>6. CASE Fail(p)
  <2>1. CASE FailRead(p) \/ FailSave(p)
    <3>1. Goto(p, "mfSave") \/ Goto(p, "mfLead")
      BY <2>1 DEF FailRead, FailSave
    <3> QED BY <1>3, <3>1 DEF LeadPCs
  <2>2. CASE FailLead(p)
    BY <1>4, <2>2 DEF FailLead
  <2> QED BY <1>6, <2>1, <2>2 DEF Fail, FailRetry, FailRequeue, At, LeadPCs
<1>7. CASE Ingest(p)
  <2>1. CASE IngestJob(p)
    BY <1>3, <2>1 DEF IngestJob, LeadPCs
  <2>2. CASE IngestLead(p)
    BY <1>4, <2>2 DEF IngestLead
  <2> QED BY <1>7, <2>1, <2>2 DEF Ingest, Charge, At, LeadPCs
<1> QED BY <1>1, <1>2, <1>5, <1>6, <1>7, HolderMoves

LEMMA LeadNext ==
  ASSUME "crash" \notin Faults, "bgFail" \notin Faults
  PROVE  BaseInv /\ RowsInv /\ NoneGone /\ LeadKept /\ [Next]_vars => LeadKept'
<1> SUFFICES ASSUME BaseInv, RowsInv, NoneGone, LeadKept, [Next]_vars,
                    NEW l \in Leads, lead'[l].st = "in_progress"
    PROVE  \E j \in Jobs : job'[j].st # "none" /\ job'[j].lead = l /\ Held(j, LeadPCs)'
  BY DEF LeadKept
<1>1. TypeInv
  BY DEF BaseInv
<1>2. \A j \in Jobs : job[j].st # "none" =>
        JobExists(j) /\ job'[j].st # "none" /\ job'[j].lead = job[j].lead
  <2>1. \A j \in Jobs : job[j].st # "none" => JobExists(j)
    BY <1>1 DEF NoneGone, JobExists, Exists, TypeInv, TypeOK, JobRow
  <2> QED BY <1>1, <2>1, FateNext DEF JobFate
<1>3. CASE lead[l].st = "in_progress"
  <2>1. PICK j \in Jobs : job[j].st # "none" /\ job[j].lead = l /\ Held(j, LeadPCs)
    BY <1>3 DEF LeadKept
  <2>2. CASE call[j] = "live" \/ (Ended(j) /\ j \notin cdrs)
    <3>1. Held(j, LeadPCs)'
      BY <2>2, CallHolds DEF LeadPCs
    <3> QED BY <1>2, <2>1, <3>1
  <2>3. ASSUME NEW p \in Procs, task[p].job = j, task[p].pc \in LeadPCs
        PROVE  Held(j, LeadPCs)'
    BY <1>2, <2>1, <2>3, LeadHolds
  <2> QED BY <1>2, <2>1, <2>2, <2>3 DEF Held
<1>4. CASE lead[l].st # "in_progress"
  <2>1. PICK p \in Procs : LeadStart(p) /\ job[task[p].job].lead = l
    BY <1>1, <1>4, LeadTaken
  <2>2. PICK j \in Jobs : j = task[p].job /\ job[j].st # "none"
    BY <1>1, <2>1, TaskFacts DEF LeadStart, At, JobPCs
  <2>3. task'[p].pc = "originate" /\ task'[p].job = j
    BY <1>1, <2>1, <2>2, GotoMoves DEF LeadStart
  <2>4. Held(j, LeadPCs)'
    BY <2>3 DEF Held, LeadPCs
  <2> QED BY <1>2, <2>1, <2>2, <2>4
<1> QED BY <1>3, <1>4

(* A failed job has its retry, or markJobFailed is on its way to make it.  *)
LEMMA OwedNext ==
  ASSUME "crash" \notin Faults
  PROVE  BaseInv /\ RowsInv /\ NoneGone /\ RetryKept /\ [Next]_vars => RetryKept'
<1> SUFFICES ASSUME BaseInv, RowsInv, NoneGone, RetryKept, [Next]_vars PROVE RetryKept'
  OBVIOUS
<1>1. TypeInv
  BY DEF BaseInv
<1>2. \A j \in Jobs : JobFate(j)
  BY <1>1, FateNext
<1>3. \A k \in Jobs : job[k].parent # NoJob => job'[k].parent = job[k].parent
  BY <1>2 DEF JobFate, RetryKept
<1>4. \A k \in Jobs : job'[k].parent # NoJob => job'[k].st # "none"
  BY <1>2 DEF JobFate, RetryKept
<1>5. \A j \in Jobs : job[j].st # "none" => JobExists(j)
  BY <1>1 DEF NoneGone, JobExists, Exists, TypeInv, TypeOK, JobRow
<1>6. ASSUME NEW j \in Jobs, job'[j].st = "failed", MayRetry(job'[j].attempt)
      PROVE  \/ \E k \in Jobs : job'[k].parent = j
             \/ \E p \in Procs : task'[p].job = j /\ task'[p].pc \in {"mfLead", "mfRetry"}
  <2>1. CASE job'[j].st = job[j].st /\ job'[j].attempt = job[j].attempt
    <3>1. JobExists(j)
      BY <1>6, <2>1 DEF JobExists, Exists
    <3>2. ASSUME NEW k \in Jobs, job[k].parent = j PROVE job'[k].parent = j
      BY <1>3, <3>2, BoundsAssumption DEF NoJob, Jobs
    <3>3. ASSUME NEW p \in Procs, task[p].job = j, task[p].pc \in {"mfLead", "mfRetry"},
                 task'[p] # task[p]
          PROVE  \/ \E k \in Jobs : job'[k].parent = j
                 \/ task'[p].job = j /\ task'[p].pc \in {"mfLead", "mfRetry"}
      <4>1. FailLead(p) \/ FailRetry(p)
        <5>1. Dial(p) \/ Fail(p) \/ (p \in Workers /\ Ingest(p))
          BY <1>1, <3>3, HolderMoves DEF JobPCs
        <5> QED BY <3>3, <5>1
                DEF Dial, Claim, LeadStart, OriginateAccepted, OriginateVanishes,
                    OriginateRefused, OriginateTimesOut, Sent, Fail, FailRead, FailSave,
                    FailRequeue, Ingest, IngestJob, IngestLead, Charge, At
      <4>2. CASE FailLead(p)
        <5>1. Goto(p, "mfRetry")
          BY <1>6, <2>1, <3>3, <4>2 DEF FailLead
        <5> QED BY <1>1, <3>3, <5>1, GotoMoves
      <4>3. CASE FailRetry(p)
        <5>1. LeadExists(job[j].lead)
          BY <3>1 DEF RowsInv, ForeignKeys
        <5>2. PICK row : row.parent = j /\ job' = [job EXCEPT ![nextJob] = row] /\ nextJob <= MaxJobs
          <6>1. /\ nextJob <= MaxJobs
                /\ job' = [job EXCEPT ![nextJob] =
                             NewJob(job[j].lead, job[j].attempt + 1, clock + RetryDelay, j)]
            BY <3>3, <4>3, <5>1 DEF FailRetry
          <6> QED BY <6>1 DEF NewJob
        <5>3. nextJob \in Jobs
          BY <1>1, <5>2, BoundsAssumption DEF TypeInv, TypeOK, Jobs
        <5>4. job'[nextJob].parent = j
          BY <1>1, <5>2, <5>3 DEF TypeInv, TypeOK
        <5> QED BY <5>3, <5>4
      <4> QED BY <4>1, <4>2, <4>3
    <3> QED BY <1>6, <2>1, <3>2, <3>3 DEF RetryKept, RetryOwed
  <2>2. ASSUME NEW p \in Procs, FailSave(p), task[p].job = j
        PROVE  task'[p].job = j /\ task'[p].pc = "mfLead"
    <3>1. job[j].st # "none"
      BY <1>1, <2>2, TaskFacts DEF FailSave, At, JobPCs
    <3>2. Goto(p, "mfLead")
      BY <1>5, <2>2, <3>1 DEF FailSave
    <3> QED BY <1>1, <2>2, <3>2, GotoMoves
  <2> QED BY <1>2, <1>6, <2>1, <2>2 DEF JobFate
<1> QED BY <1>4, <1>6 DEF RetryKept, RetryOwed

(* As long as no instance ends, FreeSWITCH makes every call it accepts and *)
(* nothing is deleted, nothing is lost: every slot taken is freed by       *)
(* somebody, every lead shown as in progress has somebody to settle it,    *)
(* and every failed attempt has the retry it is owed.  This holds for any  *)
(* number of instances and manual starts and with a slow event socket.     *)
THEOREM SlotsAndLeadsSettle ==
  ASSUME "crash" \notin Faults, "bgFail" \notin Faults,
         "deleteLead" \notin Requests, "deleteCampaign" \notin Requests
  PROVE  Spec => []NothingLost
<1> DEFINE Inv == BaseInv /\ RowsInv /\ LostInv
<1>1. Init => Inv
  BY BaseInit, RowsInit, LostInit
<1>2. Inv /\ [Next]_vars => Inv'
  BY BaseNext, RowsNext, GoneNext, SlotNext, LeadNext, OwedNext DEF BaseInv, LostInv, DeletesAsked
<1>3. Inv => NothingLost
  BY DEF LostInv, SlotKept, LeadKept, RetryKept, Held, InProgress, NothingLost, NoLostSlot,
         NoStuckLead
<1> QED BY <1>1, <1>2, <1>3, PTL DEF Spec
=============================================================================
