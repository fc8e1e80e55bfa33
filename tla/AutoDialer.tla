----------------------------- MODULE AutoDialer -----------------------------
(***************************************************************************)
(* The outbound auto dialer: AutoDialerService, its scheduler, the         *)
(* campaign, lead, job and CDR tables they share, and the telephone calls  *)
(* FreeSWITCH makes for them.                                              *)
(*                                                                         *)
(* Every instance of the Nest application runs one scheduler (a timer      *)
(* callback guarded against itself by isRunning) and serves HTTP requests; *)
(* a process here is one scheduler or one request in flight.  A step of a  *)
(* process is the code between two awaits, except that a read whose result *)
(* the next statement checks again in the database is joined to it.        *)
(*                                                                         *)
(* A repository `update` or `delete` is atomic and ignores a missing row.  *)
(* A repository `save` writes the whole entity the caller read earlier: it *)
(* overwrites what others wrote since, and inserts the row anew when it    *)
(* has been deleted, if the rows it refers to are still there.             *)
(***************************************************************************)
EXTENDS Naturals, FiniteSets

CONSTANTS
  Schedulers,      \* one per application instance
  Workers,         \* HTTP requests that can be in flight together
  HostOf,          \* the instance a process runs in
  Campaigns,
  Leads,           \* numbered in the order they were imported (createdAt)
  CampaignOf,      \* the campaign of a lead
  MaxRetries,      \* campaign.maxRetries
  RetryDelay,      \* campaign.retryDelaySeconds, in clock ticks
  Limits,          \* values of maxConcurrentCalls the clients use
  Billable,        \* the call outcomes with a positive cost in the tenant's tariff
  OpenTimes,       \* the times isWithinCallWindow lets a campaign dial
  Faults,          \* what may go wrong: "crash", "bgFail", "eslTimeout"
  Requests,        \* the kinds of administrative request made
  InitCampaigns,   \* the campaign table at the start
  InitLeads,       \* the leads already imported at the start
  MaxJobs,         \* bound: job rows ever created
  MaxTime,         \* bound: the last clock value
  MaxRequests,     \* bound: administrative requests
  MaxPosts         \* bound: times the CDR of one call is posted

Procs  == Schedulers \cup Workers
Jobs   == 1 .. MaxJobs
Times  == 0 .. MaxTime
NoJob  == 0

ASSUME BoundsAssumption ==
  /\ MaxJobs \in Nat /\ MaxTime \in Nat /\ MaxRequests \in Nat /\ MaxPosts \in Nat
  /\ MaxRetries \in Nat /\ RetryDelay \in Nat
ASSUME LeadsAssumption ==
  Leads \subseteq Nat /\ IsFiniteSet(Leads) /\ CampaignOf \in [Leads -> Campaigns]
ASSUME ProcsAssumption == Schedulers \cap Workers = {}
ASSUME LimitsAssumption == Limits \subseteq Nat

(* Only "running" matters to the scheduler: "paused" stands for every      *)
(* other status (draft, paused, completed, archived).                      *)
CampaignRow == [st : {"absent", "running", "paused", "gone"}, limit : Nat]
LeadRow     == [st : {"absent", "pending", "scheduled", "in_progress",
                      "completed", "failed", "gone"},
                attempts : Nat]
JobRow      == [st : {"none", "pending", "dialing", "completed", "failed", "gone"},
                lead : Leads \cup {NoJob}, attempt : Nat, at : Times,
                born : Nat, parent : Jobs \cup {NoJob}]

FormRow ==
  [kind : {"none"}]
    \cup [kind : {"schedule"}, id : Campaigns, at : Times,
          leads : SUBSET Leads, attempts : [Leads -> Nat]]
    \cup [kind : {"update"}, id : Campaigns, row : CampaignRow]

JobPCs == {"claim", "leadStart", "originate",
           "mfRead", "mfSave", "mfLead", "mfRetry", "mfRequeue",
           "cdrJob", "cdrLead", "charge"}

PCs == JobPCs \cup {"idle", "campaign", "slot", "schInsert", "schSave", "updSave"}

TaskRow == [pc : PCs, job : Jobs \cup {NoJob}, ret : {"none", "dial", "slot", "ingest"}]
LoopRow == [todo : SUBSET [id : Campaigns, limit : Nat], now : Times,
            cur : SUBSET Campaigns, slots : Nat]

NoRow == [st |-> "none", lead |-> NoJob, attempt |-> 0, at |-> 0,
          born |-> 0, parent |-> NoJob]

ASSUME InitAssumption ==
  /\ InitCampaigns \in [Campaigns -> CampaignRow]
  /\ InitLeads \subseteq Leads
  /\ \A l \in InitLeads : InitCampaigns[CampaignOf[l]].st \in {"running", "paused"}

VARIABLES
  camp,      \* auto_dialer_campaigns
  lead,      \* auto_dialer_leads
  job,       \* auto_dialer_jobs; `parent` is the job a retry was made for
  nextJob,   \* the id of the next job row
  cdrs,      \* the jobs whose call has a row in auto_dialer_cdr
  call,      \* FreeSWITCH: the call whose origination_uuid is the job id
  posts,     \* how often the CDR of a call was posted
  clock,
  requests,  \* administrative requests made
  loop,      \* the locals of dispatchJobs
  task,      \* where a process stands in startJobInternal, markJobFailed, ingestCdr
  form,      \* what a request read before it saves
  dials,     \* history: originate commands sent for a job
  charged    \* history: prepaid charges taken for a job

db   == <<camp, lead, job, nextJob, cdrs>>
env  == <<call, posts, clock, requests>>
mem  == <<loop, task, form>>
hist == <<dials, charged>>
vars == <<db, env, mem, hist>>

Idle   == [pc |-> "idle", job |-> NoJob, ret |-> "none"]
NoLoop == [todo |-> {}, now |-> 0, cur |-> {}, slots |-> 0]
NoForm == [kind |-> "none"]

Min2(a, b) == IF a < b THEN a ELSE b

Exists(row)      == row.st \notin {"none", "absent", "gone"}
LeadExists(l)    == l \in Leads /\ Exists(lead[l])
CampaignExists(c) == Exists(camp[c])
JobExists(j)     == Exists(job[j])
JobsOf(c)        == {j \in Jobs : JobExists(j) /\ CampaignOf[job[j].lead] = c}
LeadsOf(c)       == {l \in Leads : LeadExists(l) /\ CampaignOf[l] = c}
Dialing(c)       == {j \in JobsOf(c) : job[j].st = "dialing"}

Init ==
  /\ camp = InitCampaigns
  /\ lead = [l \in Leads |-> [st |-> IF l \in InitLeads THEN "pending" ELSE "absent",
                              attempts |-> 0]]
  /\ job = [j \in Jobs |-> NoRow]
  /\ nextJob = 1
  /\ cdrs = {}
  /\ call = [j \in Jobs |-> "none"]
  /\ posts = [j \in Jobs |-> 0]
  /\ clock = 0
  /\ requests = 0
  /\ loop = [s \in Schedulers |-> NoLoop]
  /\ task = [p \in Procs |-> Idle]
  /\ form = [w \in Workers |-> NoForm]
  /\ dials = [j \in Jobs |-> 0]
  /\ charged = [j \in Jobs |-> 0]

-----------------------------------------------------------------------------
(* Control: where a process goes next.                                     *)

At(p, pc)   == task[p].pc = pc
Goto(p, pc) == task' = [task EXCEPT ![p].pc = pc]
Finish(p)   == task' = [task EXCEPT ![p] = Idle]

(* markJobFailed has three callers: the catch of startJobInternal          *)
(* ("dial"), which rethrows; the catch of dispatchJobs ("slot"), which     *)
(* goes on to the next slot; and ingestCdr ("ingest").                     *)
Rethrow(p) ==
  IF p \in Schedulers
  THEN [pc |-> "mfRead", job |-> task[p].job, ret |-> "slot"]
  ELSE Idle

Return(p) ==
  task' = [task EXCEPT ![p] =
             CASE task[p].ret = "dial"   -> Rethrow(p)
               [] task[p].ret = "slot"   -> [Idle EXCEPT !.pc = "slot"]
               [] task[p].ret = "ingest" -> [@ EXCEPT !.pc = "charge"]]

Throw(p) ==
  task' = [task EXCEPT ![p] =
             CASE task[p].ret = "dial"   -> Rethrow(p)
               [] task[p].ret = "slot"   -> [Idle EXCEPT !.pc = "campaign"]
               [] task[p].ret = "ingest" -> Idle]

-----------------------------------------------------------------------------
(* AutoDialerSchedulerService.                                             *)

(* The timer fires while isRunning is false; the running campaigns are     *)
(* read once, with their limits.                                           *)
Tick(s) ==
  /\ At(s, "idle")
  /\ loop' = [loop EXCEPT ![s] =
       [todo  |-> {[id |-> c, limit |-> camp[c].limit] :
                     c \in {d \in Campaigns : camp[d].st = "running"}},
        now   |-> clock,
        cur   |-> {},
        slots |-> 0]]
  /\ Goto(s, "campaign")
  /\ UNCHANGED <<db, env, form, hist>>

(* Variant: an early return that leaves isRunning set.                     *)
EndTickStaysRunning(s) ==
  /\ At(s, "campaign")
  /\ loop[s].todo = {}
  /\ UNCHANGED vars

(* End of the loop over campaigns: isRunning is reset in the finally.      *)
EndTick(s) ==
  /\ At(s, "campaign")
  /\ loop[s].todo = {}
  /\ loop' = [loop EXCEPT ![s] = NoLoop]
  /\ Finish(s)
  /\ UNCHANGED <<db, env, form, hist>>

(* Variant: the jobs already dialling are not counted.                     *)
CapacityIgnoresActive(c, limit) == limit

Capacity(c, limit) ==
  LET active == Cardinality(Dialing(c))
  IN  IF active < limit THEN limit - active ELSE 0

(* The next campaign of the tick, in any order (the query has no ORDER BY):*)
(* skipped outside its call window or when no capacity is left.            *)
NextCampaign(s) ==
  /\ At(s, "campaign")
  /\ \E c \in loop[s].todo :
       LET slots == IF loop[s].now \in OpenTimes THEN Capacity(c.id, c.limit) ELSE 0
       IN  /\ loop' = [loop EXCEPT ![s].todo  = @ \ {c},
                                   ![s].cur   = IF slots > 0 THEN {c.id} ELSE {},
                                   ![s].slots = slots]
           /\ Goto(s, IF slots > 0 THEN "slot" ELSE "campaign")
  /\ UNCHANGED <<db, env, form, hist>>

(* The due pending jobs of a campaign, and the first of them: ordered by   *)
(* scheduledAt, then createdAt (one INSERT gives its rows one createdAt).  *)
Due(c, now) == {j \in JobsOf(c) : job[j].st = "pending" /\ job[j].at <= now}

First(S) == {j \in S : \A k \in S : \/ job[j].at < job[k].at
                                    \/ job[j].at = job[k].at /\ job[j].born <= job[k].born}

(* Variant: the slots left are not tested.                                 *)
NextSlotUncounted(s) ==
  /\ At(s, "slot")
  /\ \E j \in First(UNION {Due(c, loop[s].now) : c \in loop[s].cur}) :
       task' = [task EXCEPT ![s] = [pc |-> "claim", job |-> j, ret |-> "dial"]]
  /\ loop' = [loop EXCEPT ![s].slots = @ - 1]
  /\ UNCHANGED <<db, env, form, hist>>

(* One slot of a campaign's capacity: startJobInternal is called for the   *)
(* first due job, or the campaign is left when there is none.              *)
NextSlot(s) ==
  /\ At(s, "slot")
  /\ LET due == UNION {Due(c, loop[s].now) : c \in loop[s].cur}
     IN  IF loop[s].slots > 0 /\ due # {}
         THEN \E j \in First(due) :
                /\ task' = [task EXCEPT ![s] = [pc |-> "claim", job |-> j, ret |-> "dial"]]
                /\ loop' = [loop EXCEPT ![s].slots = @ - 1]
         ELSE /\ Goto(s, "campaign")
              /\ loop' = [loop EXCEPT ![s].cur = {}, ![s].slots = 0]
  /\ UNCHANGED <<db, env, form, hist>>

-----------------------------------------------------------------------------
(* startJobInternal, run by a scheduler or by POST /jobs/:id/start.        *)

(* Variant: the UPDATE does not look at the status.                        *)
ClaimableAnyStatus(j) == JobExists(j)

(* The claim: one UPDATE that only finds a job still pending.  Losing it   *)
(* is an error like any other: the scheduler's catch marks the job failed. *)
Claimable(j) == job[j].st = "pending"

Claim(p) ==
  /\ At(p, "claim")
  /\ LET j == task[p].job
     IN  IF Claimable(j)
         THEN /\ job' = [job EXCEPT ![j].st = "dialing"]
              /\ Goto(p, "leadStart")
         ELSE /\ task' = [task EXCEPT ![p] = Rethrow(p)]
              /\ UNCHANGED job
  /\ UNCHANGED <<camp, lead, nextJob, cdrs, env, loop, form, hist>>

SetLead(l, st) ==
  lead' = IF LeadExists(l) THEN [lead EXCEPT ![l].st = st] ELSE lead

LeadStart(p) ==
  /\ At(p, "leadStart")
  /\ SetLead(job[task[p].job].lead, "in_progress")
  /\ Goto(p, "originate")
  /\ UNCHANGED <<camp, job, nextJob, cdrs, env, loop, form, hist>>

(* bgapi originate: FreeSWITCH accepts (and, with "bgFail", never makes    *)
(* the call), refuses, or (with "eslTimeout") does not answer in time,     *)
(* having started the call or not.  Anything but +OK is a failure.         *)
Sent(p) ==
  /\ At(p, "originate")
  /\ dials' = [dials EXCEPT ![task[p].job] = @ + 1]
  /\ UNCHANGED <<db, posts, clock, requests, loop, form, charged>>

CallStarts(j) == call' = [call EXCEPT ![j] = IF @ = "none" THEN "live" ELSE @]

Originated(p) ==
  task' = [task EXCEPT ![p] = IF p \in Schedulers THEN [Idle EXCEPT !.pc = "slot"] ELSE Idle]

OriginateAccepted(p) ==
  /\ Sent(p)
  /\ CallStarts(task[p].job)
  /\ Originated(p)

OriginateVanishes(p) ==
  /\ "bgFail" \in Faults
  /\ Sent(p)
  /\ Originated(p)
  /\ UNCHANGED call

(* Variant: the error of originate is swallowed.                           *)
OriginateRefusedIgnored(p) ==
  /\ Sent(p)
  /\ Originated(p)
  /\ UNCHANGED call

OriginateRefused(p) ==
  /\ Sent(p)
  /\ Goto(p, "mfRead")
  /\ UNCHANGED call

OriginateTimesOut(p) ==
  /\ "eslTimeout" \in Faults
  /\ Sent(p)
  /\ CallStarts(task[p].job)
  /\ Goto(p, "mfRead")

-----------------------------------------------------------------------------
(* markJobFailed.                                                          *)

(* findOne: nothing to do for a job that is gone.                          *)
FailRead(p) ==
  /\ At(p, "mfRead")
  /\ IF JobExists(task[p].job) THEN Goto(p, "mfSave") ELSE Return(p)
  /\ UNCHANGED <<db, env, loop, form, hist>>

(* Variant: the failed job itself is put back in the queue.                *)
FailSaveRequeues(p) ==
  /\ At(p, "mfSave")
  /\ job' = [job EXCEPT ![task[p].job].st = "pending"]
  /\ Goto(p, "mfLead")
  /\ UNCHANGED <<camp, lead, nextJob, cdrs, env, loop, form, hist>>

(* save: whatever the job's status is by now, it becomes failed.  A job    *)
(* deleted since is inserted anew if its lead is (again) there; the        *)
(* foreign key makes the save throw if not.                                *)
FailSave(p) ==
  /\ At(p, "mfSave")
  /\ LET j == task[p].job
     IN  IF JobExists(j) \/ LeadExists(job[j].lead)
         THEN /\ job' = [job EXCEPT ![j].st = "failed"]
              /\ Goto(p, "mfLead")
         ELSE Throw(p) /\ UNCHANGED job
  /\ UNCHANGED <<camp, lead, nextJob, cdrs, env, loop, form, hist>>

(* The attempt after attempt a is allowed: the campaign's retry budget.    *)
MayRetry(a) == MaxRetries > 0 /\ a + 1 <= MaxRetries

FailLead(p) ==
  /\ At(p, "mfLead")
  /\ SetLead(job[task[p].job].lead, "failed")
  /\ IF MayRetry(job[task[p].job].attempt) THEN Goto(p, "mfRetry") ELSE Return(p)
  /\ UNCHANGED <<camp, job, nextJob, cdrs, env, loop, form, hist>>

NewJob(l, attempt, at, parent) ==
  [st |-> "pending", lead |-> l, attempt |-> attempt, at |-> Min2(at, MaxTime),
   born |-> nextJob, parent |-> parent]

(* The retry job, due RetryDelay from now.                                 *)
FailRetry(p) ==
  /\ At(p, "mfRetry")
  /\ LET j == task[p].job
         l == job[j].lead
     IN  IF LeadExists(l)
         THEN /\ nextJob <= MaxJobs
              /\ job' = [job EXCEPT ![nextJob] =
                           NewJob(l, job[j].attempt + 1, clock + RetryDelay, j)]
              /\ nextJob' = nextJob + 1
              /\ Goto(p, "mfRequeue")
         ELSE Throw(p) /\ UNCHANGED <<job, nextJob>>
  /\ UNCHANGED <<camp, lead, cdrs, env, loop, form, hist>>

FailRequeue(p) ==
  /\ At(p, "mfRequeue")
  /\ SetLead(job[task[p].job].lead, "pending")
  /\ Return(p)
  /\ UNCHANGED <<camp, job, nextJob, cdrs, env, loop, form, hist>>

-----------------------------------------------------------------------------
(* ingestCdr, run by POST /cdr/ingest.                                     *)

Ended(j) == call[j] \in {"answered", "unanswered"}

(* Variant: no unique index on the call's uuid.                            *)
InsertableTwice(j) == JobExists(j)

(* The CDR of an ended call is posted, possibly again.  The INSERT fails   *)
(* when the call's uuid is already there (unique index) or when the        *)
(* campaign, the lead or the job is gone (foreign keys).                   *)
Insertable(j) == j \notin cdrs /\ JobExists(j)

(* Variant: the billed seconds are not looked at.                          *)
IngestCdrAllFailed(w, j) ==
  /\ At(w, "idle") /\ Ended(j) /\ posts[j] < MaxPosts
  /\ posts' = [posts EXCEPT ![j] = @ + 1]
  /\ Insertable(j)
  /\ cdrs' = cdrs \cup {j}
  /\ task' = [task EXCEPT ![w] = [pc |-> "mfRead", job |-> j, ret |-> "ingest"]]
  /\ UNCHANGED <<camp, lead, job, nextJob, call, clock, requests, loop, form, hist>>

IngestCdr(w, j) ==
  /\ At(w, "idle")
  /\ Ended(j)
  /\ posts[j] < MaxPosts
  /\ posts' = [posts EXCEPT ![j] = @ + 1]
  /\ IF Insertable(j)
     THEN /\ cdrs' = cdrs \cup {j}
          /\ task' = [task EXCEPT ![w] =
                        [pc |-> IF call[j] = "answered" THEN "cdrJob" ELSE "mfRead",
                         job |-> j, ret |-> "ingest"]]
     ELSE UNCHANGED <<cdrs, task>>
  /\ UNCHANGED <<camp, lead, job, nextJob, call, clock, requests, loop, form, hist>>

(* Variant: an answered call does not settle its job.                      *)
IngestJobSkipped(w) ==
  /\ At(w, "cdrJob")
  /\ Goto(w, "cdrLead")
  /\ UNCHANGED <<db, env, loop, form, hist>>

IngestJob(w) ==
  /\ At(w, "cdrJob")
  /\ LET j == task[w].job
     IN  job' = IF JobExists(j) THEN [job EXCEPT ![j].st = "completed"] ELSE job
  /\ Goto(w, "cdrLead")
  /\ UNCHANGED <<camp, lead, nextJob, cdrs, env, loop, form, hist>>

IngestLead(w) ==
  /\ At(w, "cdrLead")
  /\ SetLead(job[task[w].job].lead, "completed")
  /\ Goto(w, "charge")
  /\ UNCHANGED <<camp, job, nextJob, cdrs, env, loop, form, hist>>

(* applyPrepaidCharge; the balance itself is the ledger's business.        *)
Charge(w) ==
  /\ At(w, "charge")
  /\ LET j == task[w].job
     IN  charged' = IF call[j] \in Billable THEN [charged EXCEPT ![j] = @ + 1] ELSE charged
  /\ Finish(w)
  /\ UNCHANGED <<db, env, loop, form, dials>>

-----------------------------------------------------------------------------
(* Administrative requests, MaxRequests of them.                           *)

Request(w, kind) ==
  /\ kind \in Requests
  /\ At(w, "idle")
  /\ requests < MaxRequests
  /\ requests' = requests + 1

(* startJob: POST /jobs/:id/start.                                         *)
StartJob(w, j) ==
  /\ Request(w, "start")
  /\ JobExists(j)
  /\ task' = [task EXCEPT ![w] = [pc |-> "claim", job |-> j, ret |-> "dial"]]
  /\ UNCHANGED <<db, call, posts, clock, loop, form, hist>>

(* createCampaign: a new campaign is a draft.                              *)
CreateCampaign(w, c) ==
  /\ Request(w, "create")
  /\ camp[c].st = "absent"
  /\ \E limit \in Limits : camp' = [camp EXCEPT ![c] = [st |-> "paused", limit |-> limit]]
  /\ UNCHANGED <<lead, job, nextJob, cdrs, call, posts, clock, mem, hist>>

(* addLeads, for a lead not there yet.                                     *)
AddLead(w, l) ==
  /\ Request(w, "addLeads")
  /\ CampaignExists(CampaignOf[l]) /\ lead[l].st = "absent"
  /\ lead' = [lead EXCEPT ![l].st = "pending"]
  /\ UNCHANGED <<camp, job, nextJob, cdrs, call, posts, clock, mem, hist>>

(* scheduleJobs, in three transactions: read the open leads; insert a job  *)
(* for each, all or none; save the leads as they were read.                *)
Open(c) == {l \in LeadsOf(c) : lead[l].st \in {"pending", "scheduled"}}

ScheduleRead(w, c, at) ==
  /\ Request(w, "schedule")
  /\ CampaignExists(c) /\ Open(c) # {}
  /\ form' = [form EXCEPT ![w] =
       [kind |-> "schedule", id |-> c, at |-> at,
        leads |-> Open(c), attempts |-> [l \in Leads |-> lead[l].attempts]]]
  /\ Goto(w, "schInsert")
  /\ UNCHANGED <<db, call, posts, clock, loop, hist>>

Rank(l, S) == Cardinality({m \in S : m < l})

ScheduleInsert(w) ==
  /\ At(w, "schInsert")
  /\ LET ls == form[w].leads
         idOf(l) == nextJob + Rank(l, ls)
     IN  IF \A l \in ls : LeadExists(l)
         THEN /\ nextJob + Cardinality(ls) - 1 <= MaxJobs
              /\ job' = [j \in Jobs |->
                   IF \E l \in ls : idOf(l) = j
                   THEN LET l == CHOOSE m \in ls : idOf(m) = j
                        IN  NewJob(l, form[w].attempts[l] + 1, form[w].at, NoJob)
                   ELSE job[j]]
              /\ nextJob' = nextJob + Cardinality(ls)
              /\ Goto(w, "schSave")
              /\ UNCHANGED form
         ELSE /\ Finish(w)
              /\ form' = [form EXCEPT ![w] = NoForm]
              /\ UNCHANGED <<job, nextJob>>
  /\ UNCHANGED <<camp, lead, cdrs, env, loop, hist>>

ScheduleSave(w) ==
  /\ At(w, "schSave")
  /\ lead' = IF CampaignExists(form[w].id)
             THEN [l \in Leads |-> IF l \in form[w].leads
                                   THEN [st |-> "scheduled", attempts |-> form[w].attempts[l] + 1]
                                   ELSE lead[l]]
             ELSE lead
  /\ Finish(w)
  /\ form' = [form EXCEPT ![w] = NoForm]
  /\ UNCHANGED <<camp, job, nextJob, cdrs, env, loop, hist>>

(* updateCampaign: read the row, change some columns, save all of it.      *)
UpdateRead(w, c) ==
  /\ Request(w, "update")
  /\ CampaignExists(c)
  /\ \E st \in {"running", "paused"}, limit \in Limits \cup {camp[c].limit} :
       form' = [form EXCEPT ![w] =
         [kind |-> "update", id |-> c, row |-> [st |-> st, limit |-> limit]]]
  /\ Goto(w, "updSave")
  /\ UNCHANGED <<db, call, posts, clock, loop, hist>>

UpdateSave(w) ==
  /\ At(w, "updSave")
  /\ camp' = [camp EXCEPT ![form[w].id] = form[w].row]
  /\ Finish(w)
  /\ form' = [form EXCEPT ![w] = NoForm]
  /\ UNCHANGED <<lead, job, nextJob, cdrs, env, loop, hist>>

(* Variant: the jobs of a deleted lead stay.                               *)
WithoutCascade(ls) ==
  /\ lead' = [l \in Leads |-> IF l \in ls THEN [lead[l] EXCEPT !.st = "gone"] ELSE lead[l]]
  /\ UNCHANGED job

(* Deleting a row deletes what refers to it ON DELETE CASCADE: the jobs of *)
(* a lead; the leads, jobs and CDRs of a campaign.                         *)
Without(ls) ==
  /\ lead' = [l \in Leads |-> IF l \in ls THEN [lead[l] EXCEPT !.st = "gone"] ELSE lead[l]]
  /\ job'  = [j \in Jobs |-> IF JobExists(j) /\ job[j].lead \in ls
                             THEN [job[j] EXCEPT !.st = "gone"] ELSE job[j]]

DeleteLead(w, l) ==
  /\ Request(w, "deleteLead")
  /\ LeadExists(l)
  /\ Without({l})
  /\ UNCHANGED <<camp, nextJob, cdrs, call, posts, clock, mem, hist>>

DeleteCampaign(w, c) ==
  /\ Request(w, "deleteCampaign")
  /\ CampaignExists(c)
  /\ camp' = [camp EXCEPT ![c].st = "gone"]
  /\ Without(LeadsOf(c))
  /\ cdrs' = {j \in cdrs : CampaignOf[job[j].lead] # c}
  /\ UNCHANGED <<nextJob, call, posts, clock, mem, hist>>

-----------------------------------------------------------------------------
(* FreeSWITCH, time, and the loss of an instance.                          *)

EndCall(j) ==
  /\ call[j] = "live"
  /\ \E outcome \in {"answered", "unanswered"} : call' = [call EXCEPT ![j] = outcome]
  /\ UNCHANGED <<db, posts, clock, requests, mem, hist>>

PassTime ==
  /\ clock < MaxTime
  /\ clock' = clock + 1
  /\ UNCHANGED <<db, call, posts, requests, mem, hist>>

(* The process of an instance ends: what it had in flight is forgotten.    *)
Crash(h) ==
  /\ "crash" \in Faults
  /\ \E p \in Procs : HostOf[p] = h /\ ~At(p, "idle")
  /\ task' = [p \in Procs |-> IF HostOf[p] = h THEN Idle ELSE task[p]]
  /\ loop' = [s \in Schedulers |-> IF HostOf[s] = h THEN NoLoop ELSE loop[s]]
  /\ form' = [w \in Workers |-> IF HostOf[w] = h THEN NoForm ELSE form[w]]
  /\ UNCHANGED <<db, env, hist>>

-----------------------------------------------------------------------------
Schedule(s) == Tick(s) \/ EndTick(s) \/ NextCampaign(s) \/ NextSlot(s)

Dial(p) ==
  \/ Claim(p) \/ LeadStart(p)
  \/ OriginateAccepted(p) \/ OriginateVanishes(p)
  \/ OriginateRefused(p) \/ OriginateTimesOut(p)

Fail(p) == FailRead(p) \/ FailSave(p) \/ FailLead(p) \/ FailRetry(p) \/ FailRequeue(p)

Ingest(w) == IngestJob(w) \/ IngestLead(w) \/ Charge(w)

Save(w) == ScheduleInsert(w) \/ ScheduleSave(w) \/ UpdateSave(w)

Ask(w) ==
  \/ \E j \in Jobs : StartJob(w, j)
  \/ \E l \in Leads : AddLead(w, l) \/ DeleteLead(w, l)
  \/ \E c \in Campaigns : CreateCampaign(w, c) \/ UpdateRead(w, c) \/ DeleteCampaign(w, c)
  \/ \E c \in Campaigns, at \in Times : ScheduleRead(w, c, at)

(* The steps of a process that has something to do.                        *)
Work(p) == Dial(p) \/ Fail(p) \/ (p \in Workers /\ (Ingest(p) \/ Save(p)))

Next ==
  \/ \E s \in Schedulers : Schedule(s)
  \/ \E p \in Procs : Work(p)
  \/ \E w \in Workers : Ask(w)
  \/ \E w \in Workers, j \in Jobs : IngestCdr(w, j)
  \/ \E j \in Jobs : EndCall(j)
  \/ \E h \in {HostOf[p] : p \in Procs} : Crash(h)
  \/ PassTime

Spec == Init /\ [][Next]_vars

(* Fairness.  The timer keeps firing and every await of a process that     *)
(* has something to do returns; a call ends; time passes.  Requests,       *)
(* faults and the posting of CDRs are not owed: nothing in the repository  *)
(* posts to the dialer's ingest.                                           *)
Fairness ==
  /\ \A s \in Schedulers : WF_vars(Schedule(s))
  /\ \A p \in Procs : WF_vars(Work(p))
  /\ \A j \in Jobs : WF_vars(EndCall(j))
  /\ WF_vars(PassTime)

LiveSpec == Spec /\ Fairness

-----------------------------------------------------------------------------
(* Properties.                                                             *)

(* Types: rows, processes and counters stay in their domains.              *)
TypeOK ==
  /\ camp \in [Campaigns -> CampaignRow]
  /\ lead \in [Leads -> LeadRow]
  /\ job \in [Jobs -> JobRow]
  /\ nextJob \in 1 .. MaxJobs + 1
  /\ cdrs \subseteq Jobs
  /\ call \in [Jobs -> {"none", "live", "answered", "unanswered"}]
  /\ posts \in [Jobs -> Nat]
  /\ clock \in Times
  /\ requests \in Nat
  /\ task \in [Procs -> TaskRow]
  /\ loop \in [Schedulers -> LoopRow]
  /\ form \in [Workers -> FormRow]
  /\ dials \in [Jobs -> Nat]
  /\ charged \in [Jobs -> Nat]

(* A job is dialled at most once, whatever schedulers, manual starts,      *)
(* failures and restarts do: the claim of startJobInternal.                *)
DialedOnce == \A j \in Jobs : dials[j] <= 1

(* A call is charged to the prepaid balance at most once, however often    *)
(* its CDR is posted: the order of save and charge in ingestCdr.           *)
ChargedOnce == \A j \in Jobs : charged[j] <= 1

(* The dialer implements CallOnce, as long as no campaign is deleted: its  *)
(* CDRs, which keep a second post out, would be deleted with it.           *)
Abstract == INSTANCE CallOnce WITH Jobs <- Jobs, Billable <- Billable,
                                  dials <- dials, call <- call, cdrs <- cdrs, charged <- charged
OneCallPerJob == Abstract!Spec

(* The foreign keys: a job has its lead and a lead its campaign, although  *)
(* stale saves insert deleted rows anew.                                   *)
ForeignKeys ==
  /\ \A j \in Jobs : JobExists(j) => LeadExists(job[j].lead)
  /\ \A l \in Leads : LeadExists(l) => CampaignExists(CampaignOf[l])

(* A deleted job may come back, but only as a failed one: nothing that was *)
(* deleted is ever dialled anew.                                           *)
DeletedNotRequeued ==
  [][\A j \in Jobs : job[j].st = "gone" => job'[j].st \in {"gone", "failed"}]_vars

(* dispatchJobs never has more jobs dialling than maxConcurrentCalls.      *)
CapacityRespected == \A c \in Campaigns : Cardinality(Dialing(c)) <= camp[c].limit

(* Some process, or FreeSWITCH, will still settle job j.                   *)
InProgress(j) ==
  \/ \E p \in Procs : task[p].job = j
  \/ call[j] = "live"
  \/ Ended(j) /\ j \notin cdrs

(* A dialling job, which occupies one of its campaign's slots, always has  *)
(* someone left to end it: no slot is lost for good.                       *)
NoLostSlot == \A j \in Jobs : job[j].st = "dialing" => InProgress(j)

(* A lead shown as in progress has a job somebody is still working on.     *)
NoStuckLead ==
  \A l \in Leads : lead[l].st = "in_progress" =>
    \E j \in Jobs : job[j].lead = l /\ InProgress(j)

(* A failed job within its retry budget has its retry, or markJobFailed is *)
(* about to make it.                                                       *)
RetryOwed ==
  \A j \in Jobs : job[j].st = "failed" /\ MayRetry(job[j].attempt) =>
    \/ \E k \in Jobs : job[k].parent = j
    \/ \E p \in Procs : task[p].job = j /\ task[p].pc \in {"mfLead", "mfRetry"}

(* Whatever happens to the calls, no slot, lead or retry is lost.          *)
NothingLost == NoLostSlot /\ NoStuckLead /\ RetryOwed

(* No retry is made for a call that was answered: the party would be       *)
(* rung again for a call they took.                                        *)
AnsweredNotRetried ==
  \A k \in Jobs : job[k].parent # NoJob => call[job[k].parent] # "answered"

(* FreeSWITCH never carries more calls of a campaign than                  *)
(* maxConcurrentCalls.                                                     *)
LiveCallsBounded ==
  \A c \in Campaigns :
    Cardinality({j \in Jobs : call[j] = "live" /\ CampaignOf[job[j].lead] = c})
      <= camp[c].limit

(* A lead scheduled once is rung at most 1 + maxRetries times.             *)
RetriesBounded ==
  \A l \in Leads :
    lead[l].attempts <= 1 =>
      Cardinality({j \in Jobs : job[j].lead = l /\ dials[j] > 0}) <= 1 + MaxRetries

(* What the deployment has to add: somebody posts the record of every      *)
(* ended call to the dialer's ingest, so that again and again none is      *)
(* waited for.                                                             *)
RecordsPosted == []<>(\A j \in Jobs : Ended(j) => posts[j] > 0)

(* Every pending job is eventually taken up, if the records are posted:    *)
(* without them the slots of dialled calls are never freed.                *)
PendingJobsTaken ==
  RecordsPosted => \A j \in Jobs : job[j].st = "pending" ~> job[j].st # "pending"

(* The dialer knows of the job's end: its record was posted, or its        *)
(* originate was refused and markJobFailed is under way.                   *)
EndKnown(j) ==
  posts[j] > 0 \/ \E p \in Procs : task[p].job = j /\ task[p].pc \in {"mfRead", "mfSave"}

(* A dialled job is settled, and its slot freed, once its end is known,    *)
(* through every await of ingestCdr and markJobFailed and whatever the     *)
(* scheduler does meanwhile.  Whether the end becomes known is not said.   *)
DialingJobsSettled ==
  \A j \in Jobs : (job[j].st = "dialing" /\ EndKnown(j)) ~> job[j].st # "dialing"

=============================================================================
