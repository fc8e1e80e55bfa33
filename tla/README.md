# Verification of the telephony platform

TLA+ models, TLC runs and TLAPS proofs of the multi-tenant FreeSWITCH platform
in this repository: a NestJS backend (`src/app`), a Next.js portal
(`src/portal`), a FreeSWITCH configuration (`src/freeswitch`) and an agent that
manages the firewall of the host (`src/security-agent`). The repository has no
tests of its own; what follows is written from its code.

## The system

The backend runs in one or several instances over one MySQL database (TypeORM
repositories, hardly any transactions). Its requests are JavaScript coroutines:
every `await` of a database, file or ESL call is a point where other requests of
the same instance run, and other instances run at any time. A repository
`update` or `delete` is one atomic statement. A repository `save` writes back
every column of the entity its caller read earlier, and inserts the row anew when
it has been deleted. The portal is built the same way: a component's handlers
await answers and go on with the values they closed over, while the operator
goes on clicking. These facts are behind most hazards.

| Component | State | Operations | What is hard | What makes it correct | Status |
|---|---|---|---|---|---|
| Auto dialer (`autodialer/`), call window | campaigns, leads, jobs, call records; `isRunning` of each scheduler | scheduler tick every 5 s, manual start, create/update/delete campaign, import/delete leads, schedule, CDR ingest | several schedulers, ESL time-outs, crashes between steps, repeated CDRs, stale saves | a job is rung once, charged once; slots, leads and retries are not lost; the limit and the window hold | modelled |
| Billing (`billing/`) | balance and prepaid setting, top-ups, charges | top-up, charge, their correction and deletion, settings | read-modify-write over awaits, two tables written one after the other | the balance equals the books, never below 0 | partly |
| PBX call records (`telephony/cdr*`) | `cdr_records` | `POST /fs/cdr`, lists | repeated and concurrent posts, a charge that fails, tenant and tariff guessed from variables | no record without its charge; a record is found by those who may open it | partly |
| Call costs | none | allowance, cost | rounding, two modes, two copies of the formula | an admitted call fits the balance; the copies agree | modelled |
| Directory and dialplan (`freeswitch/fs.service`) | none (reads routes, rules, menus, balance) | XML for FreeSWITCH | the tenant is found anew at every request; rows change during the call | one tenant throughout; menus reach what they name | modelled |
| FreeSWITCH management (`fs-management`) | none | ESL commands with a time-out | a time-out does not cancel the command | see the dialer, gateways, recordings | partly |
| Events and call monitor (`fs-events`, `fs-calls.gateway`) | ESL connection, snapshots and their hashes | connect, reconnect, dispatch, poll | lost connections, a hash shared by all clients | pages converge; a connection is replaced | modelled |
| Registration monitor (`fs-registrations.gateway`) | subscriptions, rooms, hashes | subscribe, push, poll, fetch | snapshots built with awaits and emitted later | pages converge | modelled |
| Security agent | nftables chain, memory, state file, fail2ban's files | ban, unban, rules, 15 s refresh, start-up | overlapping refreshes, files against kernel state, a failed listing read as empty | chain, memory and file agree in the end; a rule goes by a request that names it or as an orphan | partly |
| Agents and groups | tree of agents, groups | create, move, delete, lists | a cycle made by two concurrent moves, references across tenants | references in one tenant, parents acyclic | modelled |
| Portal users and roles; tenants and extensions; routing; IVR menus; gateways and settings | rows, XML files, FreeSWITCH's variables | create, update, delete, start-up | check then insert, part of a request refused, files and commands beside rows | limits, own tenants, numbers unique, files follow rows | modelled |
| Authentication and portal sessions | one refresh-token hash per account; cookies and local storage of a browser | login, refresh with rotation, logout, tabs | two tabs that renew together, a lost answer | a token is redeemed once; renewing throws nobody out | modelled |
| Recordings and prompts | files, objects in a bucket, rows, the storage setting | record, copy, delete, upload, remove, list, open | a file copied while written, steps that fail one by one, a setting that changes | media is kept, and found | modelled |
| Portal user interface | cells of each page, open dialogs, handlers in flight | mount, filter, page, open, save, delete | answers out of order, stale closures | lists show what was last asked, options fit the form | partly |
| Security service, AI calls, demo data, deployment | none of their own | proxies, seeds, configuration | - | - | not modelled |

They interact through the database (billing is written by the billing API, the
CDR ingest and the auto dialer), through FreeSWITCH (the dialplan and the dialer
start calls; `mod_xml_cdr` posts their records, up to four times), through a
directory shared with FreeSWITCH (recordings, prompts, gateway files) and through
ESL commands and events. The portal talks to the backend by HTTP and, for the
live pages, by socket.io.

`PROJECT.json` lists every component with its files and its status, and under
`hazards` each place where the code is hard to test, with the properties that
watch it.

## The modules

An arrow means EXTENDS.

    CallOnce <-(refinement)- AutoDialer <- MCAutoDialer
                             AutoDialer <- AutoDialerProofs
    CallWindow
    PrepaidLedger <- MCPrepaidLedger, PrepaidLedgerProofs
    BillingCost <- BillingCostProofs
    Dialplan <- CallRecords <- CallFlow (with BillingCost) <- CallFlowProofs (with BillingCostProofs)
    Recordings <- RecordingsProofs;  CallFlow + Recordings <- MCCallFlow
    SecurityAgent <- MCSecurityAgent, SecurityAgentProofs
    EslEvents <- Realtime <- MCRealtime
    Tables <- Console <- AgentsAdmin, UsersAdmin, TenantsAdmin, RoutingAdmin, NetworkAdmin,
              Listings, PortalSession = Administration <- ConsoleProofs <- SessionProofs
    PageTasks <- AgentPage, AccountPage, TenantPages, DialerPage, BillingPanel, TablePages,
              SecurityPage = ManagerPages
    Administration + ManagerPages = Portal <- MCConsole

### AutoDialer, CallOnce

A process is one scheduler (one per instance, `HostOf`) or one HTTP request.
`task` says where a process stands in `startJobInternal`, `markJobFailed` or
`ingestCdr`, `loop` holds the locals of `dispatchJobs`, `form` the rows a
request read before it saves. One action is the code between two awaits, with
one kind of exception: a read whose result is checked again in the database by
the next statement is joined to that statement (the claim of a job, the insert
of a CDR).

| Code | Actions |
|---|---|
| `onModuleInit`, `dispatchJobs` | `Tick`, `NextCampaign`, `NextSlot`, `EndTick` |
| `startJobInternal` | `Claim`, `LeadStart`, `OriginateAccepted`, `OriginateRefused`, `OriginateTimesOut`, `OriginateVanishes` |
| `markJobFailed` and the two catch blocks that call it | `FailRead`, `FailSave`, `FailLead`, `FailRetry`, `FailRequeue`, `Rethrow` |
| `ingestCdr` | `IngestCdr`, `IngestJob`, `IngestLead`, `Charge` |
| administration | `CreateCampaign`, `UpdateRead`/`UpdateSave`, `DeleteCampaign`, `AddLead`, `DeleteLead`, `ScheduleRead`/`ScheduleInsert`/`ScheduleSave`, `StartJob` |
| outside | `EndCall` (FreeSWITCH), `PassTime`, `Crash` (an instance is lost with its requests; the tables stay) |

`CallOnce` states what the dialer promises about one job (rung at most once, its
record accepted once and after the call ended, charged once if billable), with
four actions. `OneCallPerJob` is the refinement: the dialer's history and tables
under the same names.

A dialled job is settled by the record posted to `/auto-dialer/cdr/ingest`.
Nothing in the repository posts there: `xml_cdr_url` is `/fs/cdr`, so a deployment
that changes no configuration never settles a dialled job. `IngestCdr` is therefore
a step that may be taken and is never owed: no fairness makes it happen, and the
two liveness properties say what they need of the deployment (`RecordsPosted`,
`EndKnown`).

`CallWindow` is `isWithinCallWindow` with the path of a window from the client
(`HH:mm`) through the `TIME` column (`HH:MM:SS`) back to the scheduler's pattern.

### PrepaidLedger

One tenant's row of `billing_configs` (balance, prepaid), its top-ups and
charges, the records of its calls, and what administrators, the dialplan, the
dialer and the CDR ingest do to them. A worker is a request in flight; `task`
holds its kind, its next step and what it has read. `ReadBalance` and
`SaveBalance` are `adjustBalance`, used by every operation as in the code;
`SaveNewRow` and `SaveChangedRow` are the second write, in the other table.
`updateConfig` and `SaveConfig` are the read and the whole-row save of the
settings. `ingestCdr`, `computeBillingContext`, `applyCharge`, `ChargeFails` and
`SaveRecord` follow `ingestCdr` of `cdr.service.ts`; `applyPrepaidCharge` and
`Deduct` follow the dialer's own deduction, which has no lower limit. `Post` and
`HangUp` are FreeSWITCH: every leg is reported, a record is posted until it is
answered in time, and a post may be served while the one before it still is.
`Lose` ends a request at any await.

### BillingCost, Dialplan, CallRecords, CallFlow, Recordings

`BillingCost` has `calculatePrepaidAllowance`, the hangup scheduled for it, the
cost computed from a call record and the dialer's own computation. A rate is per
`Minute` seconds and amounts are compared after multiplication by `Minute`, so
that they stay whole. `Talk` lets FreeSWITCH be one second late.

`Dialplan` has the decisions of `fs.service.ts` as operators on a database:
`resolveTenant`, `directoryXML`, inbound routes, custom rules, users, outbound
rules, caller ids and menus; `CallRecords` how `cdr.service.ts` reads a posted
record (`mapPayload`, `computeBillingContext`, `resolveAgentContext`) and who
lists or opens it (`listCdrs`, `ensureCdrAccess`); a record may lack a tenant, and a
portal user tenants. A number is a sequence of digits, since prefixes, suffixes and
patterns decide. `CallFlow` runs a call
through them: `Dial`, `Ask` (the dialplan and the admission), `Choose` (a menu,
which asks the dialplan again), `Continue`, `ChangeRule` (an administrator),
`EndCall`, `ingestCdr`.

`Recordings` follows `syncRecording` await by await (`ReadSetting`, `Look`,
`Copy`, `removeUploadedRecording`, `deleteRecordingFile`) beside FreeSWITCH that
still writes the file and the other leg's record that does the same; `upload`,
`WriteMedia`, `SaveRow` and `remove`, `ReadSettingAgain`, `DeleteMedia` follow
`system-recordings.service.ts`. `listRecordings` asks the bucket, and the local
directory when the bucket does not answer; `Waves` are the prompts whose files are
named `.wav`, the only ones it lists. `MCCallFlow` puts the two together: a recording
does not depend on where its call went, so a behaviour is a call, or recordings.

### SecurityAgent

The truth is in four places: fail2ban (`bans`, and its configuration `live`,
`mirror`, `active`), the kernel's chain (`kernel`, rules with handles), the
agent's memory (`rules`) and its file (`file`, one row of which may be garbled by a
crash). A step is what the agent does after an await, with the effect of the
command it then awaits: `listBans`, `ensureBanFirewallRule`, `addFirewallRule`,
`saveState`, `listPortalBanRulesFromNft`, `syncFirewallState` and so on, under the
names of `server.js`. The timer (`refreshFail2banState`) starts a run whether or not
the last has ended. A rule is looked for by the beginning of its comment
(`Begins`, `findRuleHandle`), so that the ban of 10.0.0.1 takes the rule of 10.0.0.12
for its own: `Prefixes` are the pairs of addresses that begin alike. `deleteFirewallRule`
takes any row, those of bans too. A failed listing finds nothing, and the rule is then
added once more. Faults are a command that fails, a crash and a reboot of the
host, which empties the chain and restarts its handles.

### EslEvents, Realtime

`EslEvents` is the connection of `fs-events.service.ts` (open, broken, silent, a
reconnect timer). `Realtime` adds both gateways and both pages: a page is kept
current by a push after an event, a poll that emits when the hash of the room
changed, and a fetch of its own; all three read FreeSWITCH first and use the
answer later. A registrations page with a search term or a status (`filter`) drops
what it is pushed and fetches instead, unless it has just fetched.

### Tables, Console and the services

`Tables` is the database with its unique keys, its references and what a delete
does to them. `Console` is how a handler runs: its reads in one step, then each
write in a step of its own, the rows it loaded written back whole; a refused
statement or a crash leaves the earlier writes. `AgentsAdmin`, `UsersAdmin`,
`TenantsAdmin`, `RoutingAdmin` and `NetworkAdmin` say for each request what it
checks and which statements it makes; `NetworkAdmin` adds files, commands that
fail or are obeyed late (`LateCommand`). The files of all gateways are in one
directory, which the profile `external` includes (`Includes`), while a rescan is of
the gateway's own profile. `Listings` has the queries of the lists
and the test each handler of one row makes. `PortalSession` adds rotation of the
refresh token, the cookies, the local storage and the tabs of a browser.
`Administration` composes them over `Scenarios`.

### PageTasks and the pages

A page is `screen` (cells, dialog, filters), a handler in flight is what it has
yet to ask with the values it closed over (`awaiting`), the API is a table. An
effect runs in the step that changed what it depends on. `AgentPage`,
`AccountPage`, `TenantPages` (domains and extensions), `DialerPage`, `BillingPanel`,
`TablePages` (routes, menus, gateways, prompts, roles), `SecurityPage` and the
forms follow the managers under `src/portal/src/components`, the drawing of a QR code
that fails among them; `ManagerPages`
dispatches and states the properties. `Portal` puts a page beside the console:
a behaviour is requests of several people, or an operator on one page.

## History variables

They say what cannot be read off the state, and a property that names one says
what it does not claim.

| Variable | Meaning |
|---|---|
| `took`, `waived`, `forgiven` (PrepaidLedger) | charges taken, or let go, for a record; what setting the balance to 0 gave away |
| `raced`, `torn` (PrepaidLedger) | a save overwrote a change it had not read; a request was lost between its two writes |
| `failed`, `crashed` (SecurityAgent) | a command or write failed; the agent went down |
| `astray` (Realtime) | pages that show something else than what was last emitted to their room (a snapshot or fetch lost, overtaken, or dropped for a filter), which nothing but another snapshot or fetch puts right |
| `clean`, `lost`, `past` (Console, PortalSession) | no handler wrote on what another changed after it read; a handler ended with writes undone; what happened to tokens |
| `upset` (PageTasks) | a request failed; an answer or a request was overtaken |
| `early`, `lost`, `moved` (Recordings) | recordings copied while they were written; whose copy failed or was cut off; media older than the last change of the storage |

A property that excuses a run by one of these does not catch the hazard that sets it.
Which do: `Reconciled` excuses `raced` and `torn` (`ledger_races` shows the first);
`RecordsPaid` counts a failed charge as waived; `Hierarchy`, `AgentsEquipped`,
`QuotaKept`, `OwnTenants`, `RouteChecked` and `SuperByQualified` excuse handlers that
raced (`clean`); `AccountsKeepTenants` requests that ended early (`lost`);
`FreeSwitchInStep` both, and failed commands (its last part, `GatewaySaved`, only a
request that is cut off, raced or not obeyed itself); `NotThrownOut` two tabs that renew
together and answers that are lost (`past`); `ListsCurrent` and `OptionsFit` requests
that failed or overtook each other (`upset`); `PagesFollow` pages that are `astray`. In
each case the code does go wrong there. What such a property adds is that nothing else
leads to it. Under `hazards`, `PROJECT.json` names a property only where it watches the
hazard, and a note says in how far.

## The runs

| Run | Shows |
|---|---|
| `dialer_core` | One scheduler, one request, two leads, two retries. `CapacityRespected`: never more dialling jobs than the limit. `NothingLost`: every slot, lead and retry has somebody left to end it. `AnsweredNotRetried`. Under fairness `PendingJobsTaken`, if records are posted (`RecordsPosted`), and `DialingJobsSettled`: a dialled job whose end is known, by its record or a refused originate, is settled. |
| `dialer_race` | Two instances and a manual start over the job of one lead, with crashes, ESL time-outs and vanishing originates. `DialedOnce`, `ChargedOnce`, and the refinement of `CallOnce` (`OneCallPerJob`). |
| `dialer_admin` | Two requests of every kind interleave with dialling over two campaigns. `ForeignKeys` and `DeletedNotRequeued`: stale saves revive rows, but never without what they refer to and never as work. |
| `ledger_books` | Two administrative requests of every kind at a time beside one call that is routed or dialled, each record posted up to twice, one loss. `Reconciled`, `NonNegative`, `RecordsPaid`. |
| `call_flow` | Every kind of number from phones of two tenants and a trunk, every small tariff, balance and rule. `AllowanceCovers`, `CostsAgree`; `RecordCovered`: the record, too, is charged within the balance, though the rule was deleted during the call; `TenantKept`: directory and dialplan agree on the tenant of a phone; `MenuReachesExtension`; `RecordsFound`: who is listed a record may open it, who may open it is listed it unless the record has no tenant or he has none, and it is found under the status it shows. When nobody calls: `MediaKept` and `MediaReached` of recordings and prompts. |
| `agent_sync` | Two refreshes or requests at a time, two addresses of which one begins the other and which fail2ban bans and unbans too, a rule of an administrator, failures, crashes, reboots. `ManualAgrees`, `ConfigLoaded`, `OnlyItsRule`: a rule leaves the chain by a request that names it or what its name takes for it, or as an orphan. Under fairness `Mirrored`: the chain blocks nothing that is not banned, and of what is banned all but an address that begins that of another ban; the agent's list is that of the bans, and the file follows. |
| `realtime` | Two browsers, two rooms, two handlers at a time, lost answers, a broken or silent connection, dropped sockets, filters, a restart. `PagesFollow`, `LinkRestored`, under fairness. |
| `console` | Every two of some ninety requests of several callers, statement by statement, with refusals, failing and late commands and a crash: `ListsAgree` (a list shows what can be opened), `AgentsSound`, `QuotaKept`, `OwnTenants`, `AccountsSound`, `RouteChecked`, `FreeSwitchInStep` (files, variables and gateways, when nothing failed or raced; and a gateway left without its file by a request cut off has it after the next request). A browser with two tabs: `TokensSound`, `NotThrownOut`. An operator on each page: `ListsCurrent`, `OptionsFit`. |

The other four show a disagreement between the code and what its texts say:

| Run | Counterexample |
|---|---|
| `dialer_overload` | An originate command times out after FreeSWITCH started the call; the job is failed, its slot free, and the next call is made beside it: more than `maxConcurrentCalls`. |
| `dialer_retries` | A refused originate is handled by two catch blocks and each makes a retry: more than `maxRetries` redials. |
| `call_window` | The column gives the time back with seconds, the pattern does not match, and the scheduler dials at any hour. |
| `ledger_races` | Two records ingested together read the same balance: one charge is lost. |

Every property of a passing run has a mutant, a definition named after what a
plausible slip would do (`ClaimableAnyStatus`, `FailRetryForgotten`,
`ResolveWithoutContext`, `CopyNotAwaited`, `PageShownPast`, ...), that breaks it
under the same run.

### Also seen while modelling

The properties are stated so as not to claim these; none has a line in the
repository that says otherwise, so they have no run.

- Charges: with both legs of a call reported, both are charged; a record posted
  again after a late answer is charged again; the dialer calls for a prepaid
  tenant whatever its balance; the allowance ignores tax.
- Recordings: a copy that fails or is cut off is never tried again, and in `cdn`
  mode the recording is then neither listed nor opened (`lost`). Changing the
  storage moves nothing (`moved`). A list falls back to the directory when the
  bucket cannot be listed, a download does not, so that what is listed then cannot
  be opened. The B leg's record may copy and
  delete a file that is still being written, and the rest is lost (`early`). A
  prompt's row keeps its key but not its bucket, so that its media stays behind
  when the bucket was changed before the removal.
- Security agent: of two banned addresses where one begins the other, the first gets
  no rule of its own, and lifting its ban may take the other's until the next
  refresh; their handles, and the file with them, change at every refresh. A deleted
  rule of a ban comes back with the next refresh.
- Records: one without a tenant is opened by every portal user whose role does not go
  by agents, and an account without tenants opens every record, while neither
  finds them on a list.
- Gateways: one of another profile than `external` has its file among those of
  `external`, and its own rescan does not load it; a change of profile leaves it where
  it was loaded.
- Routing: requests that create, change or delete a custom rule are made without an
  account and check no tenant, like those of gateways and settings; `OwnTenants` is
  about requests of an account, and says nothing of them.
- Console: two updates of parents may make a cycle, two extensions may pass one
  limit, a request refused late leaves its earlier writes. `clean` and `lost` say so.
- Live pages: a snapshot for one client sets the hash for all, and the poll is
  then silent; a page whose fetch was overtaken shows the old state, and so does a
  page with a filter that has just fetched when it drops a snapshot (`astray`).
- Portal: the list of groups names an owner that was deleted until it is fetched
  again; an edit cannot take the owner of a group away, as an empty one is not sent; the
  agents' page 2 is replaced by page 1 when both are asked for; a
  refetch after a save uses the filter the handler closed over; the one `loading`
  cell is cleared by whichever handler ends first; creating, importing and
  scheduling in the dialer have no guard against a second click; changing the
  tenant in the agent form keeps the account of the old tenant; an answer to a save
  closes a dialog opened since; a refresh while the ban dialog is open empties its
  form; a new ban hides the bans of the same address in other jails; the answer of
  a form overwrites what was typed meanwhile; moving options of a menu does not
  change their `position`.

### Bounds, and why they are enough

- Dialer: two leads and six jobs with `MaxRetries = 2` let a lead be refused,
  retried and exhausted while another waits for the only slot; `MaxTime = 1`
  separates "due now" from "due later". `dialer_race` keeps one job, because the
  claim, the CDR row and the charge are keyed by the job; what matters is the number
  of processes that race for it (two schedulers and a request, three requests in
  turn, both hosts crash; `MaxPosts = 2` is one repeated post). `dialer_admin` has
  three jobs and three requests: schedule, delete and the save of what was read
  before.
- `ledger_books` needs two workers and two requests for a race; amounts 1 and 3
  against an opening balance of 1 and a cost of 2 reach both sides of 0, and -1 is
  one that must be refused. `ledger_races` needs two calls.
- `call_flow` uses a minute of 6 seconds, so that increments 1, 2 and 5 are below,
  divide, and do not divide it; `MaxTransfers = 2` passes from one menu into another.
  Recordings: one call with two legs and one prompt, as files and keys of different
  ones never meet (which is proved); two buckets, one with a prefix, and two
  settings without one; two looks for a file instead of the code's five tell "tried
  again" from "given up"; two posts and two changes of the setting.
- `agent_sync`: two addresses of which one begins the other (three would only repeat the
  pair), two workers, two events or faults, such as a crash after a failed write. Of the
  rules that are there at the start the administrator's was added last: nothing compares
  the handles of rules whose names do not begin alike. When only the second worker is at
  work the first takes its work over (`Swap`), as the two do not differ; a symmetry set is
  no choice beside a liveness property. `realtime`: a room is in one of
  two states, so that a change back makes an old hash fit again; two events or faults,
  of which setting a filter is one.
- `console`: two requests at a time, as a race needs two; `MaxCalls = 2` calls of a
  session, `MaxLate = 1` command obeyed late. On a page the operator does three
  things (two on that of the agents, which has most of the states), with at most one
  handler waiting when he does something more (`MaxWaiting = 1`); a list page has
  one row (`PageSize = 1`), so that two rows make two pages.

The systems stop when their bounds are used up, and most runs say
`CHECK_DEADLOCK FALSE` for that; in the dialer the scheduler ticks for ever and
deadlock is checked.

### What the passing runs leave out on purpose

`dialer_core` has no crashes, time-outs or manual starts: an instance lost after a
claim leaves its job dialing and nothing in the code recovers it, and `startJob`
has no capacity check. `ChargedOnce` and the refinement are checked, and proved,
without `deleteCampaign`: deleting a campaign deletes the CDR rows that keep a
second post out. `NonNegative` is claimed until a dialled call is charged.
`NothingLost` counts a record that may be posted as somebody left to end a slot.
`Reconciled` excuses runs in which a save overwrote an unread change; that such
runs exist is what `ledger_races` shows. `Mirrored` and `PagesFollow` are about what
holds in the end, when no more changes and faults come.

### Fairness

`dialer_core`, `agent_sync` and `realtime` check liveness, under `LiveSpec`.

- Dialer: the interval timer ticks again and again, and an awaited database or ESL
  call returns (weak fairness of each scheduler and each request), a call ends and time passes.
  Nothing is assumed about records being posted or requests being made: `PendingJobsTaken`
  has the records as its hypothesis, `DialingJobsSettled` begins where the end of a
  call is known.
- Agent: the 15 s timer fires, an awaited command returns, and the supervisor starts
  the agent again (`restart: unless-stopped`).
- Live pages: the reconnect timer fires, sockets are opened again
  (`reconnectionAttempts: Infinity`), commands answer, and the polls and handlers
  that wait for one of the bounded workers get it (strong fairness, since the bound
  on workers is the model's and not the server's).

## What is proved

For every value of the constants, checked by TLAPS:

| Theorem | Statement | Argument |
|---|---|---|
| `TypeCorrect` | `Spec => []TypeOK` (AutoDialer) | `TypeInv` adds to `TypeOK` what a process knows at each step (`TaskOK`: a process in a job step has a job that was created) and that jobs are created in order (`JobsOK`). |
| `JobsDialledOnce` | `Spec => []DialedOnce` | `DialInv`: an unclaimed job was never dialled, and a process between the claim and the command is alone with its job. Steps that claim and dial nothing are handled once by the lemma `DialQuiet`. |
| `CallsChargedOnce` | `Spec => []ChargedOnce`, if no campaign is deleted | `ChargeInv`: whoever ingests a CDR is alone with its row and has not charged it; with `IngestPCs`, the steps reached only by an ingest belong to one. |
| `DialerImplementsCallOnce` | `Spec => OneCallPerJob`, if no campaign is deleted | The same invariant; each step maps to a step of `CallOnce` or a stutter. |
| `RowsKeepTheirKeys` | `Spec => []ForeignKeys` | `RowsInv` adds `FormsOK`: what a request is about to save belongs to the campaign it read. The database refuses a row whose key refers to nothing, and a delete takes along what refers to the row. |
| `DeletedStayDeleted` | `Spec => DeletedNotRequeued` | `JobFate` says how a job may change in one step, whichever step it is: only the save of `markJobFailed` brings a deleted one back, and it writes `failed`. |
| `CapacityKept` | `Spec => []CapacityRespected`, with one scheduler and neither `start` nor `update` requests | `SlotsOK`: the dialling jobs of the campaign a scheduler is at, its free slots and its claim under way are together at most the limit, which is the one it read. |
| `AnsweredStaySettled` | `Spec => []AnsweredNotRetried`, with one scheduler, no `start` requests and no ESL time-out | `RetryInv`: who marks a job failed does so because its call is dead, and a job is claimed only when it was never called. |
| `SlotsAndLeadsSettle` | `Spec => []NothingLost` for any number of schedulers and requests, without crashes, lost originates and deletions | `LostInv`: nothing is deleted, and each dialling job, waiting lead and owed retry is held by a process, a live call or a record to come (`SlotKept`, `LeadKept`, `RetryKept`). |
| `LedgerTypes` | `Spec => []TypeOK` (PrepaidLedger) | `TypeInv` adds what each request has checked before a step (`TaskGood`), such as that amounts are positive. |
| `BalanceNonNegative` | `Spec => []NonNegative` | `NonNegInv`: until a dialled call is charged the balance is at least 0 wherever a request remembers it, since a stale copy may be written back. |
| `RecordsArePaid` | `Spec => []RecordsPaid` | `PaidInv`: the stored records and the requests about to store one are together at most the charges taken and waived (a cardinality, hence the finite set of workers). |
| `BooksReconciled` | `Spec => []Reconciled` | `BooksInv`: the balance is what the rows and records say, plus what requests have moved and not yet entered in a row (`Pending`). Ids are unique and below `nextId` (`RowsKnown`), and what a request is about to store differs from the row it read by what it has moved (`Agrees`). Sums over finite sets are treated by lemmas of their own (`SumSplit`, `SumChange`), from well-founded induction on subsets (`SmallestSet`). |
| `AdmittedCallsCovered` | `Spec => []AllowanceCovers` (BillingCost) | `CallInv`: the allowance is that of the tariff and the balance, and the call has not lasted more than a second past its hangup; then arithmetic of quotients (`QuotientFits`, `UnitsBegun`). |
| `CostsAlwaysAgree` | `Spec => []CostsAgree` | The two formulas are equal on tariffs. |
| `RecordsCovered` | `CallSpec => []RecordCovered` (CallFlow), if `NamesApart` | `FlowInv`: the tables are those of one world but for the outbound rules (`TablesKept`); the answer is the one to the last request (`Answered`), so that its tenant and rule are what `dialplanXML` finds; the rule of an admitted call keeps its tariff and may only be deleted or stop billing (`Admitted`, `RuleKept`). The tenants that the record's variables lead to are then those of the answer, and a cheaper tariff costs less (`SubtotalType`). |
| `TenantIsKept` | `CallSpec => []TenantKept`, if `StrangersOutside` | Under `FlowInv`: each of the ways to an answer (route, custom rule, extension, outbound rule, default) with the tenant it names; `directoryXML` takes the first alternative that offers one, and so does `resolveTenant`. |
| `MenuReaches` | `CallSpec => []MenuReachesExtension`, if `ExtensionsShort` | Under `FlowInv`: after a menu the second request carries the extension as its destination, no domain of a tenant and no context of one, so that `resolveTenant` comes to the owners of the user called, of whom there is one. |
| `RecordsAreFound` | `CallSpec => []RecordsFound` | `Recorded`: what is posted for a B leg is stored as one (`resolveLeg`). For every portal user, with tenants or without, and every record, with one or without: the list and the test of one record ask for the same agents, as a user without an agent may see none (`resolveAccessibleAgentIds`), and for the same tenants where neither is missing; and the cases of a status are those of its filter, in their order (`StatusFound`). |
| `MediaIsKept` | `RecordingsSpec => []MediaKept` | `RInv`. `FilesInv`: a job that may delete a file has stored it whole, unless it was copied early. `PromptsInv`: a prompt has one row, or a request that makes or removes it, and what is about to become a row has its media. `ObjectOK`: the last part of an object's key is the call or prompt it holds, so that storing or deleting one never takes another's object, whatever buckets and prefixes are set. |
| `MediaIsReached` | `RecordingsSpec => []MediaReached` | `ReachInv`: before its record is posted nothing is done for a call; afterwards its recording is on the disk or listed, and listed or being copied if there is a bucket (`CallOK`). What the directory shows in place of a bucket that does not answer is then still to be copied, or its copy failed. With it a lemma on sequences: the prefix that is put before a path is what is taken off a key (`ListedUnderPrefix`). |
| `TypesKept`, `ConfigIsLoaded` | `Spec => []TypeOK`, `Spec => []ConfigLoaded` (SecurityAgent) | `Shape` says what each worker holds at each step, and that a worker that starts the agent is alone. `ConfigOK`: while fail2ban has loaded something else than the live file, some update is between its first file and its reload. |
| `NoOtherRuleDeleted` | `Spec => OnlyItsRule` | `HandlesOK`: a handle in the list, or about to enter it, was given out since the host booted and is that of its rule, of no rule, or, for a ban, of a ban whose id begins alike; excepted are rows that the start has yet to restore, and nobody else works before it has. For any addresses, whichever begin alike, and deletes of any row: what is deleted has the name that was asked for, one that begins like it, or is an orphan. |
| `ManualRulesAgree` | `Spec => []ManualAgrees` | `ManualOK`: until something fails or crashes, a rule of an administrator is in the chain and in memory, or in one of them and in the request that adds or deletes it. |
| `ConsoleInvariant` | `Spec => []ConsoleInv` (Administration) | The invariant of the four after it, for whichever scenario the behaviour began with. Its three parts: the rows (`Rowed`: each table has its columns, a row refers to rows that are there and of its tenant, a key says its tenant, limits are numbers or Nil); while `clean`, the agents (`Sound`); and what every request has yet to write (`Awaits`): statements that are right at any time (`Plain`), or one that was right on the tables the request read and still is unless they changed (`Decided`). One lemma says what a statement does to the tables whichever it is, `SET NULL` and cascades included; then each of the handlers is shown to leave only such statements. |
| `AgentsStaySound` | `Spec => []AgentsSound` | Of `Sound`: the parents form no cycle if among any agents there is one whose parent is not among them (`Rooted`). That `updateAgent` keeps it is the pigeonhole principle on the chain `assertValidParent` climbs: a chain longer than there are agents repeats one, and a set closed under parents holds one of its own descendants. |
| `QuotaStaysKept` | `Spec => []QuotaKept` | `Sound` again, and cardinalities: a handler counts the extensions of a tenant before it adds one. |
| `RoutesStayChecked` | `Spec => []RouteChecked` | A route is written where its destination was found in the tables read; while nothing changed after that the tables are the same. |
| `ListsStayAgreed` | `Spec => []ListsAgree` | From `Rowed` alone, whatever the requests under way: the tenants of a caller select the same rows in a list and in the test of one row, since each key and reference stays in its tenant. |
| `SessionInvariant` | `Spec => [](ConsoleInv /\ SessionInv)` | The invariant of `TokensStaySound`. A bundle is numbered before it is remembered: two requests are about to remember different ones (`BundlesApart`), and what the browser holds, asks with or has given up is none of these (`TokensHanded`). Each statement on the accounts leaves the browser's hash as it is and promotes only for a super admin or the start (`Due`), whichever of the requests left it. While `clean`, the hash of the browser's account was neither redeemed nor revoked, a refresh that is fresh and about to remember a bundle is for the hash, and none that is about to answer has the hash or the token of another (`HashCurrent`). |
| `TokensStaySound` | `Spec => []TokensSound` | Both parts are in `HashCurrent`: what was revoked is not the account's, and a refresh that answers has a token nobody redeemed before. |
| `AccountsStaySound` | `Spec => AccountsSound` | Its two action properties. A promotion is by `Due` the act of the request whose statement runs (`SupersByQualified`). For the tenants, `MemberInv`: a request that makes or changes an account, of a sender who is no super admin, stands before the save, the check of its tenants, the deletes or the inserts (`Tenanted`), and unless somebody else wrote the account has a tenant after what is left; a delete of some memberships and an insert of others leaves one, since their keys are account and tenant (`ExchangeHolds`). |

All faults are part of each proof unless a hypothesis of the theorem excludes them. Of those, TLC finds a violation without: one scheduler and
no `start` (`CapacityRespected`, `AnsweredNotRetried`); no ESL time-out
(`AnsweredNotRetried`); no crash, no lost originate and no `deleteLead`
(`NothingLost`). For `update` and `deleteCampaign` it found none on the instances
tried; the proofs use that they are not made.

The assumptions on the constants are those of the modules (`BoundsAssumption`,
`LeadsAssumption`, `ProcsAssumption`, `LimitsAssumption`, `InitAssumption`,
`ConstantsAssumption`, `TariffAssumption`, `WorldsAssumption`,
`RecordingsAssumption`, `AgentAssumption`, `ScenariosAssumption`, `SessionsAssumption`); TLC evaluates them in the runs. `InitAssumption` says that the leads there are at the
start belong to campaigns that exist; `ConstantsAssumption` that workers, calls and legs
are finite and that the top-ups and charges at the start have distinct ids; `AgentAssumption` that only the ids of bans, which
are jail and address, may begin alike (`Prefixes`), as the ids of administrators' rules
are uuids of one length; `WorldsAssumption` that the tables have their keys, that there is a
tenant, and that each has a domain and a row of `billing_configs` (a call of a tenant without
one is treated like one with the row that `getConfig` makes); `ScenariosAssumption` that what the requests of the console find has its
columns and keys, references that hold and sound agents (`Found`), that a row is made under a
key of its own, which is a uuid (`OwnKeys`), and that what makes one has its columns;
`SessionsAssumption` that accounts have their columns and memberships their keys, that the browser's account
has a bundle given before or none, that only the browser logs in, renews and logs out as its
account, and that nobody creates the account it already has.

Three theorems of CallFlow have a hypothesis about names, which is a definition of that module;
TLC finds that the worlds of `call_flow` satisfy them all (`NamesAssumption` of MCCallFlow).
`NamesApart`: the domain of a request is not the id of another tenant, and no gateway is called
like a tenant or its domain; `lookupTenant` compares ids and domains with whatever name a record
carries, gateways among them. `StrangersOutside`: a call that names no user comes in a context
of no tenant (`public` of the external profile, `auto_dialer`); the directory does not look at
the context, the dialplan does. `ExtensionsShort`: extensions have two to six digits, the
pattern by which the dialplan knows one; creating an extension does not ask for it.

The inductive invariants were found by checking candidates with
TLC first, on instances larger than the runs' where these are small (two bans with
ids that begin alike, two recorded calls; every group of requests of the console). A smallest handle, and the first
statement of a transaction to break something, are found by well-founded
induction on the natural numbers (`Least`); so is that the recursive functions `Result` and
`Chain` have the values their definitions give (`ResultSteps`, `ChainSteps`).

Only model-checked: liveness and whatever rests on ENABLED, which are beyond the
prover, and, for now, the rest of `console`: `OwnTenants`, `NotThrownOut`,
`FreeSwitchInStep`, and the pages' `ListsCurrent` and `OptionsFit`. `agent_sync` keeps
`Mirrored` and `realtime` both its properties to TLC, as all three are liveness.

## What is abstracted

Texts, names and formatting. Amounts are small whole numbers. `maxRetries` does not
change during a run. The row of `billing_configs` exists. Tax is left out of the
comparison of costs with an allowance. The reads of a console handler are one step,
though they are several awaits: a handler that reads twice would see changes between
them, which appear here as changes after the first read. A ban is named by its
address, with one jail. While the console serves requests no page is open, and while
a page is open nobody else asks: pages are checked against an API that answers
correctly, the API against requests in any order.

## Not modelled

- Security service (`security/`): a proxy to the agent without state. It gives up
  after three seconds while the agent goes on, so a rule asked for again may be
  there twice.
- AI calls (`ai-calls/`): a proxy to an external service.
- Demo data: seeds empty tables at start-up.
- Deployment: configuration, read for the number of instances and the CDR retries.
- Of the security agent: flushing registrations and conntrack entries of a newly
  banned address, summaries, the parsing of listings.
- Of the call records: XML and JSON parsing, times, the search for a recording's
  file, reports.
- Of the portal: layout, the call record page, the overview, the AI call page.

## Plan

What is left, in this order.

1. Proofs: `FreeSwitchInStep` and `OwnTenants` of Administration, `ListsCurrent` of
   ManagerPages.
2. The remediation of the security agent, with the ESL commands it sends.
3. The call record page and its export.
4. An abstract specification of a synchronised copy that SecurityAgent and Realtime
   both implement.
