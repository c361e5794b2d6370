# Specifications of the Huawei Cloud connector for ServiceNow ITOM

TLA+ models of the connector's own logic: the service-graph sync, the loop over
accounts and regions around it, the discovery fetches and payloads it relies on, the
Day-2 actions and their buttons, the alarm webhook and the provisioning of the
tables. TLC checks them on small instances, TLAPS proves the safety properties that
matter most for every value of the constants.

Paths below are relative to the repository; `sg/` stands for
`servicenow/hc-connector/service-graph/`, `lib/` for `servicenow/hc-connector/lib/`,
`disco/` for `servicenow/discovery/`.

## 1. The system

| Part | State it keeps | Operations | Talks to |
|---|---|---|---|
| Sync orchestrators (`sg/HcConnector{Ecs,Evs,Elb,Rds,Cce,Obs,Vpc}Sync.js`) | `HC Resource Sync State` rows (status, `consecutive_miss_count`, ci), `hc_discovery_run` rows, `install_status` of CIs | one region: start run rows, fetch, reconcile through IRE, read the rows, plan, insert, refresh, transition, retire CIs, finish the run rows | discovery classes, IRE, the tables |
| The loop around them (`runAll`, `scheduled-jobs/hc_connector_scheduled_sync.js`, `ui-actions/hc_cloud_account_run_sync_now.js`) | the region's `last_error` | go through accounts and regions; one orchestrator after the other | the orchestrators, the region table |
| Retirement rule, planner, run record (`lib/resourceLifecycle.js`, `lib/syncStatePlanner.js`, `lib/discoveryRunTracker.js`) | none (pure) | `computeNextState`, `planSyncStateUpdates`, `startRun`, `finishRun` | inlined in the orchestrators |
| Discovery classes (`disco/Huawei*Discovery.js`) | the list read so far, page cursor, attempt | `fetch...`: page loop around a retry loop; `reconcile...`: items and relations by index | Huawei Cloud list APIs, IRE |
| Disk aggregation (`lib/diskAggregation.js`, EVS orchestrator) | disk fields of ECS CIs | sum volumes by server, write server by server | ECS CIs |
| Day-2 actions (`sg/HcConnectorEcsLifecycleAction.js`) | `HC Day-2 Action Log` rows | `performAction/Resize/Attach/Detach`, `checkJobStatus`, `pollPendingActionLogs` | Huawei Cloud jobs, sync-state rows |
| VM buttons (`ui-actions/hc_vm_instance_*.js`, `sg/HcConnectorEcsLifecycleAjax.js`) | the message the user sees | one request each, answered at once or by a callback | Day-2 actions |
| Alarm webhook (`event-management/`), event envelope (`lib/eventEnvelope.js`) | `em_event` rows, the SMN subscription | confirm the subscription, one insert per accepted notification | SMN, Cloud Eye |
| Password-authenticated discovery (`disco/lib/huaweiEcsOrchestrator.js`, `iamTokenCache.js`, `httpResilience.js`) | a token cache | a superseded fetch, kept as a tested reference | IAM, ECS API |
| Provisioning (`scripts/generate-provision-script.js` and the script it renders, `tables/`) | tables, columns, choices | order the schemas, create what is missing | ServiceNow dictionary |
| Signing, hashing, masking, keys, request bodies, build scripts | none | conversions | - |

How they interact: a thread calls orchestrators one after the other; each goes
through the accounts and regions, calls a discovery class and treats its list as the
truth about the cloud; what is not in the list counts as a miss. The rows it keeps
are also what a Day-2 action resolves its CI through, so that a retired row stops
`checkJobStatus`. Threads meet in the tables only; nothing locks.

What is hard here, and what correctness means for it:

- **Interleaving.** The scheduled job and the button run the same orchestrator at
  the same time. Every table access is a step of its own: rows are read once, the
  plan is carried out later, inserts are blind. Correct: one row per composite key,
  a CI retired with its row, and whatever a stale plan did is repaired. All types of
  a region and all threads share one `last_error`: a lasting failure must show.
- **Partial failure.** A fetch, a reconciliation or any write may throw; a node may
  restart. Correct: only complete observations retire anything ("an incomplete sync
  never retires"), what is half written does no harm later, no region keeps another
  from being synced, the four run rows of a VPC run never contradict each other, and
  a provisioning script that died is safe to run again.
- **Ordering.** The cloud changes while pages, and the four lists of the VPC run, are
  read. Correct: a fetch that returns lists everything that was there throughout (which
  offset paging does not achieve, see `FetchSkips`, so that the sync must repair what
  was skipped); a subnet is put under its own VPC; the relations' indexes fit their
  items.
- **Delivery.** SMN repeats, reorders and drops notifications. Correct: nothing is
  acknowledged and lost, and the latest row of an alarm tells its state.
- **Timeouts and retries.** A page is retried in the middle of a loop, a token expires
  between two pages, a request's answer is lost after the job started. Correct:
  nothing is lost or listed twice by a retry; the log never states an outcome the job
  does not have, and no button says what job and log contradict.
- **Liveness.** What is gone is retired in the end, what stays is active in the end,
  every enabled region is synced, a logged job is resolved, a notification arrives, a
  fetch ends.

`PROJECT.json` lists the hazards one by one, each at its line with the properties
that would catch it.

## 2. Modules

| Module | Models | Notes |
|---|---|---|
| `ResourceLifecycle` | `computeNextState` with its threshold rules | constants `Threshold` (or `Unset`), `MissCap` |
| `SyncStatePlanner` | `planSyncStateUpdates` over a table | a table maps sys_ids to rows, so that two rows may share a key |
| `LifecycleContract` | abstract specification: what the sync promises about one resource's record | no rows, runs or writes |
| `ResourceSync` | one account, region and resource type with any number of syncers | implements `LifecycleContract` when runs do not overlap |
| `RegionSync` | `runAll` of several orchestrators by several threads, the regions' status, the run rows of a trace | what a reconciliation does inside is `ResourceSync` |
| `DiskFields` | the disk fields EVS runs write on ECS CIs | |
| `PageFetch` | the page loop and the retry loop of all seven discovery classes | what it proves of them is what `ResourceSync!FetchReturns` may do |
| `IrePayload`, `NetworkFetch` | the payloads of all classes and of the tested modules they repeat; the four lists of the VPC run while the network changes | pure operators, and the module that feeds them |
| `TokenFetch` | the password-authenticated fetch | runs that share the token cache |
| `DayTwoAction`, `DayTwoButtons` | requests, jobs, the action log and its checkers; the six buttons on top | rows are retired and revived by the sync as an environment |
| `EventMapping`, `AlarmEvents` | the mappings of a notification; its way from Cloud Eye to `em_event` | |
| `ProvisionScript` | the run of a provisioning script: its queries, inserts and deaths | any scripts |
| `Provisioning` | the generator: the schemas, their order, the rendered script | `RECURSIVE` sort, so apart from `ProvisionScript` |
| `Adapters` | `DiskFields`, `AlarmEvents`, `TokenFetch`, `NetworkFetch`, `ProvisionScript` side by side | see section 3 |
| `ResourceSyncProofs`, `SerialRunProofs`, `RegionSyncProofs`, `PageFetchProofs`, `DayTwoProofs` (both Day-2 modules), `AlarmEventsProofs`, `NetworkFetchProofs`, `AdaptersProofs` (`TokenFetch`, `DiskFields`, `ProvisionScript` and `Adapters`) | theorems | see section 5 |
| `MCResourceSync`, `MCRegionSync`, `MCPageFetch`, `MCDayTwoAction`, `MCAdapters` | finite instances | symmetry, programs, message shapes |

**ResourceSync and the code.** `rows` is the sync-state table of one (account,
region, resource_type), `cis` the CMDB, `record` the run row and `regionError`
the region's `last_error`. The rest is one syncer's call stack: `pc` is the place
in `_runForAccountRegion`, `seen` the fetched list, `toInsert/toRefresh/toTransition`
the plan as far as it is not carried out, `retiring` the CI between the update of
its row and its own. Each action is one access: `StartRun`, `FetchReturns`,
`ReconcileSucceeds`, `PlanUpdates` (the query for existing rows and the pure plan),
then `ApplyInsert*`, `ApplyRefresh*`, `ApplyTransition`/`RetireCi` in the code's
order, `CompleteRun`. `FailRun` is both catch blocks. `window` is what happens at
Huawei Cloud during a fetch, and `FetchReturns` may answer with whatever `PageFetch`
leaves possible: nothing that was never there, something if anything stayed, and all
that stayed, except that a class that pages by offset may leave out any of it when
something was destroyed meanwhile (`CompleteUnlessShrunk`) and may list the keys of
`MayRepeat` twice when something was created (`RepeatsOnlyIfGrown`). `Others` says that
the type has further resources, whose coming and going (`OthersChange`) is what makes
pages shift; a list is then never empty.
`Orchestrator` is the class that runs: all but ECS take the `undefined` of
`reconcileCIs([])` for a failure, and only ECS, EVS and RDS page by offset. VPC runs
four types at once; its `Keys` are those of all four, its four fetches are one fetch
over the whole window (which only admits more lists than four short windows do), and
its four run rows are the business of `RegionSync`. `Faults` says which failures an
instance has. A CI is identified by its key (`correlation_id`), so a row's `ci`
reference is no variable; timings and counters of the run row are left out.

**RegionSync and the code.** A thread's `at` is the call of its program, `pc` the
place in that call, `accounts` and `regions` what the loops of `runAll` have read and
not reached, `fetched`, `found` and `trace` the lists and run rows of the region it is
at. `stock` says where there are resources of a type: an orchestrator that finds none
throws (`ReconcileNothing`), in every run, except ECS. It changes where the constant
`MayStock` allows.
An orchestrator is the sequence of the types it keeps run rows of, as that is what
the seven classes differ in here. There are three ways to fail, as in the code:
`Throws` and `NotAuthorized` (the catch of the region's own try: region error, then
failed rows), `TableThrows` (the last-resort catch of `runAll`, which leaves the run
rows as they are) and `Escapes` (the query itself fails: the caller's catch goes on
with the next orchestrator); and `Crash`. `ReconcileNothing` takes the first way and is
no fault that `MaxFaults` counts.

**DiskFields and the code.** `sums` is the result of `aggregateDisksByServer` in one
run, by the first attachment of each volume; `UpdateEcsDiskFields` writes one server,
and skips one whose CI does not exist. Servers without volumes have no sum, so that
their CI keeps the last one. Runs overlap: a writer may carry sums out that are older
than what another has written since.

**PageFetch and the code.** `service` is the class: how its offset counts (pages for
ECS, rows for EVS and RDS, markers for VPC and ELB, none for CCE and OBS), whether
the response has a total, and whether the retry loop catches its own exception.
`cursor`, `attempt`, `listed` are the locals of the two loops. The list service is
external: a page is cut from what exists at the moment of the request, in a fixed
order in which new resources may come anywhere. `always`, `ever`, `shrunk`, `grown`
and `again` are history variables for the properties.

**IrePayload, NetworkFetch and the code.** A payload is a sequence of items (class and
identity) and a set of relations between indexes, counted from 1. `Huawei*Reconcile`
are the classes' own versions, `map*ToIRE` the tested modules, `Combined` their
composition for the VPC run, which moves a relation of a part by the items before it
(`Moved`); `Satisfied` is what the engine's containment and hosting
rules ask of an item. `stage` counts the lists the VPC run has fetched. (The comment
at `disco/lib/mapSecurityGroupToIRE.js:84` says that items are appended to arrays
passed in; the module returns local ones, counted from 0, and that is what is
modelled. Class and modules differ on purpose in one case: the modules make the
placeholders for VPCs only, the class for VPCs or security groups.)

**TokenFetch and the code.** A token is the time it expires at the service. `doing`,
`token`, `pages`, `attempt` and `reauthed` are the locals of one run, which combines
`getIAMToken` and `fetchECSInstances`; `cache` is the shared one. However a run ends, it
returns the pages it has, as the code does. `Drift` is how far
the program's clock is behind, `Skew` the five minutes a token is distrusted early.

**DayTwoAction, DayTwoButtons and the code.** The six requests differ in what they send
only, so `Perform` stands for all. `stage` and `saw` are a request's locals, `log` its
row, `job` the job at Huawei Cloud. Only a 2xx answer with a job id tells that a job runs;
after any other answer or none, one may or may not (`MayHaveStarted`), and the insert of
the log row may itself throw (`Unanswered`, `LogThrows`). `todo`, `looked` and `found` are the locals of a
checker (the poller's query result, the row it is at, the status it read). A button
is one of two kinds: Start, Stop and Reboot set their message in the transaction that
performs the request; Resize, Attach and Detach go through GlideAjax, whose answer
waits in `answer` until a callback shows it in `told`, or does not. Whatever is thrown,
the message is one and the same "failed" with the exception's text (`Throws`).

**EventMapping, AlarmEvents and the code.** `sent`, `pending` and `dropped` are SMN's
side. `Accept` is a delivery that is answered 2xx - the answer may be lost, so that the
message stays pending and comes again - and `Fail` any other. GlideRecord's `insert`
either throws or succeeds. Confirming the subscription may fail silently (`Confirm`
to "acknowledged": the GET's failure is logged and SMN is answered 200). The time of a
notification is a number, an ISO string, something else or missing; what the webhook
makes of it is `WebhookTimes`, a set, because a conversion that throws leaves the event
without a time. An event also has what it was made of (`additional_info`). `events`
holds one record per distinct row: how many copies there are, no property asks. The
envelope functions are tested library code that the webhook does not call yet.

**Provisioning, ProvisionScript and the code.** `script` is the list of the script's
helper calls; `RenderedScripts` in `Provisioning` are those the generator makes of the
repository's schemas, in the order of `LoadSchemasInDependencyOrder`, its depth-first
sort. The instance gives them to the constant `Scripts` of `ProvisionScript`, which can
so be reasoned about for any script. `missing` is the gap between a helper's query and
its insert; `Dies` may happen anywhere. The script runs in Global scope, and one run at a
time: the code promises nothing about concurrent runs, nor that the composite unique
constraints, which it only reminds the administrator of, exist.

## 3. Runs

Twelve runs; `expect: violation` runs reproduce a disagreement between the code and
what a comment or document of the repository says.

| Run | Instance | Question and answer |
|---|---|---|
| `SyncSerial` | ECS, 2 keys, 1 syncer, every fault, threshold unset, no "Retired" choice | The table invariants (`SerialInv` contains the type invariant), `CompletedRunAgrees` and the refinement of `LifecycleContract` hold whatever fails or crashes |
| `SyncSibling` | EVS, 2 keys, 1 syncer, lists may repeat one of them, fetch and IRE faults | The repeated key has at most the two rows of one fetch and the other one row; misses that retire are consecutive, and what is gone is retired beside others, the double row of a repeated resource included |
| `SyncOverlap` | ECS, 1 key and further resources that come and go, 2 rows, 2 syncers, fetch and IRE faults | Double rows, stale plans and lists that leave the key out are possible, yet the CI is never forgotten; what is gone is retired, and what stays is active in the end unless fetches go on shrinking for ever |
| `SyncEmpty` | EVS, 2 keys, 1 syncer | **violated**: `GoneIsRetired` - the last resource of a type is never retired (EVS, ELB, RDS, CCE, OBS; VPC when all four lists are empty) |
| `SyncOverlapRows` | ECS, 2 keys, 2 syncers | **violated**: `OneRowPerKey`, by two runs that overlap |
| `SyncPartial` | ECS, table writes may throw | **violated**: `RetiredRowHasRetiredCi` - the CI is forgotten |
| `Region` | 2 accounts, one without credentials, a region each; the scheduled job (ECS, VPC) beside an administrator (EVS); the first region has VPCs from time to time and no volumes; one fault of any kind | Enabled regions that do not run out of resources are synced by every orchestrator whatever happens to the others, as often as it is run; a lasting failure shows, although threads write the same status; only a whole success clears an error; a region switched off comes to rest; run rows of one trace agree |
| `Fetch` | all 7 classes, 5 items, pages of 2, 1 retry | Only a deletion under offset paging hides a resource, only a creation under offset paging repeats one; every fetch ends |
| `FetchSkips` | as `Fetch` | **violated**: `FetchIsComplete` under offset paging |
| `Job` | 2 requests (Start, Resize), 1 CI, a poller and an ad hoc checker, every fault | The log is true, what a button says is not contradicted by it, an outcome is taken back by a checker that looked before and by nothing else, jobs of managed CIs are resolved |
| `JobStuck` | 1 request | **violated**: `EveryRowResolves` - a retired sync-state row blocks the poller for ever |
| `Adapters` | the five components that share nothing with the rest | Disk fields settle on the right sums if somebody keeps running EVS; notifications arrive, are recorded before they are acknowledged, and their rows tell the state, by a mapping that is the tested one but for the time; composite ids tell redeliveries; pages stay in order, cached tokens are current, a run ends; payloads are well formed and contained; provisioning is safe to re-run |

`Adapters` is one run of five components that have no variable in common: `part` says
which of them moves in a behaviour, so that its states add up and do not multiply. (That
each of its behaviours is one of every component is proved, `AdaptersProofs!PartsBehave`.)
Its instances: 2 volumes with up to 2 attachments each, 2 servers, 2 EVS runs that may
overlap; 1 alarm with 4 shapes of notifications, one for each form of a time, with a
metric and without, 3 state changes and one message of another kind; 2 runs sharing a
token, 2 pages, 1 retry, tokens that live 2 ticks; 2 VPCs and 2 subnets, a security group
and two EIPs; the seven schemas listed in alphabetical and in reverse order.

Bounds and why they are enough. Two keys tell "this resource" from "another one of its
type" (the empty list is the only thing that depends on more), two syncers are the two
that exist, and the rule compares the miss count with the threshold only: `MissCap`
(where counters saturate) at or above the threshold leaves nothing out. Thresholds other
than 2 are covered by the theorems. `RowIds` has as many sys_ids as the instance can
insert: one per key, one more for the key that may be repeated, two per key where runs
overlap. (With two syncers and one key a third insert cannot be planned: inserts are
planned only when no row is there, and each syncer plans once.) A resource is listed at
most twice: a third time takes as many creations during one fetch as a page has entries.
Two accounts with a region each are the one that fails and the one it must not disturb;
`MaxFaults` is the number of things that go wrong besides the missing credentials; a
region that lacks VPCs for a time and volumes for good tells a run that sometimes finds
something from one that never does, and those from ECS. Five items and pages of two give
three pages, the last one short or full, with changes before, between and on the
boundaries; one retry tells "retried" from "retries exhausted". Two requests and two
checkers are enough for a late write over another's; two writers and two servers for a
sum that is carried past a newer one. Three state changes are an alarm, its recovery and
the next alarm, in any order of arrival. Two VPCs are one that is listed and one that is
created too late.

`Symmetry` permutes keys and syncers in runs without liveness. Row identifiers are
not symmetric: `NewRowId` picks the sys_id of a new row, which no property can tell
from any other, and keeps the state space small.

Deadlock is checked for the sync and the regions, which can always go on. `Fetch*`,
`Job*` and `Adapters` say `CHECK_DEADLOCK FALSE`: a fetch ends, and so may every request;
alarms and clocks are bounded, and a provisioned table stays.

## 4. Fairness

- Sync: weak fairness of starting a run (the scheduled job, which runs ECS and VPC;
  for the other five, whose runs an administrator starts, the liveness properties say
  what holds if that goes on) and of each step of a started run (a thread goes on);
  strong fairness of `FetchReturns` and `ReconcileSucceeds`: outages end, that is, not
  every run meets one. Nothing is assumed about the cloud, nor that a write fails or
  does not: the liveness runs have no write faults, because an exception at every
  write would stop any program. In the overlap run each syncer is fair by itself.
- Region: a call that has started proceeds, and the scheduled job starts again and again
  (`WF` of `Proceed` and, for `Scheduled` threads, of `Start`); of the administrator the
  properties say what holds as often as he starts a run. Faults are finitely many, for
  with one in every run nothing would ever be synced; missing credentials and missing
  resources are not faults and may last. Nobody has to switch a region, and nothing is
  assumed about resources but what `EnabledRegionIsSynced` and `BrokenRegionShowsError`
  state as their premises.
- Fetch: `Answered` is weakly fair, i.e. a request gets some answer, good or bad.
- Day-2: jobs end; the poller starts again (`SF` because its query may find nothing
  for a while) and a status request made again and again is answered now and then.
  No fairness for requests, ad hoc checks, callbacks or the sync's rows.
- Disks: where some run has to write a server's CI again and again, some run does so
  now and then: a run that has started goes on, and not every write throws. No job runs
  the EVS orchestrator, so no run is assumed to start: `DisksSettle` has the premise
  that some thread goes on running it.
- Alarms: a message that SMN tries again and again and has not given up is accepted in
  the end, once the secret is right. Nobody has to change an alarm.
- Token fetch: a request gets some answer. Nobody has to start a run; nothing is assumed
  of VPC runs and provisioning.

## 5. Proofs

TLAPS proves, with no bound on any set:

| Theorem | States | Assumes |
|---|---|---|
| `ResourceSyncProofs!TypeCorrect` | `[]TypeOK` | the constants' assumptions |
| `ResourceSyncProofs!PlansStayValid` | the rows a plan refers to exist until it is done, with any overlap | the same |
| `ResourceSyncProofs!SerialRunsAreBacked` | `[]SerialInv` | runs do not overlap (`Serialized`), lists do not repeat |
| `ResourceSyncProofs!RetirementIsBacked` | `[]RetiredIsBacked` | the same two |
| `ResourceSyncProofs!KeysStayUnique` | `[]OneRowPerKey` | the same two; `SyncOverlapRows` shows that the first is needed, `SyncSibling`, where a repeated key has two rows, the second |
| `SerialRunProofs!RowsStayFew` | `[]RowsDoNotAccumulate`, with any fault and any repeats | runs do not overlap |
| `ResourceSyncProofs!RetiredRowsHaveRetiredCis` | `[]RetiredRowHasRetiredCi`, with any overlap and any repeats | the "Retired" choice exists, no table access throws and no thread dies; `SyncPartial` shows the second is needed |
| `SerialRunProofs!SerialRunsImplementContract` | `ImplementsContract`: the refinement of `LifecycleContract`, with any fault | runs do not overlap, lists do not repeat |
| `SerialRunProofs!CompletedRunsAgree` | `CompletedRunAgrees`, with any fault and any repeats | runs do not overlap |
| `SerialRunProofs!MissesThatRetireAreConsecutive` | `RetiresAfterConsecutiveMisses`, with any repeats | runs do not overlap, and no table access throws and no thread dies in the middle of a plan (`PlansAreCarriedOut`) |
| `RegionSyncProofs!RegionTypeCorrect`, `TracesAgree`, `ErrorsAreClearedBySuccess` | `[]RegionTypeOK`, `[]TraceAgrees`, `ErrorIsClearedByASuccess` for any threads, programs, accounts, regions and faults | the constants' assumptions |
| `PageFetchProofs!FetchTypeCorrect` | `[]TypeOK`, so at most `MaxRetries` retries per page | the same |
| `PageFetchProofs!FetchCompleteUnlessShrunk` | `[]CompleteUnlessShrunk` for all seven classes | the same |
| `PageFetchProofs!FetchRepeatsOnlyIfGrown` | `[]RepeatsOnlyIfGrown` | the same |
| `AdaptersProofs!TokenTypeCorrect`, `PagesStayInOrder`, `CachedTokensAreCurrent` | `[]TokenTypeOK`, `[]PagesInOrder`, `CachedTokenIsCurrent` for any number of runs and pages | the same, of which `Drift` is at most `Skew` |
| `DayTwoProofs!DayTwoTypeCorrect`, `LogStaysTrue`, `OutcomesStay` | `[]TypeOK`, `[]LogIsTrue`, `OutcomeStays` for any number of requests and checkers | the same |
| `DayTwoProofs!ButtonsTypeCorrect`, `ButtonsTellTheTruth` | `[]ButtonTypeOK`, `[]ButtonTellsTruth` | the same |
| `AlarmEventsProofs!AlarmTypeCorrect`, `NothingIsLost`, `MirrorIsFaithful`, `LatestRowTellsTheState`, `OnlyRedeliveriesAreDuplicates` | `[]AlarmTypeOK`, `[]AcknowledgedIsRecorded`, `[]MirrorAgrees`, `[]EventsTellTheState`, `[]DuplicatesAreRedeliveries` for any alarms, shapes, forms of time and number of changes | the same |
| `NetworkFetchProofs!PayloadsAreContained`, `SubnetsAreUnderTheirVpc`, `MirrorOfPartsIsFaithful` | `[]PayloadIsContained`, `[]SubnetsUnderTheirVpc`, `[]MirrorOfPartsAgrees` for lists of any length | the same: there are finitely many VPCs and subnets, and "no VPC" is none of them |
| `AdaptersProofs!DiskTypeCorrect`, `ScriptIsSafeToReRun` | `[]DiskTypeOK`, `[]SafeToReRun` for any volumes and servers, any script, wherever it dies | the same |
| `AdaptersProofs!TablesComeFirst` | `[]ReferencesExist`, wherever the script dies | a script creates a table before what belongs or refers to it (`TablesFirst`); `RenderedTablesFirst` says so of the rendered ones and is evaluated by TLC |
| `AdaptersProofs!AdaptersTypeCorrect`, `AdaptersAreSafe`, `AdaptersProvisionInOrder` | `[]AdaptersTypeOK` and the safety properties of all five components in every behaviour of `Adapters` | the same, the last one with `TablesFirst` |

Arguments:

- **RetiredIsBacked** is not inductive: that a row is retired rightly depends on the
  plan it came from, and the plan on an observation. `SerialInv` adds the chain:
  every row's count is at most the observations without its resource
  (`MissesAreBacked`), between observation and plan there is room for one more
  (`PlanWillBeBacked`), and each planned write is justified by them
  (`PlanIsBacked`). `SyncSerial` checks `SerialInv` as an invariant, too. With two
  syncers it fails: the other's refresh makes a planned transition unjustified.
- **ImplementsContract**: the record of a resource is its one row (`OnlyRow`), what an
  observation still owes is what its plan still holds (`OwedWhenApplying`). Each kind of
  write changes one record and crosses one resource off (`InsertConfirms`,
  `RefreshConfirms`, `TransitionAges`), planning dismisses those with neither a sighting
  nor a row (`PlanDismisses`), every end closes the observation (`EndCloses`), and the
  rest stutters. A transition is an ageing of the record as it is only because the plan
  is current (`PlanIsCurrent`: rows do not change between the plan and its writes),
  which is where an overlapping run would break the refinement.
- **CompletedRunAgrees**: what the table does not have right yet is in the plan
  (`PlanCoversTable`), and a run completes when the plan is empty. A list that repeats a
  resource breaks `SerialInv` (two rows, of which one is refreshed), so this theorem and
  the next rest on what then remains (`RunInv`): a run writes what it saw and
  transitions the rows of what it did not see, and a retired row counts enough misses.
- **RetiresAfterConsecutiveMisses**: the only row of a resource counts no more misses
  than the latest observations without it, except while its refresh is planned or about
  to be (`MissesAreConsecutive`); rows are never deleted, so it was the only one all the
  time. A run that is cut off before the refresh leaves a row for which this is false,
  hence the assumption about writes: see section 6. TLC checked all these invariants on
  `SyncSibling`'s instance, also with both keys repeated, before they were proved.
- **RowsDoNotAccumulate**: while a plan is carried out, the rows of a resource it has yet
  to insert and the inserts that are left together number at most one, or two where the
  list repeats it (`FewRows`); a plan inserts only what has no row, and nobody else
  writes meanwhile.
- **RetiredRowHasRetiredCi** holds with overlaps because being retired, for a CI, never
  goes back while a row is: `CiInv` says of every row that its resource has a CI, and
  of every planned transition to "retired" that it retires the CI itself
  (`justRetired`) or that the CI is retired or about to be. Retiring the CI is tied to
  the transition that was planned, not to the row's state when it is carried out, so
  that another run's step in between does not lose it.
- **TraceAgrees**: in each place of the loop the run rows have one pattern (`RowsInv`):
  all running until every list is reconciled or something fails, then running or
  failed on the one path, running or completed on the other, which is entered with
  every list fetched. A success is recorded only where all are completed, which gives **ErrorIsClearedByASuccess**.
- **Offset paging** is an argument about ranks (the number of resources listed before
  one). A page holds exactly the ranks from `Skipped` to `Skipped + Limit - 1`
  (`OffsetPage`); a creation only raises ranks, a deletion only lowers them. So
  without deletions all that stayed and is unread has rank at least `Skipped`, and
  without creations all that was read has a rank below it (`OffsetInv`). When the
  loop stops although something unread lies behind the page, the page was full and
  the total larger than what was read: the loop would have gone on.
- **Marker paging**: what stayed up to the marker is read, nothing beyond it is
  (`MarkerInv`).
- **PagesInOrder**: the list read so far is the numbers from 1 to its length, and a
  retry or a second authentication leaves it alone (`PagesInv`).
  **CachedTokenIsCurrent** is arithmetic: what looks valid to a clock that is `Drift`
  behind and stops `Skew` early is valid at the service.
- **LogIsTrue** needs that whatever a checker or a request has in hand is either
  still `running` or the final status, since jobs never leave a final status.
- **ButtonTellsTruth** concerns messages that may be shown much later. `ButtonInv` says
  what was true of the request when it ended in a form that no later step can undo: a
  success is settled (job ended, row written, no checker holds anything but that
  outcome), a failure has no row, a row without a job, or a settled one, "not yet
  confirmed" has a row a checker finds, and what is only "requested" a row without a job,
  which no checker takes up. Of a failure without a row nothing is said about the job,
  because nothing can be: section 6.
- **EventsTellTheState** needs that the last change of an alarm that was sent is the one
  that tells its present state (`LastIsTrue`), and that every row is one that its message
  may leave (`RowsInv`). A row's time is its message's or missing (`RowOfNotification`),
  so that none is later than the last change.
- **MirrorAgrees**: each row is one of `EmEvents` of its message, whose fields are those of
  `BuildEventFields` whatever time the webhook made of it.
- **DuplicatesAreRedeliveries**: the composite id of an envelope is the alarm, status
  and time of its notification (`EnvelopeOfNotification`), which no two notifications
  that tell their time share.
- **The payload properties** are about sequences whose parts lie at offsets. The layout
  (`VpcLayout`) says which class lies at each index of the VPC run's payload and
  `IsVpcRelation` what its relations are, which gives the range, the classes and the
  matching of every relation. That every item is *satisfied* needs the converse: what
  must be contained or hosted has its relation (`VpcPayloadIsSatisfied`). Which
  subnets have their VPC in the payload depends on the network: `NetworkInv`, checked by
  TLC on the instance of `Adapters` before it was proved, says that once the VPCs are
  listed, one that exists is in that list or was created since (`VpcsAreListed`), and so
  is the VPC of every listed subnet (`SubnetsHaveVpcs`). Its step needs that a list of
  a finite set, being as long as the set and without repetition, has every element of it.
  The combination of the parts has the same items, as concatenation is associative, and
  the same relations, as each is moved by the length of what precedes its part
  (`MirrorHasTheItems`, `MirrorHasTheRelations`).
- **SafeToReRun**: between the query that finds nothing and the insert nothing else
  inserts, and what precedes the runner's place is there (`ProvisionInv`). Hence
  **ReferencesExist** in a script in which tables come first.
- **AdaptersAreSafe**: a step of `Adapters` is one of a component and leaves the others
  alone, so that what is proved of a component holds of it there.

Only model-checked, and why:

- liveness (`FetchEnds`, `GoneIsRetired`, `GoneIsRetiredBesideOthers`, `LiveIsActive`,
  `EnabledRegionIsSynced`, `BrokenRegionShowsError`, `DisabledRegionRests`,
  `ManagedRowResolves`, `DisksSettle`, `NotificationArrives`, `RunEnds`): temporal
  reasoning about fairness is out of the prover's reach;
- `RenderedTablesFirst`: the generator's depth-first sort is a `RECURSIVE` operator.

Every invariant and action property of the passing runs is stated by a theorem.

## 6. What the checks found

The five violation runs above, and, seen while modelling and left without a run of
their own:

- When runs overlap, a stale transition may retire a resource that was seen in
  between (`ApplyTransition` writes what was planned); a later run revives it.
- A run that saw a resource but threw before its refresh does not reset the count.
- A resource listed twice gets two rows (`lib/syncStatePlanner.js:43-46` plans an insert
  for each entry it finds no row for), although the schema says "One row per (account,
  region, resource_type, native_key)" (`tables/hc_resource_sync_state.schema.json:5`);
  one of them is refreshed from then on, the other keeps its old count until the resource
  is gone.
- A resource that returns gets its row active, but its CI stays "Retired".
- One `last_error` serves all types of a region: the success of one type clears the
  error another has just written, until that one runs again.
- After the last volume of a server is detached its CI keeps the last disk sums.
- CCE and OBS retry answers that are not retryable.
- With two checkers, a late `running` may overwrite an outcome until the next poll.
- Every status that is not a 2xx is logged and thrown as a failure
  (`sg/HcConnectorEcsLifecycleAction.js:192`), a gateway's 5xx included, after which the
  job may run: "both mean "the caller's requested action did not happen."" (lines 150-152)
  is more than the code can know. A job whose request was answered so, or not at all, or
  whose log row cannot be written, has no row in the action log that the poller could
  resolve; the button says "failed".
- The webhook converts a time that is a number, takes a string for a date, and inserts
  the event without a time where neither works (`event-management/webhook-scripted-rest.js:100-110`),
  where `event-management/lib/mapAlarmToEvent.js:97` passes the time on as it came; its
  lines 3-6 say "Mirrored inline in webhook-scripted-rest.js" and "Keep both in sync".
- The five unscheduled orchestrators and VPC show an error in every region that has none
  of their resources, until a success of another type clears it, and again after.
- Notifications without a time share one composite id per alarm and state: of such an
  alarm the second firing would be a duplicate.
- A partial list of the password-authenticated fetch looks like a complete one.
- A subscription whose confirming GET failed is acknowledged and stays unconfirmed
  until somebody asks for the message again.
- A subnet whose VPC was created between the two lists is sent without a relation, for
  this run.

## 7. Not modelled

- Signing and hashing (`disco/lib/huaweiAkSkSigner.js`, `pureJsSha*.js`): functions on
  bytes with known-answer tests; an instance small enough for TLC is not that hash.
- Masking, composite keys and request bodies (`lib/payloadSanitizer.js`,
  `compositeKey.js`, `ecsLifecycleAction.js`): string building without state, which the
  models replace by opaque names.
- The other fields of items, rows and messages; wording; logging; timings and counters.
- Build scripts and generated documents (`scripts/build-script-include.js`,
  `check-mirror-drift.js`, `generate-table-docs.js`, `docs/generated/`): text
  generation. The generated script includes are the classes modelled above with their
  modules inlined; the generated provisioning script is `Provisioning`.
- Terraform and CI: description, no program.
- Credentials are modelled by whether `getCredentials` throws; the names of the
  properties they are read from are not.

## 8. Plan

Order: what decides about retirement first.

1. Done: the sync of one type (`ResourceLifecycle`, `SyncStatePlanner`,
   `LifecycleContract`, `ResourceSync`), then `PageFetch`, `DayTwoAction`; then what is
   around them: `RegionSync`, `DiskFields`, `DayTwoButtons`, `IrePayload` with
   `NetworkFetch`, `AlarmEvents`, `TokenFetch`, `ProvisionScript`, `Provisioning`; and the
   proofs of every safety and action property of the passing runs and of the refinement
   of `LifecycleContract`.
2. Left: a composition of `ResourceSync` with `PageFetch` in place of `FetchReturns`
   (now joined by what `PageFetchProofs` proves of the fetch, of which `FetchReturns`
   allows all), and of the sync's rows with `DayTwoAction`'s environment.
3. Left to prove: the refinement of `LifecycleContract` for the resources a list does
   not repeat, beside others that it does.
