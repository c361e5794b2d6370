----------------------------- MODULE ResourceSync -----------------------------
(***************************************************************************)
(* The sync of one (account, region, resource type): HcConnectorEcsSync.js *)
(* and the orchestrators written after it. A syncer is a thread that runs  *)
(* runAll(): the scheduled job, or the "Run Sync Now" button. Every step   *)
(* below is one database or network access of _runForAccountRegion, so     *)
(* that two syncers interleave the way two such threads do.                *)
(*                                                                         *)
(* The cloud changes at any time, a fetch included. What a fetch returns   *)
(* when it returns is what PageFetch proves of the page loops: nothing     *)
(* that never was there, something if anything was there throughout, and   *)
(* all of that, unless the pages are offsets and a resource was destroyed  *)
(* meanwhile; where one was created meanwhile, an offset may list another  *)
(* twice.                                                                  *)
(*                                                                         *)
(* A reconciled resource has its CI, found by correlation_id: a row's `ci` *)
(* reference is the CI of its key and needs no variable.                   *)
(***************************************************************************)
EXTENDS SyncStatePlanner, FiniteSets

CONSTANTS
    Syncers,              \* threads that run runAll()
    Orchestrator,         \* which Script Include the syncers run
    MayRepeat,            \* resources that offset paging may list twice (a third
                          \* time takes page_limit creations during one fetch)
    Others,               \* the lists hold further resources, which Keys leaves
                          \* out: they come and go, but never all
    RetiredChoiceDefined, \* sys_choice has a "Retired" install_status
    Faults                \* failures that may happen in this instance

FaultKinds == {"fetch", "reconcile", "apply", "crash"}

(* The orchestrators run the same steps. They differ in whether an empty   *)
(* result skips reconcileCIs, and in whether their lists come in pages     *)
(* found by an offset, which may then list a resource twice.               *)
HcConnectorEcsSync == [skipsEmpty |-> TRUE, listsByOffset |-> TRUE]
HcConnectorEvsSync == [skipsEmpty |-> FALSE, listsByOffset |-> TRUE]
HcConnectorRdsSync == [skipsEmpty |-> FALSE, listsByOffset |-> TRUE]
HcConnectorElbSync == [skipsEmpty |-> FALSE, listsByOffset |-> FALSE]
HcConnectorCceSync == [skipsEmpty |-> FALSE, listsByOffset |-> FALSE]
HcConnectorObsSync == [skipsEmpty |-> FALSE, listsByOffset |-> FALSE]
\* Its keys are those of four types. It plans them apart and writes them
\* together: all inserts, all refreshes, all transitions. Its four lists are
\* one here, fetched over one window, and its four run rows, which always
\* start and end alike, are one.
HcConnectorVpcSync == [skipsEmpty |-> FALSE, listsByOffset |-> FALSE]

Orchestrators ==
    {HcConnectorEcsSync, HcConnectorEvsSync, HcConnectorRdsSync, HcConnectorElbSync,
     HcConnectorCceSync, HcConnectorObsSync, HcConnectorVpcSync}

ASSUME KeysAssumption == IsFiniteSet(Keys)
ASSUME SwitchAssumption ==
    /\ Orchestrator \in Orchestrators
    /\ MayRepeat \subseteq Keys
    /\ MayRepeat # {} => Orchestrator.listsByOffset
    /\ Others \in BOOLEAN
    /\ RetiredChoiceDefined \in BOOLEAN
    /\ Faults \subseteq FaultKinds

VARIABLES
    cloud,         \* the resources that exist at Huawei Cloud
    rows,          \* the HC Resource Sync State table
    cis,           \* the CMDB: install_status of each resource's CI
    record,        \* each syncer's current hc_discovery_run row
    regionError,   \* hc_cloud_region.last_error is set
    pc,            \* where each syncer is
    window,        \* what has happened at Huawei Cloud since its fetch began
    seen,          \* what its fetch returned
    repeated,      \* what its fetch listed twice (and is not inserted twice yet)
    toInsert,      \* its plan, as far as it is not yet written
    toRefresh,
    toTransition,
    retiring,      \* the CI it has yet to retire, after its row
    missed,        \* history: complete observations without the resource
                   \* since its row was last made fresh
    absences       \* history: consecutive complete observations without it

cloudVars == <<cloud, window>>
tableVars == <<rows, cis>>
reportVars == <<record, regionError>>
planVars == <<toInsert, toRefresh, toTransition, retiring>>
historyVars == <<missed, absences>>

vars == <<cloud, rows, cis, record, regionError, pc, window, seen, repeated,
          toInsert, toRefresh, toTransition, retiring, missed, absences>>

Step == {"idle", "fetching", "reconciling", "planning", "applying"}

\* The resources that were there throughout, those that ever were, and whether
\* any was destroyed or created.
Window == [always : SUBSET Keys, ever : SUBSET Keys, shrunk : BOOLEAN, grown : BOOLEAN]
OpenWindow(S) == [always |-> S, ever |-> S, shrunk |-> FALSE, grown |-> FALSE]
NoWindow == OpenWindow({})

Record == [state : {"none", "running", "completed", "failed"}, error : BOOLEAN]

RunningRecord == [state |-> "running", error |-> FALSE]

\* finishRun: a run without a success is a failure when something failed or
\* an error was reported, and a completed no-op otherwise.
FinishRun(success, fail, error) ==
    [state |-> IF success = 0 /\ (fail > 0 \/ error) THEN "failed" ELSE "completed",
     error |-> error]

Init ==
    /\ cloud \in SUBSET Keys
    /\ rows = [r \in RowIds |-> NoRow]
    /\ cis = [k \in Keys |-> "absent"]
    /\ record = [s \in Syncers |-> [state |-> "none", error |-> FALSE]]
    /\ regionError = FALSE
    /\ pc = [s \in Syncers |-> "idle"]
    /\ window = [s \in Syncers |-> NoWindow]
    /\ seen = [s \in Syncers |-> {}]
    /\ repeated = [s \in Syncers |-> {}]
    /\ toInsert = [s \in Syncers |-> {}]
    /\ toRefresh = [s \in Syncers |-> {}]
    /\ toTransition = [s \in Syncers |-> {}]
    /\ retiring = [s \in Syncers |-> {}]
    /\ missed = [k \in Keys |-> 0]
    /\ absences = [k \in Keys |-> 0]

-----------------------------------------------------------------------------
(* The environment: resources are created and destroyed in the cloud.      *)

CreateResource(k) ==
    /\ k \notin cloud
    /\ cloud' = cloud \cup {k}
    /\ window' = [s \in Syncers |->
                    IF pc[s] = "fetching"
                    THEN [window[s] EXCEPT !.ever = @ \cup {k}, !.grown = TRUE]
                    ELSE window[s]]
    /\ UNCHANGED <<tableVars, reportVars, pc, seen, repeated, planVars, historyVars>>

DestroyResource(k) ==
    /\ k \in cloud
    /\ cloud' = cloud \ {k}
    /\ window' = [s \in Syncers |->
                    IF pc[s] = "fetching"
                    THEN [window[s] EXCEPT !.always = @ \ {k}, !.shrunk = TRUE]
                    ELSE window[s]]
    /\ UNCHANGED <<tableVars, reportVars, pc, seen, repeated, planVars, historyVars>>

\* One of the others is destroyed, or created.
OthersChange ==
    /\ Others
    /\ \E destroyed \in BOOLEAN :
          window' = [s \in Syncers |->
                       IF pc[s] = "fetching"
                       THEN [window[s] EXCEPT !.shrunk = @ \/ destroyed,
                                              !.grown = @ \/ ~destroyed]
                       ELSE window[s]]
    /\ UNCHANGED <<cloud, tableVars, reportVars, pc, seen, repeated, planVars, historyVars>>

CloudChanges ==
    \/ \E k \in Keys : CreateResource(k) \/ DestroyResource(k)
    \/ OthersChange

-----------------------------------------------------------------------------
(* One run of one syncer.                                                  *)

\* The run's locals are gone when it returns, however it returns.
DropLocals(s) ==
    /\ pc' = [pc EXCEPT ![s] = "idle"]
    /\ window' = [window EXCEPT ![s] = NoWindow]
    /\ seen' = [seen EXCEPT ![s] = {}]
    /\ repeated' = [repeated EXCEPT ![s] = {}]
    /\ toInsert' = [toInsert EXCEPT ![s] = {}]
    /\ toRefresh' = [toRefresh EXCEPT ![s] = {}]
    /\ toTransition' = [toTransition EXCEPT ![s] = {}]
    /\ retiring' = [retiring EXCEPT ![s] = {}]

\* Both catch blocks of _runForAccountRegion: the error goes to the region,
\* the run row is finished as failed, and nothing after it runs.
FailRun(s, fail) ==
    /\ record' = [record EXCEPT ![s] = FinishRun(0, fail, TRUE)]
    /\ regionError' = TRUE
    /\ DropLocals(s)

StartRun(s) ==
    /\ pc[s] = "idle"
    /\ pc' = [pc EXCEPT ![s] = "fetching"]
    /\ record' = [record EXCEPT ![s] = RunningRecord]
    /\ window' = [window EXCEPT ![s] = OpenWindow(cloud)]
    /\ UNCHANGED <<cloud, tableVars, regionError, seen, repeated, planVars, historyVars>>

\* Mutant: a fetch that failed is taken for one that found nothing.
FetchFailureIsEmpty(s) ==
    /\ "fetch" \in Faults
    /\ pc[s] = "fetching"
    /\ pc' = [pc EXCEPT ![s] = "planning"]
    /\ window' = [window EXCEPT ![s] = NoWindow]
    /\ UNCHANGED <<cloud, tableVars, reportVars, seen, repeated, planVars, historyVars>>

\* No credentials, a status that is not retried, retries exhausted.
FetchFails(s) ==
    /\ "fetch" \in Faults
    /\ pc[s] = "fetching"
    /\ FailRun(s, 0)
    /\ UNCHANGED <<cloud, tableVars, historyVars>>

\* See PageFetch!CompleteUnlessShrunk and PageFetch!RepeatsOnlyIfGrown.
FetchReturns(s) ==
    /\ pc[s] = "fetching"
    /\ \E S \in SUBSET window[s].ever :
          /\ window[s].always # {} => S # {} \/ Others
          /\ \/ window[s].always \subseteq S
             \/ Orchestrator.listsByOffset /\ window[s].shrunk
          /\ seen' = [seen EXCEPT ![s] = S]
          /\ \E R \in SUBSET (S \cap MayRepeat) :
                /\ R # {} => window[s].grown
                /\ repeated' = [repeated EXCEPT ![s] = R]
    /\ window' = [window EXCEPT ![s] = NoWindow]
    /\ pc' = [pc EXCEPT ![s] = "reconciling"]
    /\ UNCHANGED <<cloud, tableVars, reportVars, planVars, historyVars>>

ListedNothing(s) == seen[s] = {} /\ ~Others

\* IRE creates the CIs that are missing. Its payload carries no
\* install_status: a retired CI stays retired.
Reconciled(S) == [k \in Keys |-> IF k \in S /\ cis[k] = "absent" THEN "operational" ELSE cis[k]]

\* The run becomes a complete observation: the fetch returned and IRE, when
\* it was called, reported no error.
ReconcileSucceeds(s) ==
    /\ pc[s] = "reconciling"
    /\ ListedNothing(s) => Orchestrator.skipsEmpty
    /\ cis' = Reconciled(seen[s])
    /\ pc' = [pc EXCEPT ![s] = "planning"]
    /\ missed' = [k \in Keys |-> IF k \in seen[s] THEN missed[k] ELSE Saturate(missed[k] + 1)]
    /\ absences' = [k \in Keys |-> IF k \in seen[s] THEN 0 ELSE Saturate(absences[k] + 1)]
    /\ UNCHANGED <<cloud, window, rows, reportVars, seen, repeated, planVars>>

\* IRE threw or reported errors, having written some of the CIs.
ReconcileFails(s) ==
    /\ "reconcile" \in Faults
    /\ pc[s] = "reconciling"
    /\ ~ListedNothing(s)
    /\ \E S \in SUBSET seen[s] : cis' = Reconciled(S)
    /\ FailRun(s, Cardinality(seen[s]))
    /\ UNCHANGED <<cloud, rows, historyVars>>

\* reconcileCIs([]) returns undefined, which every orchestrator but the ECS
\* one takes for an IRE failure.
EmptyReconcileFails(s) ==
    /\ pc[s] = "reconciling"
    /\ ListedNothing(s) /\ ~Orchestrator.skipsEmpty
    /\ FailRun(s, 0)
    /\ UNCHANGED <<cloud, tableVars, historyVars>>

\* The rows are read once; everything written later is decided here.
PlanUpdates(s) ==
    /\ pc[s] = "planning"
    /\ pc' = [pc EXCEPT ![s] = "applying"]
    /\ \E index \in RowIndexes(rows) :
          toRefresh' = [toRefresh EXCEPT ![s] = ToRefresh(seen[s], rows, index)]
    /\ toInsert' = [toInsert EXCEPT ![s] = ToInsert(seen[s], rows)]
    /\ toTransition' = [toTransition EXCEPT ![s] = ToTransition(seen[s], rows)]
    /\ UNCHANGED <<cloudVars, tableVars, reportVars, seen, repeated, retiring, historyVars>>

\* The sys_id of a new row is one no row has; which one is immaterial.
NewRowId == CHOOSE r \in RowIds : rows[r] = NoRow

\* An insert is blind: the row is new even if another run made one meanwhile,
\* or this one, for the first entry of a resource that was listed twice.
ApplyInsert(s, k, r) ==
    /\ pc[s] = "applying"
    /\ k \in toInsert[s]
    /\ rows[r] = NoRow /\ r = NewRowId
    /\ rows' = [rows EXCEPT ![r] = FreshRow(k)]
    /\ IF k \in repeated[s]
       THEN repeated' = [repeated EXCEPT ![s] = @ \ {k}] /\ UNCHANGED toInsert
       ELSE toInsert' = [toInsert EXCEPT ![s] = @ \ {k}] /\ UNCHANGED repeated
    /\ missed' = [missed EXCEPT ![k] = 0]
    /\ UNCHANGED <<cloudVars, cis, reportVars, pc, seen,
                   toRefresh, toTransition, retiring, absences>>

\* Mutant: a resource that is back keeps the misses it had.
ApplyRefreshKeepingMisses(s, r) ==
    /\ pc[s] = "applying"
    /\ toInsert[s] = {}
    /\ r \in toRefresh[s]
    /\ rows' = [rows EXCEPT ![r].status = "active"]
    /\ toRefresh' = [toRefresh EXCEPT ![s] = @ \ {r}]
    /\ missed' = [missed EXCEPT ![rows[r].key] = 0]
    /\ UNCHANGED <<cloudVars, cis, reportVars, pc, seen, repeated,
                   toInsert, toTransition, retiring, absences>>

ApplyRefresh(s, r) ==
    /\ pc[s] = "applying"
    /\ toInsert[s] = {}
    /\ r \in toRefresh[s]
    /\ rows' = [rows EXCEPT ![r] = FreshRow(rows[r].key)]
    /\ toRefresh' = [toRefresh EXCEPT ![s] = @ \ {r}]
    /\ missed' = [missed EXCEPT ![rows[r].key] = 0]
    /\ UNCHANGED <<cloudVars, cis, reportVars, pc, seen, repeated,
                   toInsert, toTransition, retiring, absences>>

\* The row is read again for its CI only; status and count are the planned
\* ones, whatever the row holds by now.
ApplyTransition(s, t) ==
    /\ pc[s] = "applying"
    /\ toInsert[s] = {} /\ toRefresh[s] = {} /\ retiring[s] = {}
    /\ t \in toTransition[s]
    /\ rows' = [rows EXCEPT ![t.row] =
                  [key |-> rows[t.row].key, status |-> t.status, miss |-> t.miss]]
    /\ toTransition' = [toTransition EXCEPT ![s] = @ \ {t}]
    /\ retiring' = [retiring EXCEPT ![s] = IF t.justRetired THEN {rows[t.row].key} ELSE {}]
    /\ UNCHANGED <<cloudVars, cis, reportVars, pc, seen, repeated, toInsert, toRefresh, historyVars>>

\* Mutant: the CI is looked up among those of this run's resources.
RetireCiIfSeen(s, k) ==
    /\ k \in retiring[s]
    /\ cis' = IF RetiredChoiceDefined /\ k \in seen[s]
              THEN [cis EXCEPT ![k] = "retired"] ELSE cis
    /\ retiring' = [retiring EXCEPT ![s] = {}]
    /\ UNCHANGED <<cloudVars, rows, reportVars, pc, seen, repeated,
                   toInsert, toRefresh, toTransition, historyVars>>

RetireCi(s, k) ==
    /\ k \in retiring[s]
    /\ cis' = IF RetiredChoiceDefined /\ cis[k] # "absent"
              THEN [cis EXCEPT ![k] = "retired"] ELSE cis
    /\ retiring' = [retiring EXCEPT ![s] = {}]
    /\ UNCHANGED <<cloudVars, rows, reportVars, pc, seen, repeated,
                   toInsert, toRefresh, toTransition, historyVars>>

\* Mutant: the exception is logged and the run finished as if it were done.
ApplyThrowsUnnoticed(s) ==
    /\ "apply" \in Faults
    /\ pc[s] \in {"planning", "applying"}
    /\ record' = [record EXCEPT ![s] = FinishRun(Cardinality(seen[s]), 0, FALSE)]
    /\ DropLocals(s)
    /\ UNCHANGED <<cloud, tableVars, regionError, historyVars>>

\* A table access throws half way: what was written stays written.
ApplyThrows(s) ==
    /\ "apply" \in Faults
    /\ pc[s] \in {"planning", "applying"}
    /\ FailRun(s, Cardinality(seen[s]))
    /\ UNCHANGED <<cloud, tableVars, historyVars>>

PlanDone(s) ==
    /\ pc[s] = "applying"
    /\ toInsert[s] = {} /\ toRefresh[s] = {} /\ toTransition[s] = {} /\ retiring[s] = {}

\* insertCount + refreshCount is the number of resources seen.
CompleteRun(s) ==
    /\ PlanDone(s)
    /\ record' = [record EXCEPT ![s] = FinishRun(Cardinality(seen[s]), 0, FALSE)]
    /\ regionError' = FALSE
    /\ DropLocals(s)
    /\ UNCHANGED <<cloud, tableVars, historyVars>>

\* The node restarts or the job is cancelled: nobody finishes the run row.
Crash(s) ==
    /\ "crash" \in Faults
    /\ pc[s] # "idle"
    /\ DropLocals(s)
    /\ UNCHANGED <<cloud, tableVars, reportVars, historyVars>>

Run(s) ==
    \/ StartRun(s)
    \/ FetchFails(s) \/ FetchReturns(s)
    \/ ReconcileSucceeds(s) \/ ReconcileFails(s) \/ EmptyReconcileFails(s)
    \/ PlanUpdates(s)
    \/ \E k \in Keys, r \in RowIds : ApplyInsert(s, k, r)
    \/ \E r \in RowIds : ApplyRefresh(s, r)
    \/ \E t \in toTransition[s] : ApplyTransition(s, t)
    \/ \E k \in Keys : RetireCi(s, k)
    \/ ApplyThrows(s) \/ CompleteRun(s)
    \/ Crash(s)

Next ==
    \/ CloudChanges
    \/ \E s \in Syncers : Run(s)

Spec == Init /\ [][Next]_vars

-----------------------------------------------------------------------------
(* Fairness. Runs start again and again - the ECS and VPC orchestrators are *)
(* scheduled; of the others it assumes that somebody goes on pressing "Run  *)
(* Sync Now" - and a started run goes on to its next step (weak fairness).  *)
(* Outages are assumed not to meet every run: a step that fails now and     *)
(* then also succeeds now and then (strong fairness). The cloud is under no *)
(* obligation.                                                              *)

Fairness(s) ==
    /\ WF_vars(StartRun(s))
    /\ SF_vars(FetchReturns(s))
    /\ SF_vars(ReconcileSucceeds(s))
    /\ WF_vars(EmptyReconcileFails(s))
    /\ WF_vars(PlanUpdates(s))
    /\ WF_vars(\E k \in Keys, r \in RowIds : ApplyInsert(s, k, r))
    /\ WF_vars(\E r \in RowIds : ApplyRefresh(s, r))
    /\ WF_vars(\E t \in toTransition[s] : ApplyTransition(s, t))
    /\ WF_vars(\E k \in Keys : RetireCi(s, k))
    /\ WF_vars(CompleteRun(s))

FairSpec == Spec /\ \A s \in Syncers : Fairness(s)

-----------------------------------------------------------------------------
(* Properties.                                                             *)

TypeOK ==
    /\ cloud \in SUBSET Keys
    /\ rows \in Table
    /\ cis \in [Keys -> {"absent", "operational", "retired"}]
    /\ record \in [Syncers -> Record]
    /\ regionError \in BOOLEAN
    /\ pc \in [Syncers -> Step]
    /\ window \in [Syncers -> Window]
    /\ seen \in [Syncers -> SUBSET Keys]
    /\ repeated \in [Syncers -> SUBSET MayRepeat]
    /\ toInsert \in [Syncers -> SUBSET Keys]
    /\ toRefresh \in [Syncers -> SUBSET RowIds]
    /\ toTransition \in [Syncers -> SUBSET Transitions]
    /\ retiring \in [Syncers -> SUBSET Keys]
    /\ missed \in [Keys -> 0..MissCap]
    /\ absences \in [Keys -> 0..MissCap]

\* Rows are never deleted: what a plan refers to is still there when the
\* writes get to it, whoever wrote to the table in between.
PlannedRowsExist ==
    \A s \in Syncers :
        /\ toRefresh[s] \subseteq RowsOf(rows)
        /\ \A t \in toTransition[s] : t.row \in RowsOf(rows)

\* "One row per (account, region, resource_type, native_key)", although the
\* orchestrators insert blindly what the plan read as missing and nothing
\* below them enforces it.
OneRowPerKey ==
    \A q, r \in RowsOf(rows) : rows[q].key = rows[r].key => q = r

\* Runs that do not overlap insert only for resources without any row, be it a
\* retired one: a resource that a fetch listed twice has the two rows of that
\* fetch, and no later run, listing it twice again after whatever failures,
\* adds a third; any other resource has one row for good.
RowsDoNotAccumulate ==
    \A k \in Keys : Cardinality(RowsFor(rows, k)) <= IF k \in MayRepeat THEN 2 ELSE 1

\* A row is retired only after as many complete observations without its
\* resource as the threshold asks for, all of them after the row was last
\* made fresh: failed fetches, failed reconciliations, exceptions and
\* crashes never count as misses, and no observation counts twice.
RetiredIsBacked ==
    \A r \in RowsOf(rows) :
        rows[r].status = "retired" => missed[rows[r].key] >= EffectiveThreshold

\* ... and at the step that retires it those observations are consecutive:
\* no complete observation in between saw the resource. (Of the two rows of a
\* resource that was listed twice only one is refreshed when it is seen: the
\* other goes on counting.)
RetiresAfterConsecutiveMisses ==
    [][\A r \in RowsOf(rows) :
          (/\ rows[r].status # "retired" /\ rows'[r].status = "retired"
           /\ RowsFor(rows, rows[r].key) = {r})
              => absences[rows[r].key] >= EffectiveThreshold]_vars

\* A run that is recorded as completed leaves the table in agreement with
\* what it saw: every resource seen has an active row, no other row is active.
CompletedRunAgrees ==
    [][\A s \in Syncers :
          (record[s].state = "running" /\ record'[s].state = "completed")
              => /\ \A k \in seen[s] : \E r \in RowsFor(rows, k) : rows[r].status = "active"
                 /\ \A r \in RowsOf(rows) : rows[r].key \notin seen[s] => rows[r].status # "active"]_vars

\* The resource of a retired row has its CI retired in the CMDB, or a run
\* is about to do it: the one write that does it is never forgotten.
RetiredRowHasRetiredCi ==
    \A r \in RowsOf(rows) :
        rows[r].status = "retired" =>
            \/ cis[rows[r].key] = "retired"
            \/ \E s \in Syncers : rows[r].key \in retiring[s]

\* A resource that is gone for good ends up retired: syncs keep running and
\* outages end, so its rows do not stay active or pending for ever.
GoneIsRetired ==
    \A k \in Keys :
        <>[](k \notin cloud) => <>[](\A r \in RowsFor(rows, k) : rows[r].status = "retired")

\* ... and where a run that sees nothing at all is a failed run, it does so as
\* long as some resource of its type stays.
GoneIsRetiredBesideOthers ==
    \A j, k \in Keys :
        <>[](j \in cloud /\ k \notin cloud)
            => <>[](\A r \in RowsFor(rows, k) : rows[r].status = "retired")

\* A resource that stays is on record as active in the end, whatever
\* earlier or overlapping runs had decided about it, unless it is skipped
\* again and again because others are destroyed during fetch after fetch.
LiveIsActive ==
    \A k \in Keys :
        <>[](k \in cloud /\ \A s \in Syncers : ~window[s].shrunk)
            => <>[](\E r \in RowsFor(rows, k) : rows[r].status = "active")

-----------------------------------------------------------------------------
(* Serialized runs implement LifecycleContract.                            *)

\* The resource a serialized run has an unsettled decision about.
Unsettled(s) ==
    CASE pc[s] = "planning" -> Keys
      [] pc[s] = "applying" ->
            toInsert[s] \cup {rows[r].key : r \in toRefresh[s]}
                        \cup {rows[t.row].key : t \in toTransition[s]}
      [] OTHER -> {}

RecordOf(k) ==
    IF RowsFor(rows, k) = {} THEN NoRow
    ELSE LET row == rows[CHOOSE r \in RowsFor(rows, k) : TRUE]
         IN  [status |-> row.status, miss |-> row.miss]

Observed == UNION {seen[s] : s \in {q \in Syncers : pc[q] \in {"planning", "applying"}}}

Contract == INSTANCE LifecycleContract WITH
    NoRecord <- NoRow,
    records <- [k \in Keys |-> RecordOf(k)],
    sighted <- Observed,
    due <- UNION {Unsettled(s) : s \in Syncers}

\* Each write of a run is the one change the contract allows for a resource:
\* fresh if the observation sighted it, one miss older if not, once each.
ImplementsContract == Contract!Spec

-----------------------------------------------------------------------------
(* The inductive strengthening of RetiredIsBacked and OneRowPerKey when     *)
(* runs do not overlap and no fetch lists a resource twice.                 *)

\* A row never counts more misses than observations that justify them.
MissesAreBacked ==
    \A r \in RowsOf(rows) :
        /\ rows[r].miss <= missed[rows[r].key]
        /\ rows[r].status = "retired" => rows[r].miss >= EffectiveThreshold

\* Between the observation and the plan every row of a resource that was
\* not seen may count one more miss.
PlanWillBeBacked ==
    \A s \in Syncers : pc[s] = "planning" =>
        \A r \in RowsOf(rows) :
            rows[r].key \notin seen[s] => Saturate(rows[r].miss + 1) <= missed[rows[r].key]

\* What the plan holds: inserts and refreshes of resources seen, transitions
\* of rows of resources not seen, each transition backed.
PlanIsBacked ==
    \A s \in Syncers :
        /\ toInsert[s] \subseteq seen[s] \ KeysOf(rows)
        /\ \A r \in toRefresh[s] : rows[r].key \in seen[s]
        /\ \A t \in toTransition[s] :
              /\ rows[t.row].key \notin seen[s]
              /\ t.miss <= missed[rows[t.row].key]
              /\ t.status = "retired" => t.miss >= EffectiveThreshold

PlanOnlyWhenApplying ==
    \A s \in Syncers : pc[s] # "applying" =>
        toInsert[s] = {} /\ toRefresh[s] = {} /\ toTransition[s] = {}

\* The inductive invariant of serialized runs: every row, every planned
\* write and every count is justified by the observations made so far.
SerialInv ==
    /\ TypeOK
    /\ PlannedRowsExist
    /\ OneRowPerKey
    /\ MissesAreBacked
    /\ PlanWillBeBacked
    /\ PlanIsBacked
    /\ PlanOnlyWhenApplying

=============================================================================
