------------------------------ MODULE RegionSync ------------------------------
(***************************************************************************)
(* What surrounds the sync of one resource type in one region: runAll()    *)
(* goes through the accounts and their regions, a thread (the scheduled    *)
(* job, the "Run Sync Now" button, an administrator) calls runAll() of     *)
(* several orchestrators one after the other, and all of them write the    *)
(* status of the region they share. The VPC orchestrator keeps four run    *)
(* rows under one trace id. Every step is one access to a table or to      *)
(* Huawei Cloud; what a reconciliation does inside is ResourceSync.        *)
(***************************************************************************)
EXTENDS Naturals, Sequences, FiniteSets

CONSTANTS
    Accounts,      \* active HC Cloud Accounts
    Regions,       \* HC Cloud Regions
    AccountOf,     \* the account of each region
    NoCredentials, \* accounts whose getCredentials() throws (auth_mode agency)
    Threads,
    Program,       \* what each thread calls: a sequence of orchestrators
    Scheduled,     \* threads that start again and again
    MayStock,      \* <<region, type>>: where there may be resources of a type
    NoRegion,
    MaxFaults      \* bound: accesses that throw, and crashes, in all

(* An orchestrator, as far as it matters here, is the sequence of the      *)
(* resource types it keeps run rows of. Its record stands for its own copy *)
(* of the methods that read accounts and regions and write run rows and    *)
(* region status, the same in all seven; the actions below model them. All *)
(* but the ECS one fail where they find nothing (see ResourceSync).        *)
HcConnectorEcsSync == <<"ecs">>
HcConnectorEvsSync == <<"evs">>
HcConnectorElbSync == <<"elb">>
HcConnectorRdsSync == <<"rds">>
HcConnectorCceSync == <<"cce">>
HcConnectorObsSync == <<"obs">>
HcConnectorVpcSync == <<"vpc", "subnet", "security_group", "eip">>

Orchestrators ==
    {HcConnectorEcsSync, HcConnectorEvsSync, HcConnectorElbSync, HcConnectorRdsSync,
     HcConnectorCceSync, HcConnectorObsSync, HcConnectorVpcSync}

hc_connector_scheduled_sync == <<HcConnectorEcsSync, HcConnectorVpcSync>>
hc_cloud_account_run_sync_now == <<HcConnectorEcsSync, HcConnectorVpcSync>>

ASSUME RegionsAssumption ==
    /\ AccountOf \in [Regions -> Accounts]
    /\ NoCredentials \subseteq Accounts
    /\ NoRegion \notin Regions
    /\ Program \in [Threads -> Seq(Orchestrators) \ {<<>>}]
    /\ Scheduled \subseteq Threads
    /\ MaxFaults \in Nat

VARIABLES
    enabled,    \* regions that are active and sync_enabled
    stock,      \* <<region, type>>: where there are resources of a type
    lastError,  \* regions whose last_error is set
    at,         \* each thread: which call of its program; 0: none
    pc,         \* where it is in that call
    accounts,   \* the accounts runAll() read and has not reached
    regions,    \* the regions of one account, likewise
    region,     \* the region being synced
    fetched,    \* how many of its lists have been fetched
    found,      \* one of those lists held a resource
    trace,      \* the states of its run rows, in the order of their types
    faults      \* how often something has failed so far

positionVars == <<at, accounts, regions, region>>
worldVars == <<enabled, stock>>
runVars == <<fetched, found, trace>>
vars == <<worldVars, lastError, pc, positionVars, runVars, faults>>

Steps == {"idle", "starting", "looping", "inserting", "fetching", "reconciling",
          "failing", "failed", "finishing", "recording", "caught"}
RowState == {"running", "completed", "failed"}

Types(t) == Program[t][at[t]]

Init ==
    /\ enabled = Regions
    /\ stock \in SUBSET MayStock
    /\ lastError = {}
    /\ at = [t \in Threads |-> 0]
    /\ pc = [t \in Threads |-> "idle"]
    /\ accounts = [t \in Threads |-> {}]
    /\ regions = [t \in Threads |-> {}]
    /\ region = [t \in Threads |-> NoRegion]
    /\ fetched = [t \in Threads |-> 0]
    /\ found = [t \in Threads |-> FALSE]
    /\ trace = [t \in Threads |-> <<>>]
    /\ faults = 0

Goto(t, step) == pc' = [pc EXCEPT ![t] = step]

\* An administrator switches a region on or off.
Switch(r) ==
    /\ enabled' = IF r \in enabled THEN enabled \ {r} ELSE enabled \cup {r}
    /\ UNCHANGED <<stock, lastError, pc, positionVars, runVars, faults>>

\* The first resource of a type appears in a region, or the last one goes.
Restock(p) ==
    /\ stock' = IF p \in stock THEN stock \ {p} ELSE stock \cup {p}
    /\ UNCHANGED <<enabled, lastError, pc, positionVars, runVars, faults>>

-----------------------------------------------------------------------------
(* runAll(): nothing outside the loop's body is in a try block.            *)

Start(t) ==
    /\ pc[t] = "idle"
    /\ Goto(t, "starting")
    /\ at' = [at EXCEPT ![t] = 1]
    /\ UNCHANGED <<worldVars, lastError, accounts, regions, region, runVars, faults>>

GetActiveAccounts(t) ==
    /\ pc[t] = "starting"
    /\ Goto(t, "looping")
    /\ accounts' = [accounts EXCEPT ![t] = Accounts]
    /\ UNCHANGED <<worldVars, lastError, at, regions, region, runVars, faults>>

\* Mutant: the query forgets sync_enabled.
GetActiveRegionsOfAll(t, a) ==
    /\ pc[t] = "looping" /\ regions[t] = {}
    /\ a \in accounts[t]
    /\ accounts' = [accounts EXCEPT ![t] = @ \ {a}]
    /\ regions' = [regions EXCEPT ![t] = {r \in Regions : AccountOf[r] = a}]
    /\ UNCHANGED <<worldVars, lastError, pc, at, region, runVars, faults>>

GetActiveRegions(t, a) ==
    /\ pc[t] = "looping" /\ regions[t] = {}
    /\ a \in accounts[t]
    /\ accounts' = [accounts EXCEPT ![t] = @ \ {a}]
    /\ regions' = [regions EXCEPT ![t] = {r \in enabled : AccountOf[r] = a}]
    /\ UNCHANGED <<worldVars, lastError, pc, at, region, runVars, faults>>

\* The order of the query is not specified.
NextRegion(t, r) ==
    /\ pc[t] = "looping"
    /\ r \in regions[t]
    /\ Goto(t, "inserting")
    /\ regions' = [regions EXCEPT ![t] = @ \ {r}]
    /\ region' = [region EXCEPT ![t] = r]
    /\ UNCHANGED <<worldVars, lastError, at, accounts, runVars, faults>>

\* The call is over: the next one of the program, if there is one.
CallEnds(t) ==
    /\ at' = [at EXCEPT ![t] = IF @ < Len(Program[t]) THEN @ + 1 ELSE 0]
    /\ Goto(t, IF at[t] < Len(Program[t]) THEN "starting" ELSE "idle")
    /\ accounts' = [accounts EXCEPT ![t] = {}]
    /\ regions' = [regions EXCEPT ![t] = {}]

RunAllReturns(t) ==
    /\ pc[t] = "looping" /\ regions[t] = {} /\ accounts[t] = {}
    /\ CallEnds(t)
    /\ UNCHANGED <<worldVars, lastError, region, runVars, faults>>

-----------------------------------------------------------------------------
(* _runForAccountRegion().                                                 *)

DropLists(t) ==
    /\ fetched' = [fetched EXCEPT ![t] = 0]
    /\ found' = [found EXCEPT ![t] = FALSE]

\* Mutant: the run rows of the region before are kept.
LeaveRegionOnly(t) ==
    /\ Goto(t, "looping")
    /\ region' = [region EXCEPT ![t] = NoRegion]
    /\ DropLists(t)
    /\ UNCHANGED trace

LeaveRegion(t) ==
    /\ Goto(t, "looping")
    /\ region' = [region EXCEPT ![t] = NoRegion]
    /\ DropLists(t)
    /\ trace' = [trace EXCEPT ![t] = <<>>]

InsertDiscoveryRun(t) ==
    /\ pc[t] = "inserting"
    /\ trace' = [trace EXCEPT ![t] = Append(@, "running")]
    /\ IF Len(trace[t]) + 1 = Len(Types(t)) THEN Goto(t, "fetching") ELSE UNCHANGED pc
    /\ UNCHANGED <<worldVars, lastError, positionVars, fetched, found, faults>>

\* One list after the other; the four of VPC are one try block.
Fetch(t) ==
    /\ pc[t] = "fetching"
    /\ AccountOf[region[t]] \notin NoCredentials
    /\ fetched' = [fetched EXCEPT ![t] = @ + 1]
    /\ found' = [found EXCEPT ![t] = @ \/ <<region[t], Types(t)[fetched[t] + 1]>> \in stock]
    /\ IF fetched[t] + 1 = Len(Types(t)) THEN Goto(t, "reconciling") ELSE UNCHANGED pc
    /\ UNCHANGED <<worldVars, lastError, positionVars, trace, faults>>

\* Mutant: the exception leaves the loop.
NotAuthorizedEndsCall(t) ==
    /\ pc[t] = "fetching"
    /\ AccountOf[region[t]] \in NoCredentials
    /\ CallEnds(t)
    /\ region' = [region EXCEPT ![t] = NoRegion]
    /\ DropLists(t)
    /\ trace' = [trace EXCEPT ![t] = <<>>]
    /\ UNCHANGED <<worldVars, lastError, faults>>

\* Mutant: the exception is only logged.
NotAuthorizedUnnoticed(t) ==
    /\ pc[t] = "fetching"
    /\ AccountOf[region[t]] \in NoCredentials
    /\ LeaveRegion(t)
    /\ UNCHANGED <<worldVars, lastError, at, accounts, regions, faults>>

\* The account has no credentials to sign with.
NotAuthorized(t) ==
    /\ pc[t] = "fetching"
    /\ AccountOf[region[t]] \in NoCredentials
    /\ Goto(t, "failing")
    /\ UNCHANGED <<worldVars, lastError, positionVars, runVars, faults>>

ReconcileAndUpsert(t) ==
    /\ pc[t] = "reconciling"
    /\ found[t] \/ Types(t) = HcConnectorEcsSync
    /\ Goto(t, "finishing")
    /\ UNCHANGED <<worldVars, lastError, positionVars, runVars, faults>>

\* reconcileCIs of nothing returns undefined, which is taken for a failure of
\* IRE: the orchestrator throws.
ReconcileNothing(t) ==
    /\ pc[t] = "reconciling"
    /\ ~found[t] /\ Types(t) # HcConnectorEcsSync
    /\ Goto(t, "failing")
    /\ UNCHANGED <<worldVars, lastError, positionVars, runVars, faults>>

RecordRegionError(t) ==
    /\ pc[t] = "failing"
    /\ lastError' = lastError \cup {region[t]}
    /\ Goto(t, "failed")
    /\ UNCHANGED <<worldVars, positionVars, runVars, faults>>

NextRow(t) == CHOOSE i \in 1..Len(trace[t]) :
                  trace[t][i] = "running" /\ \A j \in 1..(i - 1) : trace[t][j] # "running"

OpenRows(t) == {i \in 1..Len(trace[t]) : trace[t][i] = "running"}

\* Mutant: only the first row of a failed trace is finished as failed.
UpdateDiscoveryRunByCount(t) ==
    /\ pc[t] \in {"failed", "finishing"}
    /\ OpenRows(t) # {}
    /\ trace' = [trace EXCEPT ![t][NextRow(t)] =
                    IF pc[t] = "failed" /\ NextRow(t) = 1 THEN "failed" ELSE "completed"]
    /\ UNCHANGED <<worldVars, lastError, pc, positionVars, fetched, found, faults>>

\* _finishRun for one row after the other.
UpdateDiscoveryRun(t) ==
    /\ pc[t] \in {"failed", "finishing"}
    /\ OpenRows(t) # {}
    /\ trace' = [trace EXCEPT ![t][NextRow(t)] = IF pc[t] = "failed" THEN "failed" ELSE "completed"]
    /\ UNCHANGED <<worldVars, lastError, pc, positionVars, fetched, found, faults>>

\* Mutant: the region is told before the rows are.
RowsUpdatedLater(t) ==
    /\ \/ pc[t] = "failed" /\ OpenRows(t) = {} /\ LeaveRegion(t)
       \/ pc[t] = "finishing" /\ Goto(t, "recording") /\ UNCHANGED <<region, runVars>>
    /\ UNCHANGED <<worldVars, lastError, at, accounts, regions, faults>>

\* After the last row: back to the loop, or on to the region.
RowsUpdated(t) ==
    /\ OpenRows(t) = {}
    /\ \/ pc[t] = "failed" /\ LeaveRegion(t)
       \/ pc[t] = "finishing" /\ Goto(t, "recording") /\ UNCHANGED <<region, runVars>>
    /\ UNCHANGED <<worldVars, lastError, at, accounts, regions, faults>>

RecordRegionSuccess(t) ==
    /\ pc[t] = "recording"
    /\ lastError' = lastError \ {region[t]}
    /\ LeaveRegion(t)
    /\ UNCHANGED <<worldVars, at, accounts, regions, faults>>

\* The last-resort catch of runAll().
RecordUnexpected(t) ==
    /\ pc[t] = "caught"
    /\ lastError' = lastError \cup {region[t]}
    /\ LeaveRegion(t)
    /\ UNCHANGED <<worldVars, at, accounts, regions, faults>>

-----------------------------------------------------------------------------
(* Failures.                                                               *)

Fault == faults < MaxFaults /\ faults' = faults + 1

\* A fetch or the reconciliation throws: its own catch block runs.
Throws(t) ==
    /\ Fault
    /\ pc[t] \in {"fetching", "reconciling"}
    /\ Goto(t, "failing")
    /\ UNCHANGED <<worldVars, lastError, positionVars, runVars>>

\* A run row or the region cannot be written: the catch of runAll() runs.
TableThrows(t) ==
    /\ Fault
    /\ \/ pc[t] \in {"inserting", "failing", "recording"}
       \/ pc[t] \in {"failed", "finishing"} /\ OpenRows(t) # {}
    /\ Goto(t, "caught")
    /\ UNCHANGED <<worldVars, lastError, positionVars, runVars>>

\* runAll() itself throws: the caller goes on with its next orchestrator and
\* the regions that were left are not synced.
Escapes(t) ==
    /\ Fault
    /\ pc[t] \in {"starting", "looping", "caught"}
    /\ CallEnds(t)
    /\ region' = [region EXCEPT ![t] = NoRegion]
    /\ DropLists(t)
    /\ trace' = [trace EXCEPT ![t] = <<>>]
    /\ UNCHANGED <<worldVars, lastError>>

Crash(t) ==
    /\ Fault
    /\ pc[t] # "idle"
    /\ Goto(t, "idle")
    /\ at' = [at EXCEPT ![t] = 0]
    /\ accounts' = [accounts EXCEPT ![t] = {}]
    /\ regions' = [regions EXCEPT ![t] = {}]
    /\ region' = [region EXCEPT ![t] = NoRegion]
    /\ DropLists(t)
    /\ trace' = [trace EXCEPT ![t] = <<>>]
    /\ UNCHANGED <<worldVars, lastError>>

-----------------------------------------------------------------------------
Proceed(t) ==
    \/ GetActiveAccounts(t) \/ RunAllReturns(t)
    \/ \E a \in Accounts : GetActiveRegions(t, a)
    \/ \E r \in Regions : NextRegion(t, r)
    \/ InsertDiscoveryRun(t) \/ Fetch(t) \/ NotAuthorized(t)
    \/ ReconcileAndUpsert(t) \/ ReconcileNothing(t)
    \/ RecordRegionError(t) \/ UpdateDiscoveryRun(t) \/ RowsUpdated(t)
    \/ RecordRegionSuccess(t) \/ RecordUnexpected(t)

Next ==
    \/ \E r \in Regions : Switch(r)
    \/ \E p \in MayStock : Restock(p)
    \/ \E t \in Threads : Start(t) \/ Proceed(t) \/ Throws(t) \/ TableThrows(t) \/ Escapes(t)
                           \/ Crash(t)

(* The scheduled job starts again and again, and a call that has started   *)
(* goes on until it ends; nobody has to press a button. MaxFaults makes    *)
(* outages finite; an account without credentials and a region without     *)
(* resources fail for as long as they stay so.                             *)
Spec == Init /\ [][Next]_vars
FairSpec ==
    /\ Spec
    /\ \A t \in Scheduled : WF_vars(Start(t))
    /\ \A t \in Threads : WF_vars(Proceed(t))

-----------------------------------------------------------------------------
(* Properties.                                                             *)

RegionTypeOK ==
    /\ enabled \subseteq Regions
    /\ stock \subseteq MayStock
    /\ lastError \subseteq Regions
    /\ \A t \in Threads :
          /\ pc[t] \in Steps
          /\ at[t] \in 0..Len(Program[t])
          /\ (at[t] = 0) <=> (pc[t] = "idle")
          /\ accounts[t] \subseteq Accounts
          /\ regions[t] \subseteq Regions
          /\ region[t] \in Regions \cup {NoRegion}
          /\ trace[t] \in Seq(RowState)
          /\ Len(trace[t]) <= 4 /\ fetched[t] \in 0..4 /\ found[t] \in BOOLEAN
    /\ faults \in 0..MaxFaults

\* Failure isolation covers the run rows of a trace together: no row is
\* completed beside one that failed, and none is completed before every list
\* was fetched and reconciled, wherever the run was interrupted.
TraceAgrees ==
    \A t \in Threads :
        LET states == {trace[t][i] : i \in 1..Len(trace[t])}
        IN  /\ ~({"completed", "failed"} \subseteq states)
            /\ "completed" \in states => fetched[t] = Len(Types(t))

\* A region's error is cleared only by a run that says of every one of its
\* resource types that it is completed.
ErrorIsClearedByASuccess ==
    [][\A r \in lastError \ lastError' : \E t \in Threads :
          /\ region[t] = r
          /\ trace[t] = [i \in 1..Len(Types(t)) |-> "completed"]]_vars

\* Where an orchestrator succeeds if nothing fails: in a region that has some
\* resource for it, except the ECS one, which succeeds in any.
StaysStocked(types, r) ==
    types = HcConnectorEcsSync \/ \E i \in 1..Len(types) : <>[](<<r, types[i]>> \in stock)

StaysEmpty(types, r) == \A i \in 1..Len(types) : <>[](<<r, types[i]>> \notin stock)

\* "One account/region's failure is caught and logged without stopping the
\* loop for other accounts/regions": a region that stays enabled, whose account
\* has credentials and that does not run out of resources is synced by every
\* orchestrator of a program again and again, as often as the program is
\* started, whatever happens in other regions and to other orchestrators.
EnabledRegionIsSynced ==
    \A t \in Threads : \A i \in 1..Len(Program[t]) : \A r \in Regions :
        (/\ AccountOf[r] \notin NoCredentials
         /\ StaysStocked(Program[t][i], r)
         /\ <>[](r \in enabled) /\ []<>(pc[t] # "idle"))
            => []<>(pc[t] = "recording" /\ at[t] = i /\ region[t] = r)

\* "confirm the failure was actually recorded, not silently swallowed": a
\* region whose account has no credentials shows an error for good; where an
\* orchestrator finds nothing, the error comes back however often a success of
\* another one clears it.
BrokenRegionShowsError ==
    \A r \in Regions :
        /\ (AccountOf[r] \in NoCredentials /\ <>[](r \in enabled)) => <>[](r \in lastError)
        /\ \A t \in Scheduled : \A i \in 1..Len(Program[t]) :
              (/\ Program[t][i] # HcConnectorEcsSync
               /\ StaysEmpty(Program[t][i], r) /\ <>[](r \in enabled))
                  => []<>(r \in lastError)

\* A region that was switched off is left alone in the end, although a run
\* may still hold the list it read before.
DisabledRegionRests ==
    \A r \in Regions :
        <>[](r \notin enabled) => <>[](\A t \in Threads : region[t] # r)

=============================================================================
