--------------------------- MODULE RegionSyncProofs ---------------------------
(***************************************************************************)
(* Theorems about RegionSync, for any accounts, regions, threads and       *)
(* programs of orchestrators, and any number of failures and crashes.      *)
(***************************************************************************)
EXTENDS RegionSync, TLAPS

Only(states, t) == \A i \in 1..Len(trace[t]) : trace[t][i] \in states

\* The run rows, by where the thread is.
RowsInv(t) ==
    /\ pc[t] \in {"idle", "starting", "looping"} => fetched[t] = 0 /\ trace[t] = <<>>
    /\ pc[t] \in {"inserting", "fetching", "reconciling", "failing"} => Only({"running"}, t)
    /\ pc[t] = "failed" => Only({"running", "failed"}, t)
    /\ pc[t] \in {"finishing", "recording"} => Only({"running", "completed"}, t)
    /\ pc[t] = "recording" => Only({"completed"}, t)
    /\ pc[t] = "inserting" => fetched[t] = 0 /\ Len(trace[t]) < Len(Types(t))
    /\ pc[t] \in {"fetching", "reconciling", "finishing", "recording"} =>
          Len(trace[t]) = Len(Types(t))
    /\ pc[t] = "fetching" => fetched[t] < Len(Types(t))
    /\ pc[t] \in {"reconciling", "finishing", "recording"} => fetched[t] = Len(Types(t))
    /\ pc[t] = "caught" =>
          \/ Only({"running", "failed"}, t)
          \/ Only({"running", "completed"}, t) /\ fetched[t] = Len(Types(t))

ThreadInv(t) ==
    /\ at[t] \in 0..Len(Program[t])
    /\ at[t] = 0 <=> pc[t] = "idle"
    /\ Len(trace[t]) <= 4 /\ fetched[t] <= 4
    /\ pc[t] \notin {"idle", "starting", "looping"} => region[t] \in Regions
    /\ RowsInv(t)

Typed ==
    /\ enabled \subseteq Regions /\ stock \subseteq MayStock
    /\ lastError \subseteq Regions
    /\ at \in [Threads -> Nat]
    /\ pc \in [Threads -> Steps]
    /\ accounts \in [Threads -> SUBSET Accounts]
    /\ regions \in [Threads -> SUBSET Regions]
    /\ region \in [Threads -> Regions \cup {NoRegion}]
    /\ fetched \in [Threads -> Nat]
    /\ found \in [Threads -> BOOLEAN]
    /\ trace \in [Threads -> Seq(RowState)]
    /\ faults \in 0..MaxFaults

RegionInv == Typed /\ \A t \in Threads : ThreadInv(t)

-----------------------------------------------------------------------------
LEMMA ProgramsCall ==
    \A t \in Threads : \A i \in 1..Len(Program[t]) :
        Len(Program[t]) \in Nat /\ Len(Program[t][i]) \in 1..4
<1> SUFFICES ASSUME NEW t \in Threads, NEW i \in 1..Len(Program[t])
             PROVE  Len(Program[t]) \in Nat /\ Len(Program[t][i]) \in 1..4
  OBVIOUS
<1>1. Program[t] \in Seq(Orchestrators)
  BY RegionsAssumption
<1>2. Program[t][i] \in Orchestrators
  BY <1>1
<1>3. \A types \in Orchestrators : Len(types) \in 1..4
  BY DEF Orchestrators, HcConnectorEcsSync, HcConnectorEvsSync, HcConnectorElbSync,
         HcConnectorRdsSync, HcConnectorCceSync, HcConnectorObsSync, HcConnectorVpcSync
<1>4. QED
  BY <1>1, <1>2, <1>3

LEMMA ProgramLength == \A t \in Threads : Len(Program[t]) \in Nat
BY RegionsAssumption

LEMMA InitRegionInv == Init => RegionInv
<1> SUFFICES ASSUME Init PROVE RegionInv
  OBVIOUS
<1>1. Typed
  BY RegionsAssumption DEF Init, Typed, Steps
<1>2. ASSUME NEW t \in Threads PROVE ThreadInv(t)
  BY ProgramLength DEF Init, ThreadInv, RowsInv
<1>3. QED
  BY <1>1, <1>2 DEF RegionInv

\* A step of thread t disturbs nobody else.
LEMMA ThreadStep ==
    ASSUME RegionInv, NEW t \in Threads, Typed', ThreadInv(t)',
           \A u \in Threads : u # t =>
               /\ at'[u] = at[u] /\ pc'[u] = pc[u] /\ region'[u] = region[u]
               /\ fetched'[u] = fetched[u] /\ trace'[u] = trace[u]
    PROVE  RegionInv'
<1>1. ASSUME NEW u \in Threads PROVE ThreadInv(u)'
  <2>1. CASE u # t
    <3>1. ThreadInv(u)
      BY DEF RegionInv
    <3>2. Types(u)' = Types(u)
      BY <2>1 DEF Types
    <3>3. RowsInv(u)'
      BY <2>1, <3>1, <3>2 DEF ThreadInv, RowsInv, Only
    <3>4. QED
      BY <2>1, <3>1, <3>3 DEF ThreadInv
  <2>2. QED
    BY <2>1
<1>2. QED
  BY <1>1 DEF RegionInv

-----------------------------------------------------------------------------
(* runAll().                                                               *)

LEMMA LoopKeepsInv ==
    ASSUME RegionInv, NEW t \in Threads,
           \/ Start(t) \/ GetActiveAccounts(t)
           \/ \E a \in Accounts : GetActiveRegions(t, a)
           \/ \E r \in Regions : NextRegion(t, r)
    PROVE  RegionInv'
<1> USE DEF positionVars, runVars, worldVars
<1>0. Typed /\ ThreadInv(t) /\ Len(Program[t]) \in Nat
  BY ProgramLength DEF RegionInv
<1>1. CASE Start(t)
  <2>1. Typed'
    BY <1>0, <1>1 DEF Typed, Start, Goto, Steps
  <2>2. pc[t] = "idle" /\ at'[t] = 1 /\ pc'[t] = "starting" /\ UNCHANGED <<fetched, trace>>
    BY <1>0, <1>1 DEF Typed, Start, Goto
  <2>3. Len(Program[t]) >= 1
    BY RegionsAssumption, <1>0
  <2>4. ThreadInv(t)'
    BY <1>0, <2>2, <2>3 DEF ThreadInv, RowsInv
  <2>5. QED
    BY <1>0, <1>1, <2>1, <2>4, ThreadStep DEF Typed, Start, Goto
<1>2. CASE GetActiveAccounts(t)
  <2>1. Typed' /\ ThreadInv(t)'
    BY <1>0, <1>2 DEF Typed, GetActiveAccounts, Goto, Steps, ThreadInv, RowsInv
  <2>2. QED
    BY <1>0, <1>2, <2>1, ThreadStep DEF Typed, GetActiveAccounts, Goto
<1>3. ASSUME NEW a \in Accounts, GetActiveRegions(t, a)
      PROVE  RegionInv'
  <2>1. Typed' /\ ThreadInv(t)'
    BY <1>0, <1>3 DEF Typed, GetActiveRegions, ThreadInv, RowsInv
  <2>2. QED
    BY <1>0, <1>3, <2>1, ThreadStep DEF Typed, GetActiveRegions
<1>4. ASSUME NEW r \in Regions, NextRegion(t, r)
      PROVE  RegionInv'
  <2>1. Typed'
    BY <1>0, <1>4 DEF Typed, NextRegion, Goto, Steps
  <2>2. /\ pc[t] = "looping" /\ pc'[t] = "inserting" /\ region'[t] \in Regions
        /\ UNCHANGED <<at, fetched, trace>>
    BY <1>0, <1>4 DEF Typed, NextRegion, Goto
  <2>3. at[t] \in 1..Len(Program[t]) /\ fetched[t] = 0 /\ trace[t] = <<>>
    BY <1>0, <2>2 DEF ThreadInv, RowsInv
  <2>4. at'[t] = at[t]
    BY <2>2
  <2>5. PICK n \in 1..4 : Len(Types(t))' = n
    BY <2>3, <2>4, ProgramsCall DEF Types
  <2>6. trace'[t] = <<>> /\ fetched'[t] = 0
    BY <2>2, <2>3
  <2>7. RowsInv(t)'
    BY <2>2, <2>5, <2>6 DEF RowsInv, Only
  <2>8. ThreadInv(t)'
    BY <1>0, <2>2, <2>3, <2>4, <2>6, <2>7 DEF ThreadInv
  <2>9. QED
    BY <1>0, <1>4, <2>1, <2>8, ThreadStep DEF Typed, NextRegion, Goto
<1>5. QED
  BY <1>1, <1>2, <1>3, <1>4

\* The call is over or gives up; the thread takes no rows along.
LEMMA LeaveCallKeepsInv ==
    ASSUME RegionInv, NEW t \in Threads,
           \/ RunAllReturns(t) \/ Escapes(t) \/ Crash(t)
    PROVE  RegionInv'
<1>0. Typed /\ ThreadInv(t) /\ Len(Program[t]) \in Nat
  BY ProgramLength DEF RegionInv
<1>1. /\ pc'[t] \in {"idle", "starting"} /\ pc' = [pc EXCEPT ![t] = pc'[t]]
      /\ at'[t] \in 0..Len(Program[t]) /\ at' = [at EXCEPT ![t] = at'[t]]
      /\ at'[t] = 0 <=> pc'[t] = "idle"
  <2>1. CASE Crash(t)
    BY <1>0, <2>1 DEF Typed, Crash, Goto
  <2>2. CASE CallEnds(t)
    <3>1. pc[t] # "idle" => at[t] \in 1..Len(Program[t])
      BY <1>0 DEF Typed, ThreadInv
    <3>2. at[t] # Len(Program[t]) /\ pc[t] # "idle" => at[t] + 1 \in 1..Len(Program[t])
      BY <1>0, <3>1
    <3>3. QED
      BY <1>0, <2>2, <3>1, <3>2 DEF Typed, ThreadInv, CallEnds, Goto
  <2>3. QED
    BY <2>1, <2>2 DEF RunAllReturns, Escapes
<1>2. fetched'[t] = 0 /\ trace'[t] = <<>>
  BY <1>0 DEF Typed, ThreadInv, RowsInv, RunAllReturns, Escapes, Crash, DropLists, runVars
<1>3. /\ fetched' = [fetched EXCEPT ![t] = fetched'[t]]
      /\ trace' = [trace EXCEPT ![t] = trace'[t]]
      /\ region' \in {region, [region EXCEPT ![t] = NoRegion]}
  BY <1>0 DEF Typed, RunAllReturns, Escapes, Crash, DropLists, runVars
<1>4. Typed'
  <2>1. at' \in [Threads -> Nat] /\ pc' \in [Threads -> Steps]
    <3>1. at'[t] \in Nat /\ pc'[t] \in Steps
      BY <1>0, <1>1 DEF Steps
    <3>2. QED
      BY <1>0, <1>1, <3>1 DEF Typed
  <2>2. fetched' \in [Threads -> Nat] /\ trace' \in [Threads -> Seq(RowState)]
    <3>1. fetched'[t] \in Nat /\ trace'[t] \in Seq(RowState)
      BY <1>2
    <3>2. QED
      BY <1>0, <1>3, <3>1 DEF Typed
  <2>3. /\ region' \in [Threads -> Regions \cup {NoRegion}]
        /\ accounts' \in [Threads -> SUBSET Accounts]
        /\ regions' \in [Threads -> SUBSET Regions]
    BY <1>0, <1>3 DEF Typed, RunAllReturns, Escapes, Crash, CallEnds
  <2>4. faults' \in 0..MaxFaults /\ UNCHANGED <<worldVars, lastError>>
    BY <1>0, RegionsAssumption DEF Typed, RunAllReturns, Escapes, Crash, CallEnds, Fault
  <2>5. found' \in [Threads -> BOOLEAN]
    BY <1>0 DEF Typed, RunAllReturns, Escapes, Crash, DropLists, runVars
  <2>6. QED
    BY <1>0, <2>1, <2>2, <2>3, <2>4, <2>5 DEF Typed, worldVars
<1>5. ThreadInv(t)'
  BY <1>0, <1>1, <1>2 DEF ThreadInv, RowsInv
<1>6. QED
  BY <1>0, <1>1, <1>3, <1>4, <1>5, ThreadStep DEF Typed

-----------------------------------------------------------------------------
(* _runForAccountRegion().                                                 *)

\* A step inside a call that writes no row.
LEMMA RunStepKeepsInv ==
    ASSUME RegionInv, NEW t \in Threads,
           \/ Fetch(t) \/ NotAuthorized(t) \/ ReconcileAndUpsert(t) \/ ReconcileNothing(t)
           \/ RecordRegionError(t)
           \/ Throws(t) \/ TableThrows(t)
    PROVE  RegionInv'
<1> USE DEF positionVars, runVars, worldVars
<1>0. Typed /\ ThreadInv(t) /\ Len(Program[t]) \in Nat
  BY ProgramLength DEF RegionInv
<1>1. /\ UNCHANGED <<at, accounts, regions, region, trace>>
      /\ pc' = [pc EXCEPT ![t] = pc'[t]] /\ pc'[t] \in Steps
      /\ fetched' = [fetched EXCEPT ![t] = fetched'[t]]
  BY <1>0 DEF Typed, Fetch, NotAuthorized, ReconcileAndUpsert, ReconcileNothing, RecordRegionError, Throws,
              TableThrows, Goto, Steps
<1>2. pc[t] \notin {"idle", "starting", "looping"} /\ pc'[t] \notin {"idle", "starting", "looping"}
  BY <1>0 DEF Typed, Fetch, NotAuthorized, ReconcileAndUpsert, ReconcileNothing, RecordRegionError, Throws,
              TableThrows, Goto
<1>3. region[t] \in Regions /\ at[t] \in 1..Len(Program[t])
  BY <1>0, <1>2 DEF ThreadInv
<1>4. Len(Types(t)) \in 1..4 /\ Types(t)' = Types(t)
  BY <1>1, <1>3, ProgramsCall DEF Types
<1>5. fetched'[t] \in 0..4 /\ RowsInv(t)'
  <2>1. CASE Fetch(t)
    BY <1>0, <1>1, <1>4, <2>1 DEF Typed, ThreadInv, RowsInv, Only, Fetch, Goto
  <2>2. CASE NotAuthorized(t) \/ Throws(t) \/ ReconcileNothing(t)
    BY <1>0, <1>1, <1>4, <2>2 DEF Typed, ThreadInv, RowsInv, Only, NotAuthorized, Throws,
                                  ReconcileNothing, Goto
  <2>3. CASE ReconcileAndUpsert(t) \/ RecordRegionError(t)
    BY <1>0, <1>1, <1>4, <2>3 DEF Typed, ThreadInv, RowsInv, Only, ReconcileAndUpsert,
                                  RecordRegionError, Goto
  <2>4. CASE TableThrows(t)
    BY <1>0, <1>1, <1>4, <2>4 DEF Typed, ThreadInv, RowsInv, Only, TableThrows, Goto
  <2>5. QED
    BY <2>1, <2>2, <2>3, <2>4
<1>6. lastError' \subseteq Regions /\ UNCHANGED worldVars /\ faults' \in 0..MaxFaults
  BY <1>0, <1>3, RegionsAssumption
     DEF Typed, Fetch, NotAuthorized, ReconcileAndUpsert, ReconcileNothing, RecordRegionError, Throws,
         TableThrows, Fault
<1>7. Typed'
  <2>1. fetched'[t] \in Nat
    BY <1>5
  <2>2. pc' \in [Threads -> Steps] /\ fetched' \in [Threads -> Nat]
    BY <1>0, <1>1, <2>1 DEF Typed
  <2>3. found' \in [Threads -> BOOLEAN]
    BY <1>0 DEF Typed, Fetch, NotAuthorized, ReconcileAndUpsert, ReconcileNothing,
                RecordRegionError, Throws, TableThrows
  <2>4. QED
    BY <1>0, <1>1, <1>6, <2>2, <2>3 DEF Typed
<1>8. ThreadInv(t)'
  BY <1>0, <1>1, <1>2, <1>3, <1>5 DEF Typed, ThreadInv
<1>9. QED
  BY <1>0, <1>1, <1>7, <1>8, ThreadStep DEF Typed

LEMMA InsertKeepsInv ==
    ASSUME RegionInv, NEW t \in Threads, InsertDiscoveryRun(t)
    PROVE  RegionInv'
<1> USE DEF positionVars, runVars, worldVars
<1>0. Typed /\ ThreadInv(t) /\ Len(Program[t]) \in Nat
  BY ProgramLength DEF RegionInv
<1>1. pc[t] = "inserting" /\ at[t] \in 1..Len(Program[t])
  BY <1>0 DEF ThreadInv, InsertDiscoveryRun
<1>2. at'[t] = at[t] /\ UNCHANGED <<at, region, fetched>>
  BY DEF InsertDiscoveryRun
<1>n. PICK n \in 1..4 : Len(Types(t)) = n /\ Len(Types(t))' = n
  BY <1>1, <1>2, ProgramsCall DEF Types
<1>3. /\ trace[t] \in Seq(RowState) /\ "running" \in RowState
      /\ trace' = [trace EXCEPT ![t] = Append(trace[t], "running")]
  BY <1>0 DEF Typed, RowState, InsertDiscoveryRun
<1>4. /\ trace'[t] \in Seq(RowState) /\ Len(trace'[t]) = Len(trace[t]) + 1
      /\ \A i \in 1..Len(trace[t]) : trace'[t][i] = trace[t][i]
      /\ trace'[t][Len(trace[t]) + 1] = "running"
  BY <1>0, <1>3 DEF Typed
<1>5. Only({"running"}, t)'
  BY <1>0, <1>1, <1>3, <1>4 DEF ThreadInv, RowsInv, Only
<1>6. /\ pc' = [pc EXCEPT ![t] = pc'[t]]
      /\ pc'[t] = IF Len(trace'[t]) = n THEN "fetching" ELSE "inserting"
  BY <1>0, <1>1, <1>4, <1>n DEF Typed, InsertDiscoveryRun, Goto
<1>7. /\ Len(trace'[t]) <= n /\ fetched'[t] = 0
      /\ Len(trace'[t]) \in Nat
  BY <1>0, <1>1, <1>2, <1>3, <1>4, <1>n DEF ThreadInv, RowsInv
<1>8. RowsInv(t)'
  BY <1>n, <1>5, <1>6, <1>7 DEF RowsInv, Only
<1>9. Typed'
  BY <1>0, <1>3, <1>4, <1>6 DEF Typed, Steps, InsertDiscoveryRun
<1>10. ThreadInv(t)'
  <2>1. pc'[t] \in {"fetching", "inserting"} /\ region'[t] \in Regions /\ at'[t] = at[t]
    BY <1>0, <1>1, <1>2, <1>6 DEF ThreadInv
  <2>2. Len(trace'[t]) <= 4
    BY <1>7
  <2>3. QED
    BY <1>1, <1>7, <1>8, <2>1, <2>2 DEF ThreadInv
<1>11. QED
  BY <1>0, <1>2, <1>3, <1>6, <1>9, <1>10, ThreadStep DEF Typed

\* Whichever row is next, it becomes what the step finishes rows as.
LEMMA UpdateKeepsInv ==
    ASSUME RegionInv, NEW t \in Threads, UpdateDiscoveryRun(t)
    PROVE  RegionInv'
<1> USE DEF positionVars, runVars, worldVars
<1>0. Typed /\ ThreadInv(t) /\ Len(Program[t]) \in Nat
  BY ProgramLength DEF RegionInv
<1> DEFINE state == IF pc[t] = "failed" THEN "failed" ELSE "completed"
<1>1. /\ pc[t] \in {"failed", "finishing"} /\ at[t] \in 1..Len(Program[t])
      /\ UNCHANGED <<pc, at, region, fetched>>
      /\ trace' = [trace EXCEPT ![t] = [trace[t] EXCEPT ![NextRow(t)] = state]]
  BY <1>0 DEF ThreadInv, UpdateDiscoveryRun
<1>2. trace[t] \in Seq(RowState) /\ state \in RowState
  BY <1>0 DEF Typed, RowState
<1>3. /\ trace'[t] \in Seq(RowState) /\ Len(trace'[t]) = Len(trace[t])
      /\ \A i \in 1..Len(trace[t]) : trace'[t][i] \in {trace[t][i], state}
  <2> HIDE DEF state
  <2>1. trace'[t] = [trace[t] EXCEPT ![NextRow(t)] = state]
    BY <1>0, <1>1 DEF Typed
  <2>2. /\ trace[t] \in [1..Len(trace[t]) -> RowState]
        /\ Len(trace[t]) \in Nat
    BY <1>2
  <2>3. /\ trace'[t] \in [1..Len(trace[t]) -> RowState]
        /\ \A i \in 1..Len(trace[t]) : trace'[t][i] \in {trace[t][i], state}
    BY <1>2, <2>1, <2>2
  <2>4. QED
    BY <2>2, <2>3
<1>4. Types(t)' = Types(t)
  BY <1>1 DEF Types
<1>5. RowsInv(t)'
  BY <1>0, <1>1, <1>3, <1>4 DEF ThreadInv, RowsInv, Only
<1>6. Typed' /\ ThreadInv(t)'
  BY <1>0, <1>1, <1>3, <1>5 DEF Typed, ThreadInv, UpdateDiscoveryRun
<1>7. QED
  BY <1>0, <1>1, <1>6, ThreadStep DEF Typed

LEMMA RowsUpdatedKeepsInv ==
    ASSUME RegionInv, NEW t \in Threads,
           RowsUpdated(t) /\ pc[t] = "finishing"
    PROVE  RegionInv'
<1> USE DEF positionVars, runVars, worldVars
<1>0. Typed /\ ThreadInv(t) /\ Len(Program[t]) \in Nat
  BY ProgramLength DEF RegionInv
<1>1. /\ pc' = [pc EXCEPT ![t] = "recording"]
      /\ UNCHANGED <<worldVars, lastError, at, accounts, regions, region, runVars, faults>>
  BY DEF RowsUpdated, Goto
<1>2. \A i \in 1..Len(trace[t]) : trace[t][i] # "running"
  BY DEF RowsUpdated, OpenRows
<1>3. RowsInv(t)
  BY <1>0 DEF ThreadInv
<1>4. Only({"completed"}, t)
  BY <1>2, <1>3 DEF RowsInv, Only
<1>5. Types(t)' = Types(t) /\ pc'[t] = "recording"
  BY <1>0, <1>1 DEF Types, Typed
<1>6. RowsInv(t)'
  BY <1>1, <1>3, <1>4, <1>5 DEF RowsInv, Only
<1>7. Typed' /\ ThreadInv(t)'
  BY <1>0, <1>1, <1>5, <1>6 DEF Typed, ThreadInv, Steps
<1>8. QED
  BY <1>0, <1>1, <1>7, ThreadStep DEF Typed

LEMMA LeaveRegionKeepsInv ==
    ASSUME RegionInv, NEW t \in Threads, LeaveRegion(t), pc[t] # "idle",
           UNCHANGED <<worldVars, at, accounts, regions, faults>>, lastError' \subseteq Regions
    PROVE  RegionInv'
<1>0. Typed /\ ThreadInv(t)
  BY DEF RegionInv
<1>1. Typed'
  BY <1>0 DEF Typed, LeaveRegion, DropLists, Goto, Steps, worldVars
<1>2. pc'[t] = "looping" /\ fetched'[t] = 0 /\ trace'[t] = <<>> /\ at'[t] = at[t]
  BY <1>0 DEF Typed, LeaveRegion, DropLists, Goto
<1>3. ThreadInv(t)'
  BY <1>0, <1>2 DEF ThreadInv, RowsInv
<1>4. QED
  BY <1>0, <1>1, <1>3, ThreadStep DEF Typed, LeaveRegion, DropLists, Goto

-----------------------------------------------------------------------------
LEMMA NextRegionInv == RegionInv /\ [Next]_vars => RegionInv'
<1> SUFFICES ASSUME RegionInv, [Next]_vars PROVE RegionInv'
  OBVIOUS
<1>1. CASE (\E r \in Regions : Switch(r)) \/ \E p \in MayStock : Restock(p)
  <2>1. Typed'
    BY <1>1 DEF RegionInv, Typed, Switch, Restock, positionVars, runVars
  <2>2. UNCHANGED <<at, pc, region, fetched, trace>>
    BY <1>1 DEF Switch, Restock, positionVars, runVars
  <2>3. QED
    BY <2>1, <2>2 DEF RegionInv, ThreadInv, RowsInv, Only, Types
<1>2. ASSUME NEW t \in Threads,
             \/ Start(t) \/ Proceed(t) \/ Throws(t) \/ TableThrows(t) \/ Escapes(t) \/ Crash(t)
      PROVE  RegionInv'
  <2>1. CASE pc[t] = "failed" /\ RowsUpdated(t)
    BY <2>1, LeaveRegionKeepsInv DEF RowsUpdated, RegionInv, Typed
  <2>2. CASE RecordRegionSuccess(t) \/ RecordUnexpected(t)
    <3>1. region[t] \in Regions /\ lastError \subseteq Regions
      BY <2>2 DEF RecordRegionSuccess, RecordUnexpected, RegionInv, Typed, ThreadInv
    <3>2. QED
      BY <2>2, <3>1, LeaveRegionKeepsInv DEF RecordRegionSuccess, RecordUnexpected
  <2>3. QED
    BY <1>2, <2>1, <2>2, LoopKeepsInv, LeaveCallKeepsInv, RunStepKeepsInv, InsertKeepsInv,
       UpdateKeepsInv, RowsUpdatedKeepsInv DEF Proceed, RowsUpdated
<1>3. CASE UNCHANGED vars
  BY <1>3 DEF RegionInv, Typed, ThreadInv, RowsInv, Only, Types, vars, positionVars, runVars, worldVars
<1>4. QED
  BY <1>1, <1>2, <1>3 DEF Next

LEMMA AlwaysRegionInv == Spec => []RegionInv
BY InitRegionInv, NextRegionInv, PTL DEF Spec

\* Threads, their lists and their run rows keep to their types.
THEOREM RegionTypeCorrect == Spec => []RegionTypeOK
<1>1. RegionInv => RegionTypeOK
  BY ProgramLength DEF RegionInv, Typed, ThreadInv, RegionTypeOK
<1>2. QED
  BY <1>1, AlwaysRegionInv, PTL

\* The run rows of a trace fail together and are completed only once every
\* list has been fetched, wherever an exception or a crash interrupts a run
\* and however many threads sync the region.
THEOREM TracesAgree == Spec => []TraceAgrees
<1>1. ASSUME RegionInv, NEW t \in Threads
      PROVE  \/ Only({"running", "failed"}, t)
             \/ Only({"running", "completed"}, t) /\ fetched[t] = Len(Types(t))
  <2>1. pc[t] \in Steps /\ RowsInv(t)
    BY <1>1 DEF RegionInv, Typed, ThreadInv
  <2>2. QED
    BY <2>1 DEF Steps, RowsInv, Only
<1>2. RegionInv => TraceAgrees
  BY <1>1 DEF TraceAgrees, Only
<1>3. QED
  BY <1>2, AlwaysRegionInv, PTL

\* Nothing clears a region's error but a run that completed every row of its
\* trace in that region.
THEOREM ErrorsAreClearedBySuccess == Spec => ErrorIsClearedByASuccess
<1> DEFINE Cleared ==
      \A r \in lastError \ lastError' : \E t \in Threads :
          /\ region[t] = r
          /\ trace[t] = [i \in 1..Len(Types(t)) |-> "completed"]
<1>1. RegionInv /\ [Next]_vars => [Cleared]_vars
  <2> SUFFICES ASSUME RegionInv, Next, NEW r \in lastError \ lastError'
               PROVE  \E t \in Threads :
                          /\ region[t] = r
                          /\ trace[t] = [i \in 1..Len(Types(t)) |-> "completed"]
    OBVIOUS
  <2>1. PICK t \in Threads : RecordRegionSuccess(t)
    BY DEF Next, Switch, Restock, Proceed, Start, GetActiveAccounts, RunAllReturns, GetActiveRegions,
           NextRegion, InsertDiscoveryRun, Fetch, NotAuthorized, ReconcileAndUpsert,
           ReconcileNothing, RecordRegionError, UpdateDiscoveryRun, RowsUpdated, RecordUnexpected,
           Throws, TableThrows, Escapes, Crash
  <2>2. region[t] = r /\ pc[t] = "recording"
    BY <2>1 DEF RecordRegionSuccess
  <2>3. RowsInv(t) /\ trace[t] \in Seq(RowState)
    BY DEF RegionInv, Typed, ThreadInv
  <2>4. /\ Len(trace[t]) = Len(Types(t))
        /\ \A i \in 1..Len(trace[t]) : trace[t][i] = "completed"
    BY <2>2, <2>3 DEF RowsInv, Only
  <2>5. trace[t] = [i \in 1..Len(trace[t]) |-> trace[t][i]]
    BY <2>3
  <2>6. trace[t] = [i \in 1..Len(Types(t)) |-> "completed"]
    BY <2>4, <2>5
  <2>7. QED
    BY <2>2, <2>6
<1>2. QED
  BY <1>1, AlwaysRegionInv, PTL DEF Spec, ErrorIsClearedByASuccess

=============================================================================
