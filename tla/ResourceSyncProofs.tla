--------------------------- MODULE ResourceSyncProofs ---------------------------
(***************************************************************************)
(* Theorems about ResourceSync, for every set of keys, rows and syncers,   *)
(* every threshold and every combination of faults.                        *)
(***************************************************************************)
EXTENDS ResourceSync, FiniteSetTheorems, TLAPS

-----------------------------------------------------------------------------
(* The retirement rule and the plan.                                       *)

\* The threshold in force is a positive number within the counters' range.
LEMMA ThresholdRange == EffectiveThreshold \in 1..MissCap
BY ThresholdAssumption, MissCapAssumption DEF EffectiveThreshold

LEMMA SaturateType ==
    ASSUME NEW n \in Nat
    PROVE  Saturate(n) \in 0..MissCap
BY MissCapAssumption DEF Saturate

LEMMA SaturateMonotone ==
    ASSUME NEW m \in Nat, NEW n \in Nat, m <= n
    PROVE  Saturate(m + 1) <= Saturate(n + 1)
BY MissCapAssumption DEF Saturate

\* computeNextState returns a state a row may hold; a miss is counted once,
\* and a row that comes out retired has reached the threshold if the row it
\* came from had whenever it was retired.
LEMMA AfterMissFacts ==
    ASSUME NEW cur, cur.status \in Status, cur.miss \in 0..MissCap,
           cur.status = "retired" => cur.miss >= EffectiveThreshold
    PROVE  /\ AfterMiss(cur).status \in Status
           /\ AfterMiss(cur).miss = Saturate(cur.miss + 1)
           /\ AfterMiss(cur).miss \in 0..MissCap
           /\ AfterMiss(cur).status = "retired" => AfterMiss(cur).miss >= EffectiveThreshold
<1>1. Saturate(cur.miss + 1) \in 0..MissCap
  BY SaturateType
<1>2. cur.miss + 1 >= EffectiveThreshold => Saturate(cur.miss + 1) >= EffectiveThreshold
  BY ThresholdRange, MissCapAssumption DEF Saturate
<1>3. QED
  BY <1>1, <1>2, ThresholdRange, MissCapAssumption DEF AfterMiss, Status

\* Every planned transition is well formed.
LEMMA TransitionType ==
    ASSUME NEW t \in Table, NEW r \in RowsOf(t)
    PROVE  Transition(t, r) \in Transitions
<1>1. t[r] \in Row /\ r \in RowIds
  BY DEF Table, RowsOf
<1>2. AfterMiss(t[r]).status \in Status /\ AfterMiss(t[r]).miss \in 0..MissCap
  BY <1>1, SaturateType, MissCapAssumption DEF AfterMiss, Status, Row
<1>3. QED
  BY <1>1, <1>2 DEF Transition, Transitions, ComputeNextState

-----------------------------------------------------------------------------
(* Type correctness.                                                       *)

LEMMA FinishRunType ==
    ASSUME NEW success, NEW fail, NEW e \in BOOLEAN
    PROVE  FinishRun(success, fail, e) \in Record
BY DEF FinishRun, Record

LEMMA DropLocalsType ==
    ASSUME TypeOK, NEW s \in Syncers, DropLocals(s)
    PROVE  /\ pc' \in [Syncers -> Step]
           /\ window' \in [Syncers -> Window]
           /\ seen' \in [Syncers -> SUBSET Keys]
           /\ repeated' \in [Syncers -> SUBSET MayRepeat]
           /\ toInsert' \in [Syncers -> SUBSET Keys]
           /\ toRefresh' \in [Syncers -> SUBSET RowIds]
           /\ toTransition' \in [Syncers -> SUBSET Transitions]
           /\ retiring' \in [Syncers -> SUBSET Keys]
BY DEF TypeOK, DropLocals, Step, Window, NoWindow, OpenWindow

LEMMA ReconciledType ==
    ASSUME TypeOK, NEW S
    PROVE  Reconciled(S) \in [Keys -> {"absent", "operational", "retired"}]
BY DEF TypeOK, Reconciled

\* The type invariant and what it needs to be inductive.
TypeInv == TypeOK /\ PlannedRowsExist

LEMMA InitTypeInv == Init => TypeInv
<1> SUFFICES ASSUME Init PROVE TypeInv
  OBVIOUS
<1>1. 0 \in 0..MissCap
  BY MissCapAssumption
<1>2. rows \in Table
  BY DEF Init, Table
<1>3. record \in [Syncers -> Record]
  BY DEF Init, Record
<1>4. window \in [Syncers -> Window]
  BY DEF Init, Window, NoWindow, OpenWindow
<1>5. /\ pc \in [Syncers -> Step]
      /\ cis \in [Keys -> {"absent", "operational", "retired"}]
  BY DEF Init, Step
<1>9. /\ missed \in [Keys -> 0..MissCap]
      /\ absences \in [Keys -> 0..MissCap]
  BY <1>1 DEF Init
<1>6. /\ cloud \in SUBSET Keys /\ regionError \in BOOLEAN
      /\ seen \in [Syncers -> SUBSET Keys]
      /\ repeated \in [Syncers -> SUBSET MayRepeat]
      /\ toInsert \in [Syncers -> SUBSET Keys]
      /\ toRefresh \in [Syncers -> SUBSET RowIds]
      /\ toTransition \in [Syncers -> SUBSET Transitions]
      /\ retiring \in [Syncers -> SUBSET Keys]
  BY DEF Init
<1>7. PlannedRowsExist
  BY DEF Init, PlannedRowsExist
<1>8. QED
  BY <1>2, <1>3, <1>4, <1>5, <1>6, <1>7, <1>9 DEF TypeInv, TypeOK

\* The environment touches the cloud and the fetches under way only.
LEMMA CloudChangesLeave ==
    ASSUME CloudChanges
    PROVE  UNCHANGED <<rows, cis, record, regionError, pc, seen, repeated, toInsert, toRefresh,
                       toTransition, retiring, missed, absences>>
BY DEF CloudChanges, CreateResource, DestroyResource, OthersChange,
       tableVars, reportVars, planVars, historyVars

LEMMA EnvironmentTypeInv ==
    ASSUME TypeInv, CloudChanges
    PROVE  TypeInv'
<1>1. cloud' \in SUBSET Keys
  BY DEF TypeInv, TypeOK, CloudChanges, CreateResource, DestroyResource, OthersChange
<1>2. window' \in [Syncers -> Window]
  <2>1. ASSUME NEW k \in Keys, CreateResource(k) \/ DestroyResource(k)
        PROVE  window' \in [Syncers -> Window]
    <3>1. \A w \in Window :
            /\ [w EXCEPT !.ever = @ \cup {k}, !.grown = TRUE] \in Window
            /\ [w EXCEPT !.always = @ \ {k}, !.shrunk = TRUE] \in Window
      BY DEF Window
    <3>2. CASE CreateResource(k)
      BY <3>1, <3>2 DEF TypeInv, TypeOK, CreateResource
    <3>3. CASE DestroyResource(k)
      BY <3>1, <3>3 DEF TypeInv, TypeOK, DestroyResource
    <3>4. QED
      BY <2>1, <3>2, <3>3
  <2>2. CASE OthersChange
    <3>1. PICK destroyed \in BOOLEAN :
            window' = [s \in Syncers |->
                         IF pc[s] = "fetching"
                         THEN [window[s] EXCEPT !.shrunk = @ \/ destroyed,
                                                !.grown = @ \/ ~destroyed]
                         ELSE window[s]]
      BY <2>2 DEF OthersChange
    <3>2. \A w \in Window :
            [w EXCEPT !.shrunk = @ \/ destroyed, !.grown = @ \/ ~destroyed] \in Window
      BY DEF Window
    <3>3. QED
      BY <3>1, <3>2 DEF TypeInv, TypeOK
  <2>3. QED
    BY <2>1, <2>2 DEF CloudChanges
<1>3. QED
  BY <1>1, <1>2, CloudChangesLeave DEF TypeInv, TypeOK, PlannedRowsExist, RowsOf

\* A run that ends early drops its plan.
LEMMA DropLocalsPlans ==
    ASSUME TypeInv, NEW s \in Syncers, DropLocals(s), rows' = rows
    PROVE  PlannedRowsExist'
BY DEF TypeInv, TypeOK, PlannedRowsExist, DropLocals, RowsOf

\* No step of a syncer leaves the types or strands a planned write.
LEMMA RunTypeInv ==
    ASSUME TypeInv, NEW s \in Syncers, Run(s)
    PROVE  TypeInv'
<1> USE DEF TypeInv
<1>0. 0 \in 0..MissCap
  BY MissCapAssumption
<1>1. CASE StartRun(s)
  BY <1>1 DEF TypeOK, PlannedRowsExist, RowsOf, StartRun, RunningRecord, Record, Step, Window, OpenWindow,
              tableVars, planVars, historyVars
<1>2. CASE FetchFails(s)
  <2>1. FinishRun(0, 0, TRUE) \in Record
    BY FinishRunType
  <2>2. QED
    BY <1>2, <2>1, DropLocalsType, DropLocalsPlans
       DEF TypeOK, FetchFails, FailRun, tableVars, historyVars
<1>3. CASE FetchReturns(s)
  BY <1>3 DEF TypeOK, PlannedRowsExist, RowsOf, FetchReturns, Step, Window, NoWindow, OpenWindow,
              tableVars, reportVars, planVars, historyVars
<1>4. CASE ReconcileSucceeds(s)
  <2>1. \A k \in Keys : Saturate(missed[k] + 1) \in 0..MissCap
                         /\ Saturate(absences[k] + 1) \in 0..MissCap
    <3> TAKE k \in Keys
    <3>1. missed[k] + 1 \in Nat /\ absences[k] + 1 \in Nat
      BY MissCapAssumption DEF TypeOK
    <3>2. Saturate(missed[k] + 1) \in 0..MissCap
      BY <3>1, SaturateType
    <3>3. Saturate(absences[k] + 1) \in 0..MissCap
      BY <3>1, SaturateType
    <3>4. QED
      BY <3>2, <3>3
  <2>2. missed' \in [Keys -> 0..MissCap] /\ absences' \in [Keys -> 0..MissCap]
    BY <1>0, <1>4, <2>1 DEF TypeOK, ReconcileSucceeds
  <2>3. QED
    BY <1>4, <2>2, ReconciledType
       DEF TypeOK, PlannedRowsExist, RowsOf, ReconcileSucceeds, Step, reportVars, planVars
<1>5. CASE ReconcileFails(s)
  <2>1. cis' \in [Keys -> {"absent", "operational", "retired"}]
    BY <1>5, ReconciledType DEF ReconcileFails
  <2>2. FinishRun(0, Cardinality(seen[s]), TRUE) \in Record
    BY FinishRunType DEF TypeOK
  <2>3. QED
    BY <1>5, <2>1, <2>2, DropLocalsType, DropLocalsPlans
       DEF TypeOK, ReconcileFails, FailRun, historyVars
<1>6. CASE EmptyReconcileFails(s)
  <2>1. FinishRun(0, 0, TRUE) \in Record
    BY FinishRunType
  <2>2. QED
    BY <1>6, <2>1, DropLocalsType, DropLocalsPlans
       DEF TypeOK, EmptyReconcileFails, FailRun, tableVars, historyVars
<1>7. CASE PlanUpdates(s)
  <2>1. \A index \in RowIndexes(rows) : ToRefresh(seen[s], rows, index) \in SUBSET RowsOf(rows)
    BY DEF RowIndexes, ToRefresh, RowsFor
  <2>2. ToTransition(seen[s], rows) \in SUBSET Transitions
    BY TransitionType DEF TypeOK, ToTransition
  <2>3. \A t \in ToTransition(seen[s], rows) : t.row \in RowsOf(rows)
    <3>1. \A r \in RowsOf(rows) : Transition(rows, r).row = r
      BY DEF Transition
    <3>2. QED
      BY <3>1 DEF ToTransition
  <2>4. ToInsert(seen[s], rows) \in SUBSET Keys
    BY DEF TypeOK, ToInsert
  <2>5. RowsOf(rows) \subseteq RowIds
    BY DEF RowsOf
  <2>6. TypeOK'
    BY <1>7, <2>1, <2>2, <2>4, <2>5
       DEF TypeOK, PlanUpdates, Step, cloudVars, tableVars, reportVars, historyVars
  <2>7. PlannedRowsExist'
    BY <1>7, <2>1, <2>3 DEF TypeOK, PlannedRowsExist, PlanUpdates, tableVars, RowsOf
  <2>8. QED
    BY <2>6, <2>7
<1>8. ASSUME NEW k \in Keys, NEW r \in RowIds, ApplyInsert(s, k, r)
      PROVE  TypeInv'
  <2>1. FreshRow(k) \in Row
    BY <1>0 DEF FreshRow, Row, Status
  <2>2. rows' \in Table
    BY <1>8, <2>1 DEF TypeOK, ApplyInsert, Table
  <2>3. TypeOK'
    BY <1>0, <1>8, <2>2 DEF TypeOK, ApplyInsert, cloudVars, reportVars
  <2>4. RowsOf(rows) \subseteq RowsOf(rows')
    BY <1>8, <2>1, NoRowAssumption DEF TypeOK, ApplyInsert, Table, RowsOf
  <2>5. QED
    BY <1>8, <2>3, <2>4 DEF TypeOK, PlannedRowsExist, ApplyInsert
<1>9. ASSUME NEW r \in RowIds, ApplyRefresh(s, r)
      PROVE  TypeInv'
  <2>1. rows[r] \in Row
    BY <1>9 DEF TypeOK, PlannedRowsExist, ApplyRefresh, Table, RowsOf
  <2>2. rows[r].key \in Keys /\ FreshRow(rows[r].key) \in Row
    BY <1>0, <2>1 DEF FreshRow, Row, Status
  <2>3. rows' \in Table
    BY <1>9, <2>2 DEF TypeOK, ApplyRefresh, Table
  <2>4. TypeOK'
    BY <1>0, <1>9, <2>2, <2>3 DEF TypeOK, ApplyRefresh, cloudVars, reportVars
  <2>5. RowsOf(rows) \subseteq RowsOf(rows')
    BY <1>9, <2>2, NoRowAssumption DEF TypeOK, ApplyRefresh, Table, RowsOf
  <2>6. QED
    BY <1>9, <2>4, <2>5 DEF TypeOK, PlannedRowsExist, ApplyRefresh
<1>10. ASSUME NEW t \in toTransition[s], ApplyTransition(s, t)
       PROVE  TypeInv'
  <2>1. t \in Transitions /\ t.row \in RowIds
    BY DEF TypeOK, Transitions
  <2>2. rows[t.row] \in Row
    BY <2>1 DEF TypeOK, PlannedRowsExist, Table, RowsOf
  <2>3. rows[t.row].key \in Keys
        /\ [key |-> rows[t.row].key, status |-> t.status, miss |-> t.miss] \in Row
    BY <2>1, <2>2 DEF Row, Transitions
  <2>4. rows' \in Table
    BY <1>10, <2>1, <2>3 DEF TypeOK, ApplyTransition, Table
  <2>5. TypeOK'
    BY <1>10, <2>3, <2>4 DEF TypeOK, ApplyTransition, cloudVars, reportVars, historyVars
  <2>6. RowsOf(rows) \subseteq RowsOf(rows')
    BY <1>10, <2>3, NoRowAssumption DEF TypeOK, ApplyTransition, Table, RowsOf
  <2>7. QED
    BY <1>10, <2>5, <2>6 DEF TypeOK, PlannedRowsExist, ApplyTransition
<1>11. ASSUME NEW k \in Keys, RetireCi(s, k)
       PROVE  TypeInv'
  BY <1>11 DEF TypeOK, PlannedRowsExist, RowsOf, RetireCi, cloudVars, reportVars, historyVars
<1>12. CASE ApplyThrows(s)
  <2>1. FinishRun(0, Cardinality(seen[s]), TRUE) \in Record
    BY FinishRunType DEF TypeOK
  <2>2. QED
    BY <1>12, <2>1, DropLocalsType, DropLocalsPlans
       DEF TypeOK, ApplyThrows, FailRun, tableVars, historyVars
<1>13. CASE CompleteRun(s)
  <2>1. FinishRun(Cardinality(seen[s]), 0, FALSE) \in Record
    BY FinishRunType DEF TypeOK
  <2>2. QED
    BY <1>13, <2>1, DropLocalsType, DropLocalsPlans
       DEF TypeOK, CompleteRun, tableVars, historyVars
<1>14. CASE Crash(s)
  BY <1>14, DropLocalsType, DropLocalsPlans
     DEF TypeOK, Crash, tableVars, reportVars, historyVars
<1>15. QED
  BY <1>1, <1>2, <1>3, <1>4, <1>5, <1>6, <1>7, <1>8, <1>9, <1>10,
     <1>11, <1>12, <1>13, <1>14 DEF Run

LEMMA NextTypeInv == TypeInv /\ [Next]_vars => TypeInv'
<1> SUFFICES ASSUME TypeInv, [Next]_vars PROVE TypeInv'
  OBVIOUS
<1>1. CASE Next
  BY <1>1, EnvironmentTypeInv, RunTypeInv DEF Next
<1>2. CASE UNCHANGED vars
  BY <1>2 DEF TypeInv, TypeOK, PlannedRowsExist, RowsOf, vars
<1>3. QED
  BY <1>1, <1>2

LEMMA AlwaysTypeInv == Spec => []TypeInv
BY InitTypeInv, NextTypeInv, PTL DEF Spec

\* Every state the syncers can reach is well typed, however many of them
\* overlap and whatever fails.
THEOREM TypeCorrect == Spec => []TypeOK
<1>1. TypeInv => TypeOK
  BY DEF TypeInv
<1>2. QED
  BY <1>1, AlwaysTypeInv, PTL

\* However runs overlap, the rows a plan refers to exist until it is done.
THEOREM PlansStayValid == Spec => []PlannedRowsExist
<1>1. TypeInv => PlannedRowsExist
  BY DEF TypeInv
<1>2. QED
  BY <1>1, AlwaysTypeInv, PTL

-----------------------------------------------------------------------------
(* Serialized runs: SerialInv is inductive when no two syncers overlap.     *)

Serialized == \A q, s \in Syncers : q = s

LEMMA RowFacts ==
    ASSUME TypeInv, NEW r \in RowsOf(rows)
    PROVE  /\ r \in RowIds
           /\ rows[r] \in Row
           /\ rows[r].key \in Keys
           /\ rows[r].status \in Status
           /\ rows[r].miss \in Nat
           /\ rows[r].miss \in 0..MissCap
           /\ missed[rows[r].key] \in Nat
           /\ missed[rows[r].key] \in 0..MissCap
<1>1. r \in RowIds /\ rows[r] \in Row
  BY DEF TypeInv, TypeOK, Table, RowsOf
<1>2. rows[r].key \in Keys /\ rows[r].status \in Status /\ rows[r].miss \in 0..MissCap
  BY <1>1 DEF Row
<1>3. missed[rows[r].key] \in 0..MissCap
  BY <1>2 DEF TypeInv, TypeOK
<1>4. QED
  BY <1>1, <1>2, <1>3, MissCapAssumption

LEMMA InitSerialInv == Init => SerialInv
<1> SUFFICES ASSUME Init PROVE SerialInv
  OBVIOUS
<1>1. TypeInv
  BY InitTypeInv
<1>2. RowsOf(rows) = {}
  BY DEF Init, RowsOf
<1>3. QED
  BY <1>1, <1>2 DEF Init, SerialInv, TypeInv, OneRowPerKey, MissesAreBacked,
     PlanWillBeBacked, PlanIsBacked, PlanOnlyWhenApplying

\* Steps that touch neither rows, history nor plans.
LEMMA QuietSteps ==
    ASSUME SerialInv, TypeInv',
           rows' = rows, missed' = missed, seen' = seen, repeated' = repeated,
           toInsert' = toInsert, toRefresh' = toRefresh, toTransition' = toTransition,
           \A q \in Syncers : /\ pc'[q] = "planning" => pc[q] = "planning"
                              /\ pc[q] = "applying" => pc'[q] = "applying"
    PROVE  SerialInv'
BY DEF SerialInv, TypeInv, OneRowPerKey, MissesAreBacked, PlanWillBeBacked, PlanIsBacked,
       PlanOnlyWhenApplying, RowsOf, KeysOf

\* A run that returns or dies drops its plan and leaves the rows alone.
LEMMA DroppedRuns ==
    ASSUME SerialInv, TypeInv', NEW s \in Syncers, DropLocals(s),
           rows' = rows, missed' = missed
    PROVE  SerialInv'
<1>1. OneRowPerKey' /\ MissesAreBacked'
  BY DEF SerialInv, OneRowPerKey, MissesAreBacked, RowsOf
<1>2. PlanWillBeBacked'
  BY DEF SerialInv, TypeOK, PlanWillBeBacked, DropLocals, RowsOf
<1>3. PlanIsBacked'
  BY DEF SerialInv, TypeOK, PlanIsBacked, DropLocals, RowsOf, KeysOf
<1>4. PlanOnlyWhenApplying'
  BY DEF SerialInv, TypeOK, PlanOnlyWhenApplying, DropLocals
<1>5. QED
  BY <1>1, <1>2, <1>3, <1>4 DEF SerialInv, TypeInv

\* The history only grows when an observation is made, and by one for
\* exactly the resources it did not see.
LEMMA ObservationBacksPlan ==
    ASSUME SerialInv, TypeInv', Serialized, NEW s \in Syncers, ReconcileSucceeds(s)
    PROVE  SerialInv'
<1> USE DEF SerialInv
<1>0. TypeInv
  BY DEF TypeInv
<1>1. rows' = rows /\ seen' = seen
  BY DEF ReconcileSucceeds
<1>2. ASSUME NEW r \in RowsOf(rows)
      PROVE  /\ rows[r].miss <= missed'[rows[r].key]
             /\ rows[r].key \notin seen[s] => Saturate(rows[r].miss + 1) <= missed'[rows[r].key]
  <2>1. rows[r].miss <= missed[rows[r].key]
    BY DEF MissesAreBacked
  <2>2. missed'[rows[r].key] = IF rows[r].key \in seen[s] THEN missed[rows[r].key]
                                ELSE Saturate(missed[rows[r].key] + 1)
    BY <1>0, RowFacts DEF ReconcileSucceeds
  <2>3. Saturate(rows[r].miss + 1) <= Saturate(missed[rows[r].key] + 1)
    BY <1>0, <2>1, RowFacts, SaturateMonotone
  <2>4. rows[r].miss <= Saturate(missed[rows[r].key] + 1)
    BY <1>0, <2>1, RowFacts, MissCapAssumption DEF Saturate
  <2>5. QED
    BY <2>1, <2>2, <2>3, <2>4
<1>3. RowsOf(rows)' = RowsOf(rows)
  BY <1>1 DEF RowsOf
<1>4. OneRowPerKey'
  BY <1>1, <1>3 DEF OneRowPerKey
<1>5. MissesAreBacked'
  BY <1>1, <1>2, <1>3 DEF MissesAreBacked
<1>6. \A q \in Syncers : q = s
  BY DEF Serialized
<1>7. PlanWillBeBacked'
  BY <1>1, <1>2, <1>3, <1>6 DEF PlanWillBeBacked
<1>8. toInsert'[s] = {} /\ toRefresh'[s] = {} /\ toTransition'[s] = {}
  BY DEF ReconcileSucceeds, planVars, PlanOnlyWhenApplying
<1>9. PlanIsBacked' /\ PlanOnlyWhenApplying'
  BY <1>6, <1>8 DEF PlanIsBacked, PlanOnlyWhenApplying
<1>10. QED
  BY <1>4, <1>5, <1>7, <1>9 DEF TypeInv

\* A plan made from the rows and the observation is backed by them.
LEMMA PlanFromObservation ==
    ASSUME SerialInv, TypeInv', Serialized, NEW s \in Syncers, PlanUpdates(s)
    PROVE  SerialInv'
<1> USE DEF SerialInv
<1>0. TypeInv
  BY DEF TypeInv
<1>1. /\ rows' = rows /\ seen' = seen /\ missed' = missed
      /\ pc[s] = "planning" /\ pc'[s] = "applying"
      /\ RowsOf(rows)' = RowsOf(rows) /\ KeysOf(rows)' = KeysOf(rows)
  BY DEF PlanUpdates, tableVars, historyVars, TypeOK, RowsOf, KeysOf
<1>2. \A q \in Syncers : q = s
  BY DEF Serialized
<1>3. OneRowPerKey' /\ MissesAreBacked'
  BY <1>1 DEF OneRowPerKey, MissesAreBacked
<1>4. PlanWillBeBacked' /\ PlanOnlyWhenApplying'
  BY <1>1, <1>2 DEF PlanWillBeBacked, PlanOnlyWhenApplying
<1>5. toInsert'[s] \subseteq seen[s] \ KeysOf(rows)
  BY DEF PlanUpdates, ToInsert, TypeOK
<1>6. \A r \in toRefresh'[s] : rows[r].key \in seen[s]
  <2>1. PICK index \in RowIndexes(rows) : toRefresh'[s] = ToRefresh(seen[s], rows, index)
    BY DEF PlanUpdates, TypeOK
  <2>2. \A k \in KeysOf(rows) : rows[index[k]].key = k
    BY DEF RowIndexes, RowsFor
  <2>3. QED
    BY <2>1, <2>2 DEF ToRefresh
<1>7. ASSUME NEW t \in toTransition'[s]
      PROVE  /\ rows[t.row].key \notin seen[s]
             /\ t.miss <= missed[rows[t.row].key]
             /\ t.status = "retired" => t.miss >= EffectiveThreshold
  <2>1. PICK r \in RowsOf(rows) : rows[r].key \notin seen[s] /\ t = Transition(rows, r)
    BY DEF PlanUpdates, ToTransition, TypeOK
  <2>2. /\ t.row = r
        /\ t.status = AfterMiss(rows[r]).status
        /\ t.miss = AfterMiss(rows[r]).miss
    BY <2>1 DEF Transition, ComputeNextState
  <2>3. rows[r].status = "retired" => rows[r].miss >= EffectiveThreshold
    BY DEF MissesAreBacked
  <2>4. /\ AfterMiss(rows[r]).miss = Saturate(rows[r].miss + 1)
        /\ AfterMiss(rows[r]).status = "retired"
              => AfterMiss(rows[r]).miss >= EffectiveThreshold
    BY <1>0, <2>3, RowFacts, AfterMissFacts
  <2>5. Saturate(rows[r].miss + 1) <= missed[rows[r].key]
    BY <1>1, <2>1 DEF PlanWillBeBacked
  <2>6. QED
    BY <2>1, <2>2, <2>4, <2>5
<1>8. PlanIsBacked'
  BY <1>1, <1>2, <1>5, <1>6, <1>7 DEF PlanIsBacked
<1>9. QED
  BY <1>3, <1>4, <1>8 DEF TypeInv

\* A write to one row leaves the set of rows and their keys as they were.
LEMMA RewrittenRow ==
    ASSUME TypeInv, NEW w \in RowsOf(rows), NEW row \in Row, row.key = rows[w].key,
           rows' = [rows EXCEPT ![w] = row]
    PROVE  /\ RowsOf(rows)' = RowsOf(rows)
           /\ KeysOf(rows)' = KeysOf(rows)
           /\ \A r \in RowsOf(rows) : rows'[r].key = rows[r].key
           /\ \A r \in RowsOf(rows) : r # w => rows'[r] = rows[r]
           /\ rows'[w] = row
<1>1. w \in RowIds /\ rows'[w] = row /\ \A r \in RowIds : r # w => rows'[r] = rows[r]
  BY DEF TypeInv, TypeOK, Table, RowsOf
<1>2. row # NoRow
  BY NoRowAssumption
<1>3. RowsOf(rows)' = RowsOf(rows)
  BY <1>1, <1>2 DEF RowsOf
<1>4. \A r \in RowsOf(rows) : rows'[r].key = rows[r].key
  BY <1>1 DEF RowsOf
<1>5. KeysOf(rows)' = KeysOf(rows)
  BY <1>3, <1>4 DEF KeysOf
<1>6. QED
  BY <1>1, <1>3, <1>4, <1>5 DEF RowsOf

\* An insert gives a resource its first row.
LEMMA InsertKeepsBacking ==
    ASSUME SerialInv, TypeInv', Serialized, MayRepeat = {}, NEW s \in Syncers,
           NEW k \in Keys, NEW w \in RowIds, ApplyInsert(s, k, w)
    PROVE  SerialInv'
<1> USE DEF SerialInv
<1>0. TypeInv
  BY DEF TypeInv
<1>1. /\ rows'[w] = FreshRow(k)
      /\ \A r \in RowIds : r # w => rows'[r] = rows[r]
      /\ missed'[k] = 0
      /\ \A l \in Keys : l # k => missed'[l] = missed[l]
      /\ rows[w] = NoRow
  BY DEF ApplyInsert, TypeOK, Table
<1>2. /\ seen' = seen /\ pc' = pc /\ pc[s] = "applying" /\ k \in toInsert[s]
      /\ toInsert'[s] = toInsert[s] \ {k}
      /\ toRefresh' = toRefresh /\ toTransition' = toTransition
  BY DEF ApplyInsert, TypeOK
<1>3. FreshRow(k) \in Row
  BY MissCapAssumption DEF FreshRow, Row, Status
<1>4. RowsOf(rows)' = RowsOf(rows) \cup {w} /\ w \notin RowsOf(rows)
  BY <1>1, <1>3, NoRowAssumption DEF RowsOf
<1>5. KeysOf(rows)' = KeysOf(rows) \cup {k}
  BY <1>1, <1>4 DEF KeysOf, FreshRow, RowsOf
<1>6. k \notin KeysOf(rows) /\ k \in seen[s]
  BY <1>2 DEF PlanIsBacked
<1>7. \A r \in RowsOf(rows) : r # w /\ rows'[r] = rows[r] /\ rows[r].key # k
  BY <1>1, <1>4, <1>6 DEF KeysOf, RowsOf
<1>8. \A q \in Syncers : q = s
  BY DEF Serialized
<1>9. OneRowPerKey'
  BY <1>1, <1>4, <1>7 DEF OneRowPerKey, FreshRow
<1>10. MissesAreBacked'
  <2>1. ASSUME NEW r \in RowsOf(rows)
        PROVE  /\ rows'[r].miss <= missed'[rows'[r].key]
               /\ rows'[r].status = "retired" => rows'[r].miss >= EffectiveThreshold
    BY <1>0, <1>1, <1>7, RowFacts DEF MissesAreBacked
  <2>2. rows'[w].miss <= missed'[rows'[w].key] /\ rows'[w].status # "retired"
    BY <1>1 DEF FreshRow
  <2>3. QED
    BY <1>4, <2>1, <2>2 DEF MissesAreBacked
<1>11. PlanWillBeBacked' /\ PlanOnlyWhenApplying'
  BY <1>2, <1>8 DEF PlanWillBeBacked, PlanOnlyWhenApplying
<1>12. toInsert'[s] \subseteq seen'[s] \ KeysOf(rows)'
  BY <1>2, <1>5 DEF PlanIsBacked
<1>13. \A r \in toRefresh'[s] : rows'[r].key \in seen'[s]
  BY <1>0, <1>2, <1>7 DEF PlanIsBacked, PlannedRowsExist
<1>14. ASSUME NEW t \in toTransition'[s]
       PROVE  /\ rows'[t.row].key \notin seen'[s]
              /\ t.miss <= missed'[rows'[t.row].key]
              /\ t.status = "retired" => t.miss >= EffectiveThreshold
  <2>1. t \in toTransition[s] /\ t.row \in RowsOf(rows)
    BY <1>2 DEF PlannedRowsExist
  <2>2. rows'[t.row] = rows[t.row] /\ missed'[rows[t.row].key] = missed[rows[t.row].key]
    BY <1>0, <1>1, <1>7, <2>1, RowFacts
  <2>3. QED
    BY <1>2, <2>1, <2>2 DEF PlanIsBacked
<1>15. PlanIsBacked'
  BY <1>8, <1>12, <1>13, <1>14 DEF PlanIsBacked
<1>16. QED
  BY <1>9, <1>10, <1>11, <1>15 DEF TypeInv

\* A refresh restarts the count of a resource no transition is planned for.
LEMMA RefreshKeepsBacking ==
    ASSUME SerialInv, TypeInv', Serialized, NEW s \in Syncers,
           NEW w \in RowIds, ApplyRefresh(s, w)
    PROVE  SerialInv'
<1> USE DEF SerialInv
<1> DEFINE k == rows[w].key
<1>0. TypeInv
  BY DEF TypeInv
<1>1. w \in RowsOf(rows) /\ k \in seen[s]
  BY DEF ApplyRefresh, PlannedRowsExist, PlanIsBacked
<1>2. k \in Keys /\ FreshRow(k) \in Row /\ FreshRow(k).key = k
  BY <1>0, <1>1, RowFacts, MissCapAssumption DEF FreshRow, Row, Status
<1>3. rows' = [rows EXCEPT ![w] = FreshRow(k)]
  BY DEF ApplyRefresh
<1>4. /\ RowsOf(rows)' = RowsOf(rows)
      /\ KeysOf(rows)' = KeysOf(rows)
      /\ \A r \in RowsOf(rows) : rows'[r].key = rows[r].key
      /\ \A r \in RowsOf(rows) : r # w => rows'[r] = rows[r]
      /\ rows'[w] = FreshRow(k)
  BY <1>0, <1>1, <1>2, <1>3, RewrittenRow
<1>5. /\ missed'[k] = 0 /\ \A l \in Keys : l # k => missed'[l] = missed[l]
      /\ seen' = seen /\ pc' = pc /\ pc[s] = "applying"
      /\ toInsert' = toInsert /\ toTransition' = toTransition
      /\ toRefresh'[s] \subseteq toRefresh[s] /\ repeated' = repeated
  BY <1>2 DEF ApplyRefresh, TypeOK
<1>6. \A q \in Syncers : q = s
  BY DEF Serialized
<1>7. OneRowPerKey'
  BY <1>4 DEF OneRowPerKey
<1>8. MissesAreBacked'
  <2>1. ASSUME NEW r \in RowsOf(rows), r # w
        PROVE  /\ rows'[r].miss <= missed'[rows'[r].key]
               /\ rows'[r].status = "retired" => rows'[r].miss >= EffectiveThreshold
    <3>1. rows[r].key # k
      BY <1>1, <2>1 DEF OneRowPerKey
    <3>2. QED
      BY <1>0, <1>4, <1>5, <2>1, <3>1, RowFacts DEF MissesAreBacked
  <2>2. rows'[w].miss <= missed'[rows'[w].key] /\ rows'[w].status # "retired"
    BY <1>4, <1>5 DEF FreshRow
  <2>3. QED
    BY <1>4, <2>1, <2>2 DEF MissesAreBacked
<1>9. PlanWillBeBacked' /\ PlanOnlyWhenApplying'
  BY <1>5, <1>6 DEF PlanWillBeBacked, PlanOnlyWhenApplying
<1>10. ASSUME NEW t \in toTransition'[s]
       PROVE  /\ rows'[t.row].key \notin seen'[s]
              /\ t.miss <= missed'[rows'[t.row].key]
              /\ t.status = "retired" => t.miss >= EffectiveThreshold
  <2>1. t \in toTransition[s] /\ t.row \in RowsOf(rows)
    BY <1>5 DEF PlannedRowsExist
  <2>2. rows[t.row].key \notin seen[s]
    BY <2>1 DEF PlanIsBacked
  <2>3. missed'[rows[t.row].key] = missed[rows[t.row].key]
    BY <1>0, <1>1, <1>5, <2>1, <2>2, RowFacts
  <2>4. QED
    BY <1>4, <1>5, <2>1, <2>2, <2>3 DEF PlanIsBacked
<1>11. PlanIsBacked'
  <2>1. toInsert'[s] \subseteq seen'[s] \ KeysOf(rows)'
    BY <1>4, <1>5 DEF PlanIsBacked
  <2>2. \A r \in toRefresh'[s] : rows'[r].key \in seen'[s]
    BY <1>4, <1>5 DEF PlanIsBacked, PlannedRowsExist
  <2>3. QED
    BY <1>6, <1>10, <2>1, <2>2 DEF PlanIsBacked
<1>12. QED
  BY <1>7, <1>8, <1>9, <1>11 DEF TypeInv

\* A transition writes what the plan had backed.
LEMMA TransitionKeepsBacking ==
    ASSUME SerialInv, TypeInv', Serialized, NEW s \in Syncers,
           NEW t \in toTransition[s], ApplyTransition(s, t)
    PROVE  SerialInv'
<1> USE DEF SerialInv
<1> DEFINE row == [key |-> rows[t.row].key, status |-> t.status, miss |-> t.miss]
<1>0. TypeInv
  BY DEF TypeInv
<1>1. /\ t.row \in RowsOf(rows)
      /\ rows[t.row].key \notin seen[s]
      /\ t.miss <= missed[rows[t.row].key]
      /\ t.status = "retired" => t.miss >= EffectiveThreshold
  BY DEF PlannedRowsExist, PlanIsBacked
<1>2. row \in Row /\ row.key = rows[t.row].key
  <2>1. t.status \in Status /\ t.miss \in 0..MissCap
    BY DEF TypeOK, Transitions
  <2>2. QED
    BY <1>0, <1>1, <2>1, RowFacts DEF Row
<1>3. rows' = [rows EXCEPT ![t.row] = row]
  BY DEF ApplyTransition
<1>4. /\ RowsOf(rows)' = RowsOf(rows)
      /\ KeysOf(rows)' = KeysOf(rows)
      /\ \A r \in RowsOf(rows) : rows'[r].key = rows[r].key
      /\ \A r \in RowsOf(rows) : r # t.row => rows'[r] = rows[r]
      /\ rows'[t.row] = row
  <2> HIDE DEF row
  <2>1. QED
    BY <1>0, <1>1, <1>2, <1>3, RewrittenRow
<1>5. /\ missed' = missed /\ seen' = seen /\ pc' = pc /\ pc[s] = "applying"
      /\ toInsert' = toInsert /\ toRefresh' = toRefresh
      /\ toTransition'[s] \subseteq toTransition[s] /\ repeated' = repeated
  BY DEF ApplyTransition, TypeOK, historyVars
<1>6. \A q \in Syncers : q = s
  BY DEF Serialized
<1>7. OneRowPerKey'
  BY <1>4 DEF OneRowPerKey
<1>8. MissesAreBacked'
  <2>1. ASSUME NEW r \in RowsOf(rows), r # t.row
        PROVE  /\ rows'[r].miss <= missed'[rows'[r].key]
               /\ rows'[r].status = "retired" => rows'[r].miss >= EffectiveThreshold
    BY <1>4, <1>5, <2>1 DEF MissesAreBacked
  <2>2. /\ rows'[t.row].miss <= missed'[rows'[t.row].key]
        /\ rows'[t.row].status = "retired" => rows'[t.row].miss >= EffectiveThreshold
    BY <1>1, <1>4, <1>5
  <2>3. QED
    BY <1>4, <2>1, <2>2 DEF MissesAreBacked
<1>9. PlanWillBeBacked' /\ PlanOnlyWhenApplying'
  BY <1>5, <1>6 DEF PlanWillBeBacked, PlanOnlyWhenApplying
<1>10. PlanIsBacked'
  <2>1. toInsert'[s] \subseteq seen'[s] \ KeysOf(rows)'
    BY <1>4, <1>5 DEF PlanIsBacked
  <2>2. \A r \in toRefresh'[s] : rows'[r].key \in seen'[s]
    BY <1>4, <1>5 DEF PlanIsBacked, PlannedRowsExist
  <2>3. ASSUME NEW u \in toTransition'[s]
        PROVE  /\ rows'[u.row].key \notin seen'[s]
               /\ u.miss <= missed'[rows'[u.row].key]
               /\ u.status = "retired" => u.miss >= EffectiveThreshold
    <3>1. u \in toTransition[s] /\ u.row \in RowsOf(rows)
      BY <1>5 DEF PlannedRowsExist
    <3>2. QED
      BY <1>4, <1>5, <3>1 DEF PlanIsBacked
  <2>4. QED
    BY <1>6, <2>1, <2>2, <2>3 DEF PlanIsBacked
<1>11. QED
  BY <1>7, <1>8, <1>9, <1>10 DEF TypeInv

LEMMA NextSerialInv ==
    ASSUME Serialized, MayRepeat = {}
    PROVE  SerialInv /\ [Next]_vars => SerialInv'
<1> SUFFICES ASSUME SerialInv, [Next]_vars PROVE SerialInv'
  OBVIOUS
<1>0. TypeInv /\ TypeInv'
  BY NextTypeInv DEF SerialInv, TypeInv
<1>1. CASE UNCHANGED vars
  BY <1>0, <1>1, QuietSteps DEF vars
<1>2. CASE CloudChanges
  BY <1>0, <1>2, CloudChangesLeave, QuietSteps
<1>3. ASSUME NEW s \in Syncers, Run(s)
      PROVE  SerialInv'
  <2>1. CASE StartRun(s)
    BY <1>0, <2>1, QuietSteps
       DEF StartRun, tableVars, planVars, historyVars, SerialInv, TypeOK, Step
  <2>2. CASE FetchReturns(s)
    <3>1. /\ rows' = rows /\ missed' = missed
          /\ toInsert' = toInsert /\ toRefresh' = toRefresh /\ toTransition' = toTransition
          /\ pc[s] = "fetching" /\ pc'[s] = "reconciling"
      BY <2>2 DEF FetchReturns, tableVars, planVars, historyVars, SerialInv, TypeOK
    <3>2. \A q \in Syncers : q = s
      BY DEF Serialized
    <3>3. toInsert[s] = {} /\ toRefresh[s] = {} /\ toTransition[s] = {}
      BY <3>1 DEF SerialInv, PlanOnlyWhenApplying
    <3>4. PlanWillBeBacked' /\ PlanOnlyWhenApplying' /\ PlanIsBacked'
      BY <3>1, <3>2, <3>3 DEF PlanWillBeBacked, PlanOnlyWhenApplying, PlanIsBacked
    <3>5. OneRowPerKey' /\ MissesAreBacked'
      BY <3>1 DEF SerialInv, OneRowPerKey, MissesAreBacked, RowsOf
    <3>6. QED
      BY <1>0, <3>4, <3>5 DEF SerialInv, TypeInv
  <2>3. CASE ReconcileSucceeds(s)
    BY <1>0, <2>3, ObservationBacksPlan
  <2>4. CASE PlanUpdates(s)
    BY <1>0, <2>4, PlanFromObservation
  <2>5. CASE \E k \in Keys, r \in RowIds : ApplyInsert(s, k, r)
    BY <1>0, <2>5, InsertKeepsBacking
  <2>6. CASE \E r \in RowIds : ApplyRefresh(s, r)
    BY <1>0, <2>6, RefreshKeepsBacking
  <2>7. CASE \E t \in toTransition[s] : ApplyTransition(s, t)
    BY <1>0, <2>7, TransitionKeepsBacking
  <2>8. CASE \E k \in Keys : RetireCi(s, k)
    BY <1>0, <2>8, QuietSteps DEF RetireCi, historyVars
  <2>9. CASE FetchFails(s) \/ ReconcileFails(s) \/ EmptyReconcileFails(s)
             \/ ApplyThrows(s) \/ CompleteRun(s) \/ Crash(s)
    <3>1. DropLocals(s) /\ rows' = rows /\ missed' = missed
      BY <2>9 DEF FetchFails, ReconcileFails, EmptyReconcileFails, ApplyThrows, CompleteRun,
                  Crash, FailRun, tableVars, historyVars
    <3>2. QED
      BY <1>0, <3>1, DroppedRuns
  <2>10. QED
    BY <1>3, <2>1, <2>2, <2>3, <2>4, <2>5, <2>6, <2>7, <2>8, <2>9 DEF Run
<1>4. QED
  BY <1>1, <1>2, <1>3 DEF Next

LEMMA AlwaysSerialInv ==
    ASSUME Serialized, MayRepeat = {}
    PROVE  Spec => []SerialInv
<1>1. Init => SerialInv
  BY InitSerialInv
<1>2. SerialInv /\ [Next]_vars => SerialInv'
  BY NextSerialInv
<1>3. QED
  BY <1>1, <1>2, PTL DEF Spec

\* When runs do not overlap and no fetch lists a resource twice (marker
\* paging), a row is retired only after EffectiveThreshold
\* complete observations without its resource since it was last fresh,
\* whatever fails, throws or crashes in between.
THEOREM RetirementIsBacked ==
    ASSUME Serialized, MayRepeat = {}
    PROVE  Spec => []RetiredIsBacked
<1>1. SerialInv => RetiredIsBacked
  <2> SUFFICES ASSUME SerialInv, NEW r \in RowsOf(rows), rows[r].status = "retired"
               PROVE  missed[rows[r].key] >= EffectiveThreshold
    BY DEF RetiredIsBacked
  <2>1. TypeInv
    BY DEF SerialInv, TypeInv
  <2>2. rows[r].miss <= missed[rows[r].key] /\ rows[r].miss >= EffectiveThreshold
    BY DEF SerialInv, MissesAreBacked
  <2>3. QED
    BY <2>1, <2>2, RowFacts, ThresholdRange, MissCapAssumption
<1>2. QED
  BY <1>1, AlwaysSerialInv, PTL

\* Under the same conditions the composite key stays unique although every
\* insert is blind.
THEOREM KeysStayUnique ==
    ASSUME Serialized, MayRepeat = {}
    PROVE  Spec => []OneRowPerKey
<1>1. SerialInv => OneRowPerKey
  BY DEF SerialInv
<1>2. QED
  BY <1>1, AlwaysSerialInv, PTL

\* Under the same conditions every row, every count and every planned write is
\* justified by the observations made so far.
THEOREM SerialRunsAreBacked ==
    ASSUME Serialized, MayRepeat = {}
    PROVE  Spec => []SerialInv
BY AlwaysSerialInv

-----------------------------------------------------------------------------
(* Retired rows and their CIs, however runs overlap, as long as the writes  *)
(* of a plan are carried out: no table access throws and no node dies.      *)

WritesAreCarriedOut == RetiredChoiceDefined /\ "apply" \notin Faults /\ "crash" \notin Faults

\* The resources that have a CI, and those whose CI is retired or will be.
Present == {k \in Keys : cis[k] # "absent"}
Due == {k \in Keys : cis[k] = "retired" \/ \E s \in Syncers : k \in retiring[s]}

RowsCi ==
    \A r \in RowsOf(rows) :
        /\ rows[r].key \in Present
        /\ rows[r].status = "retired" => rows[r].key \in Due

SyncerCi(s) ==
    /\ pc[s] \in {"planning", "applying"} => seen[s] \subseteq Present
    /\ toInsert[s] \subseteq seen[s]
    /\ pc[s] # "applying" => toInsert[s] = {} /\ toTransition[s] = {} /\ retiring[s] = {}
    /\ \A k, l \in retiring[s] : k = l
    /\ retiring[s] \subseteq Present
    /\ \A t \in toTransition[s] :
          t.status = "retired" => t.justRetired \/ rows[t.row].key \in Due

CiInv == TypeInv /\ RowsCi /\ \A s \in Syncers : SyncerCi(s)

LEMMA InitCiInv == Init => CiInv
<1> SUFFICES ASSUME Init PROVE CiInv
  OBVIOUS
<1>1. RowsOf(rows) = {}
  BY DEF Init, RowsOf
<1>2. QED
  BY <1>1, InitTypeInv DEF Init, CiInv, RowsCi, SyncerCi

\* A step of syncer s disturbs no other syncer's plan: rows keep their keys,
\* and CIs and what is due only become more.
LEMMA CiFrame ==
    ASSUME CiInv, TypeInv', NEW s \in Syncers,
           \A q \in Syncers : q # s =>
               /\ pc'[q] = pc[q] /\ seen'[q] = seen[q] /\ toInsert'[q] = toInsert[q]
               /\ toTransition'[q] = toTransition[q] /\ retiring'[q] = retiring[q],
           Present \subseteq Present', Due \subseteq Due',
           \A r \in RowsOf(rows) : rows'[r].key = rows[r].key,
           SyncerCi(s)', RowsCi'
    PROVE  CiInv'
<1>1. ASSUME NEW q \in Syncers PROVE SyncerCi(q)'
  <2>1. CASE q # s
    <3>1. SyncerCi(q)
      BY DEF CiInv
    <3>2. \A t \in toTransition[q] : rows'[t.row].key = rows[t.row].key
      BY DEF CiInv, TypeInv, PlannedRowsExist
    <3>3. QED
      BY <2>1, <3>1, <3>2 DEF SyncerCi
  <2>2. QED
    BY <2>1
<1>2. QED
  BY <1>1 DEF CiInv

\* ... and when it does not write to the table, only its own plan matters.
LEMMA CiFrameSameRows ==
    ASSUME CiInv, TypeInv', NEW s \in Syncers,
           \A q \in Syncers : q # s =>
               /\ pc'[q] = pc[q] /\ seen'[q] = seen[q] /\ toInsert'[q] = toInsert[q]
               /\ toTransition'[q] = toTransition[q] /\ retiring'[q] = retiring[q],
           Present \subseteq Present', Due \subseteq Due',
           rows' = rows, SyncerCi(s)'
    PROVE  CiInv'
<1>1. RowsCi'
  BY DEF CiInv, RowsCi, RowsOf
<1>2. QED
  BY <1>1, CiFrame

\* Locals are dropped only when no CI is left to retire.
LEMMA DropKeepsCi ==
    ASSUME CiInv, TypeInv', NEW s \in Syncers, DropLocals(s), retiring[s] = {},
           rows' = rows, Present \subseteq Present',
           \A k \in Keys : cis[k] = "retired" => cis'[k] = "retired"
    PROVE  CiInv'
<1>1. TypeOK
  BY DEF CiInv, TypeInv
<1>2. retiring' = retiring
  BY <1>1 DEF TypeOK, DropLocals
<1>3. Due \subseteq Due'
  BY <1>2 DEF Due
<1>4. SyncerCi(s)'
  BY <1>1 DEF TypeOK, DropLocals, SyncerCi
<1>5. QED
  BY <1>1, <1>3, <1>4, CiFrameSameRows DEF TypeOK, DropLocals

LEMMA ReconciledKeepsCis ==
    ASSUME TypeOK, NEW S \in SUBSET Keys, cis' = Reconciled(S)
    PROVE  /\ Present \cup S \subseteq Present'
           /\ \A k \in Keys : cis[k] = "retired" => cis'[k] = "retired"
BY DEF TypeOK, Reconciled, Present

LEMMA RunKeepsCi ==
    ASSUME WritesAreCarriedOut, CiInv, TypeInv', NEW s \in Syncers, Run(s)
    PROVE  CiInv'
<1>0. TypeOK /\ PlannedRowsExist /\ SyncerCi(s) /\ RowsCi
  BY DEF CiInv, TypeInv
<1>1. CASE StartRun(s) \/ FetchReturns(s)
  <2>1. /\ pc[s] # "applying" /\ pc'[s] \notin {"planning", "applying"}
        /\ UNCHANGED <<rows, cis, toInsert, toTransition, retiring>>
    BY <1>0, <1>1 DEF TypeOK, StartRun, FetchReturns, tableVars, planVars
  <2>2. SyncerCi(s)' /\ Present' = Present /\ Due' = Due
    BY <1>0, <2>1 DEF SyncerCi, Present, Due
  <2>3. QED
    BY <1>0, <1>1, <2>1, <2>2, CiFrameSameRows DEF TypeOK, StartRun, FetchReturns
<1>2. CASE FetchFails(s) \/ EmptyReconcileFails(s) \/ CompleteRun(s)
  <2>1. retiring[s] = {} /\ DropLocals(s) /\ UNCHANGED <<rows, cis>>
    BY <1>0, <1>2 DEF FetchFails, EmptyReconcileFails, CompleteRun, PlanDone, FailRun,
                      tableVars, SyncerCi
  <2>2. QED
    BY <2>1, DropKeepsCi DEF Present
<1>3. CASE ReconcileFails(s)
  <2>1. PICK S \in SUBSET seen[s] : cis' = Reconciled(S)
    BY <1>3 DEF ReconcileFails
  <2>2. S \in SUBSET Keys /\ retiring[s] = {} /\ DropLocals(s) /\ rows' = rows
    BY <1>0, <1>3 DEF TypeOK, ReconcileFails, FailRun, SyncerCi
  <2>3. QED
    BY <1>0, <2>1, <2>2, ReconciledKeepsCis, DropKeepsCi
<1>4. CASE ReconcileSucceeds(s)
  <2>1. seen[s] \in SUBSET Keys /\ cis' = Reconciled(seen[s])
    BY <1>0, <1>4 DEF TypeOK, ReconcileSucceeds
  <2>2. /\ pc[s] = "reconciling" /\ pc'[s] = "planning"
        /\ UNCHANGED <<rows, seen, toInsert, toTransition, retiring>>
    BY <1>0, <1>4 DEF TypeOK, ReconcileSucceeds, planVars
  <2>3. Present \cup seen[s] \subseteq Present' /\ Due \subseteq Due'
    BY <1>0, <2>1, <2>2, ReconciledKeepsCis DEF Due
  <2>4. SyncerCi(s)'
    BY <1>0, <2>2, <2>3 DEF SyncerCi
  <2>5. QED
    BY <1>0, <1>4, <2>2, <2>3, <2>4, CiFrameSameRows DEF TypeOK, ReconcileSucceeds
<1>5. CASE PlanUpdates(s)
  <2>1. /\ pc[s] = "planning" /\ pc'[s] = "applying"
        /\ toInsert'[s] = ToInsert(seen[s], rows)
        /\ toTransition'[s] = ToTransition(seen[s], rows)
        /\ UNCHANGED <<rows, cis, seen, retiring>>
    BY <1>0, <1>5 DEF TypeOK, PlanUpdates, tableVars
  <2>2. Present' = Present /\ Due' = Due
    BY <2>1 DEF Present, Due
  <2>3. ASSUME NEW t \in toTransition'[s], t.status = "retired", ~t.justRetired
        PROVE  rows[t.row].key \in Due
    <3>1. PICK r \in RowsOf(rows) : t = Transition(rows, r)
      BY <2>1, <2>3 DEF ToTransition
    <3>2. t.row = r /\ rows[r].status = "retired"
      BY <2>3, <3>1 DEF Transition
    <3>3. QED
      BY <1>0, <3>1, <3>2 DEF RowsCi
  <2>4. SyncerCi(s)'
    BY <1>0, <2>1, <2>2, <2>3 DEF SyncerCi, ToInsert
  <2>5. QED
    BY <1>0, <1>5, <2>1, <2>2, <2>4, CiFrameSameRows DEF TypeOK, PlanUpdates
<1>6. ASSUME NEW k \in Keys, NEW r \in RowIds, ApplyInsert(s, k, r)
      PROVE  CiInv'
  <2>1. /\ k \in toInsert[s] /\ rows[r] = NoRow /\ pc[s] = "applying"
        /\ rows' = [rows EXCEPT ![r] = FreshRow(k)]
        /\ toInsert'[s] \subseteq toInsert[s]
        /\ UNCHANGED <<cis, pc, seen, toTransition, retiring>>
        /\ \A q \in Syncers : q # s => toInsert'[q] = toInsert[q]
    BY <1>0, <1>6 DEF TypeOK, ApplyInsert
  <2>2. Present' = Present /\ Due' = Due
    BY <2>1 DEF Present, Due
  <2>3. /\ \A x \in RowsOf(rows) : x # r /\ rows'[x] = rows[x]
        /\ rows'[r] = FreshRow(k)
        /\ RowsOf(rows)' \subseteq RowsOf(rows) \cup {r}
    BY <1>0, <2>1 DEF TypeOK, Table, RowsOf
  <2>4. k \in Present
    BY <1>0, <2>1 DEF SyncerCi
  <2>5. RowsCi'
    BY <1>0, <2>2, <2>3, <2>4 DEF RowsCi, FreshRow
  <2>6. \A t \in toTransition[s] : rows'[t.row].key = rows[t.row].key
    BY <1>0, <2>3 DEF PlannedRowsExist
  <2>7. SyncerCi(s)'
    BY <1>0, <2>1, <2>2, <2>6 DEF SyncerCi
  <2>8. QED
    BY <2>1, <2>2, <2>3, <2>5, <2>7, CiFrame
<1>7. ASSUME NEW r \in RowIds, ApplyRefresh(s, r)
      PROVE  CiInv'
  <2>1. /\ r \in toRefresh[s]
        /\ rows' = [rows EXCEPT ![r] = FreshRow(rows[r].key)]
        /\ UNCHANGED <<cis, pc, seen, toInsert, toTransition, retiring>>
    BY <1>7 DEF ApplyRefresh
  <2>2. Present' = Present /\ Due' = Due /\ r \in RowsOf(rows)
    BY <1>0, <2>1 DEF Present, Due, PlannedRowsExist
  <2>3. /\ \A x \in RowsOf(rows) : rows'[x].key = rows[x].key
        /\ \A x \in RowsOf(rows) : rows'[x].status = "retired" => rows[x].status = "retired"
        /\ RowsOf(rows)' \subseteq RowsOf(rows)
    BY <1>0, <2>1, <2>2 DEF TypeOK, Table, RowsOf, FreshRow
  <2>4. RowsCi'
    BY <1>0, <2>2, <2>3 DEF RowsCi
  <2>5. \A t \in toTransition[s] : rows'[t.row].key = rows[t.row].key
    BY <1>0, <2>3 DEF PlannedRowsExist
  <2>6. SyncerCi(s)'
    BY <1>0, <2>1, <2>2, <2>5 DEF SyncerCi
  <2>7. QED
    BY <2>1, <2>2, <2>3, <2>4, <2>6, CiFrame
<1>8. ASSUME NEW t \in toTransition[s], ApplyTransition(s, t)
      PROVE  CiInv'
  <2> DEFINE key == rows[t.row].key
  <2>1. /\ rows' = [rows EXCEPT ![t.row] = [key |-> key, status |-> t.status, miss |-> t.miss]]
        /\ toTransition' = [toTransition EXCEPT ![s] = toTransition[s] \ {t}]
        /\ retiring' = [retiring EXCEPT ![s] = IF t.justRetired THEN {key} ELSE {}]
        /\ retiring[s] = {} /\ pc[s] = "applying"
        /\ UNCHANGED <<cis, pc, seen, toInsert>>
    BY <1>8 DEF ApplyTransition
  <2>2. t.row \in RowsOf(rows) /\ t.row \in RowIds /\ key \in Present
    BY <1>0 DEF PlannedRowsExist, RowsCi, RowsOf
  <2>3. Present' = Present /\ Due \subseteq Due' /\ (t.justRetired => key \in Due')
    BY <1>0, <2>1, <2>2 DEF TypeOK, Present, Due
  <2>4. t.status = "retired" => key \in Due'
    BY <1>0, <2>3 DEF SyncerCi
  <2>5. /\ \A x \in RowsOf(rows) : rows'[x].key = rows[x].key
        /\ \A x \in RowsOf(rows) : x # t.row => rows'[x] = rows[x]
        /\ rows'[t.row].status = t.status
        /\ RowsOf(rows)' \subseteq RowsOf(rows)
    BY <1>0, <2>1, <2>2 DEF TypeOK, Table, RowsOf
  <2>6. RowsCi'
    BY <1>0, <2>2, <2>3, <2>4, <2>5 DEF RowsCi
  <2>7. /\ toTransition'[s] \subseteq toTransition[s]
        /\ retiring'[s] = IF t.justRetired THEN {key} ELSE {}
    BY <1>0, <2>1 DEF TypeOK
  <2>8. \A u \in toTransition[s] : rows'[u.row].key = rows[u.row].key
    BY <1>0, <2>5 DEF PlannedRowsExist
  <2>9. SyncerCi(s)'
    BY <1>0, <2>1, <2>2, <2>3, <2>7, <2>8 DEF SyncerCi
  <2>10. QED
    BY <1>0, <2>1, <2>3, <2>5, <2>6, <2>9, CiFrame DEF TypeOK
<1>9. ASSUME NEW k \in Keys, RetireCi(s, k)
      PROVE  CiInv'
  <2>1. /\ retiring[s] = {k} /\ cis[k] # "absent"
        /\ cis' = [cis EXCEPT ![k] = "retired"]
        /\ retiring' = [retiring EXCEPT ![s] = {}]
        /\ UNCHANGED <<rows, pc, seen, toInsert, toTransition>>
    BY <1>0, <1>9 DEF RetireCi, SyncerCi, Present, WritesAreCarriedOut
  <2>2. Present \subseteq Present' /\ Due \subseteq Due'
    BY <1>0, <2>1 DEF TypeOK, Present, Due
  <2>3. SyncerCi(s)'
    BY <1>0, <2>1, <2>2 DEF TypeOK, SyncerCi
  <2>4. QED
    BY <1>0, <2>1, <2>2, <2>3, CiFrameSameRows DEF TypeOK
<1>10. ~ApplyThrows(s) /\ ~Crash(s)
  BY DEF ApplyThrows, Crash, WritesAreCarriedOut
<1>11. QED
  BY <1>1, <1>2, <1>3, <1>4, <1>5, <1>6, <1>7, <1>8, <1>9, <1>10 DEF Run

LEMMA NextCiInv ==
    ASSUME WritesAreCarriedOut
    PROVE  CiInv /\ [Next]_vars => CiInv'
<1> SUFFICES ASSUME CiInv, [Next]_vars PROVE CiInv'
  OBVIOUS
<1>0. TypeInv'
  BY NextTypeInv DEF CiInv
<1>1. CASE \E s \in Syncers : Run(s)
  BY <1>0, <1>1, RunKeepsCi
<1>2. CASE CloudChanges \/ UNCHANGED vars
  <2>1. UNCHANGED <<rows, cis, pc, seen, toInsert, toTransition, retiring>>
    BY <1>2, CloudChangesLeave DEF vars
  <2>2. QED
    BY <1>0, <2>1 DEF CiInv, RowsCi, SyncerCi, RowsOf, Present, Due
<1>3. QED
  BY <1>1, <1>2 DEF Next

LEMMA AlwaysCiInv ==
    ASSUME WritesAreCarriedOut
    PROVE  Spec => []CiInv
<1>1. Init => CiInv
  BY InitCiInv
<1>2. CiInv /\ [Next]_vars => CiInv'
  BY NextCiInv
<1>3. QED
  BY <1>1, <1>2, PTL DEF Spec

\* However many runs overlap and whatever they list twice: the CI of a retired
\* row is retired or about to be, as long as no write of a plan throws and no
\* node dies between the row and its CI. (With either, a row stays retired
\* whose CI is operational: nothing repeats the write.)
THEOREM RetiredRowsHaveRetiredCis ==
    ASSUME WritesAreCarriedOut
    PROVE  Spec => []RetiredRowHasRetiredCi
<1>1. CiInv => RetiredRowHasRetiredCi
  <2> SUFFICES ASSUME CiInv, NEW r \in RowsOf(rows), rows[r].status = "retired"
               PROVE  cis[rows[r].key] = "retired" \/ \E s \in Syncers : rows[r].key \in retiring[s]
    BY DEF RetiredRowHasRetiredCi
  <2>1. QED
    BY DEF CiInv, RowsCi, Due
<1>2. QED
  BY <1>1, AlwaysCiInv, PTL

=============================================================================
