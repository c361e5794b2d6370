---------------------------- MODULE SerialRunProofs ----------------------------
(***************************************************************************)
(* Theorems about runs that do not overlap: what a completed run leaves    *)
(* agrees with what it saw, and the misses that retire the one row of a    *)
(* resource are consecutive, and rows do not accumulate, whatever its      *)
(* lists repeat; and they implement LifecycleContract when lists repeat    *)
(* nothing.                                                                *)
(***************************************************************************)
EXTENDS ResourceSyncProofs

-----------------------------------------------------------------------------
(* What is true of serialized runs even when a list repeats a resource.    *)

\* A run writes what it saw, and transitions the rows of what it did not see.
PlanMatchesSeen ==
    \A s \in Syncers :
        /\ toInsert[s] \subseteq seen[s]
        /\ \A r \in toRefresh[s] : rows[r].key \in seen[s]
        /\ \A t \in toTransition[s] : rows[t.row].key \notin seen[s]

\* A row that is retired, or about to be, counts enough misses.
RetiredIsCounted ==
    /\ \A r \in RowsOf(rows) : rows[r].status = "retired" => rows[r].miss >= EffectiveThreshold
    /\ \A s \in Syncers : \A t \in toTransition[s] :
          t.status = "retired" => t.miss >= EffectiveThreshold

RunInv ==
    /\ TypeInv
    /\ PlanOnlyWhenApplying
    /\ PlanMatchesSeen
    /\ RetiredIsCounted

\* Without repeats it is a part of SerialInv.
LEMMA SerialInvIsRunInv == SerialInv => RunInv
BY DEF SerialInv, RunInv, TypeInv, MissesAreBacked, PlanIsBacked, PlanMatchesSeen,
       RetiredIsCounted

-----------------------------------------------------------------------------
(* What each of the three kinds of writes does.                            *)

LEMMA InsertEffect ==
    ASSUME RunInv, NEW s \in Syncers, NEW k \in Keys, NEW w \in RowIds, ApplyInsert(s, k, w)
    PROVE  /\ pc[s] = "applying" /\ k \in toInsert[s]
           /\ k \in seen[s] /\ w \notin RowsOf(rows)
           /\ RowsOf(rows)' = RowsOf(rows) \cup {w}
           /\ rows'[w] = FreshRow(k)
           /\ \A r \in RowsOf(rows) : rows'[r] = rows[r]
           /\ toInsert[s] \ {k} \subseteq toInsert'[s] /\ toInsert'[s] \subseteq toInsert[s]
           /\ UNCHANGED <<record, pc, seen, toRefresh, toTransition, absences>>
<1> USE DEF RunInv, TypeInv
<1>1. k \in toInsert[s] /\ rows[w] = NoRow /\ pc[s] = "applying"
  BY DEF ApplyInsert
<1>2. FreshRow(k) \in Row
  BY MissCapAssumption DEF FreshRow, Row, Status
<1>3. rows'[w] = FreshRow(k) /\ \A r \in RowIds : r # w => rows'[r] = rows[r]
  BY DEF ApplyInsert, TypeOK, Table
<1>4. FreshRow(k) # NoRow
  BY <1>2, NoRowAssumption
<1>5. RowsOf(rows)' = RowsOf(rows) \cup {w} /\ w \notin RowsOf(rows)
  BY <1>1, <1>3, <1>4 DEF RowsOf
<1>6. \A r \in RowsOf(rows) : rows'[r] = rows[r]
  BY <1>3, <1>5 DEF RowsOf
<1>7. k \in seen[s]
  BY <1>1 DEF PlanMatchesSeen
<1>8. toInsert'[s] = toInsert[s] \/ toInsert'[s] = toInsert[s] \ {k}
  BY DEF ApplyInsert, TypeOK
<1>9. UNCHANGED <<record, pc, seen, toRefresh, toTransition, absences>>
  BY DEF ApplyInsert, reportVars
<1>10. QED
  BY <1>1, <1>3, <1>5, <1>6, <1>7, <1>8, <1>9

\* Where nothing is listed twice, the row is the first of its key.
LEMMA FirstInsert ==
    ASSUME SerialInv, MayRepeat = {}, NEW s \in Syncers, NEW k \in Keys, NEW w \in RowIds,
           ApplyInsert(s, k, w)
    PROVE  k \notin KeysOf(rows) /\ toInsert' = [toInsert EXCEPT ![s] = @ \ {k}]
BY DEF SerialInv, TypeOK, PlanIsBacked, ApplyInsert

LEMMA RefreshEffect ==
    ASSUME RunInv, NEW s \in Syncers, NEW w \in RowIds, ApplyRefresh(s, w)
    PROVE  /\ pc[s] = "applying" /\ w \in RowsOf(rows) /\ rows[w].key \in seen[s]
           /\ toInsert[s] = {} /\ w \in toRefresh[s]
           /\ RowsOf(rows)' = RowsOf(rows)
           /\ rows'[w] = FreshRow(rows[w].key)
           /\ \A r \in RowsOf(rows) : r # w => rows'[r] = rows[r]
           /\ toRefresh' = [toRefresh EXCEPT ![s] = @ \ {w}]
           /\ UNCHANGED <<record, pc, seen, toInsert, toTransition, absences>>
<1> USE DEF RunInv, TypeInv
<1>1. w \in RowsOf(rows) /\ rows[w].key \in seen[s]
  BY DEF ApplyRefresh, PlannedRowsExist, PlanMatchesSeen
<1>2. TypeInv
  BY DEF TypeInv
<1>3. FreshRow(rows[w].key) \in Row /\ FreshRow(rows[w].key).key = rows[w].key
  BY <1>1, <1>2, RowFacts, MissCapAssumption DEF FreshRow, Row, Status
<1>4. /\ RowsOf(rows)' = RowsOf(rows)
      /\ \A r \in RowsOf(rows) : r # w => rows'[r] = rows[r]
      /\ rows'[w] = FreshRow(rows[w].key)
  BY <1>1, <1>2, <1>3, RewrittenRow DEF ApplyRefresh
<1>5. QED
  BY <1>1, <1>4 DEF ApplyRefresh, reportVars

LEMMA TransitionEffect ==
    ASSUME RunInv, NEW s \in Syncers, NEW t \in toTransition[s], ApplyTransition(s, t)
    PROVE  /\ pc[s] = "applying" /\ t.row \in RowsOf(rows) /\ rows[t.row].key \notin seen[s]
           /\ toInsert[s] = {} /\ toRefresh[s] = {}
           /\ RowsOf(rows)' = RowsOf(rows)
           /\ rows'[t.row] = [key |-> rows[t.row].key, status |-> t.status, miss |-> t.miss]
           /\ \A r \in RowsOf(rows) : r # t.row => rows'[r] = rows[r]
           /\ toTransition' = [toTransition EXCEPT ![s] = @ \ {t}]
           /\ UNCHANGED <<record, pc, seen, toInsert, toRefresh, absences>>
<1> USE DEF RunInv, TypeInv
<1> DEFINE row == [key |-> rows[t.row].key, status |-> t.status, miss |-> t.miss]
<1>1. t.row \in RowsOf(rows) /\ rows[t.row].key \notin seen[s]
  BY DEF PlannedRowsExist, PlanMatchesSeen
<1>2. TypeInv
  BY DEF TypeInv
<1>3. row \in Row /\ row.key = rows[t.row].key
  <2>1. t.status \in Status /\ t.miss \in 0..MissCap
    BY DEF TypeOK, Transitions
  <2>2. QED
    BY <1>1, <1>2, <2>1, RowFacts DEF Row
<1>4. rows' = [rows EXCEPT ![t.row] = row]
  BY DEF ApplyTransition
<1>5. /\ RowsOf(rows)' = RowsOf(rows)
      /\ \A r \in RowsOf(rows) : r # t.row => rows'[r] = rows[r]
      /\ rows'[t.row] = row
  <2> HIDE DEF row
  <2>1. QED
    BY <1>1, <1>2, <1>3, <1>4, RewrittenRow
<1>6. QED
  BY <1>1, <1>5 DEF ApplyTransition, reportVars, historyVars

-----------------------------------------------------------------------------
(* RunInv is inductive.                                                    *)

LEMMA QuietRun ==
    ASSUME RunInv, TypeInv', rows' = rows, seen' = seen, toInsert' = toInsert,
           toRefresh' = toRefresh, toTransition' = toTransition,
           \A q \in Syncers : pc[q] = "applying" => pc'[q] = "applying"
    PROVE  RunInv'
BY DEF RunInv, PlanOnlyWhenApplying, PlanMatchesSeen, RetiredIsCounted, RowsOf

LEMMA NoPlan ==
    ASSUME Serialized, RunInv, TypeInv', rows' = rows, NEW s \in Syncers,
           toInsert'[s] = {}, toRefresh'[s] = {}, toTransition'[s] = {}
    PROVE  RunInv'
<1>1. \A q \in Syncers : q = s
  BY DEF Serialized
<1>2. QED
  BY <1>1 DEF RunInv, PlanOnlyWhenApplying, PlanMatchesSeen, RetiredIsCounted, RowsOf

\* A plan matches what it was made from.
LEMMA PlanKeepsRunInv ==
    ASSUME Serialized, RunInv, TypeInv', NEW s \in Syncers, PlanUpdates(s)
    PROVE  RunInv'
<1> USE DEF RunInv
<1>1. /\ rows' = rows /\ seen' = seen /\ pc'[s] = "applying"
      /\ toInsert'[s] = ToInsert(seen[s], rows)
      /\ toTransition'[s] = ToTransition(seen[s], rows)
  BY DEF PlanUpdates, tableVars, TypeInv, TypeOK
<1>2. \A r \in toRefresh'[s] : rows[r].key \in seen[s]
  <2>1. PICK index \in RowIndexes(rows) : toRefresh'[s] = ToRefresh(seen[s], rows, index)
    BY DEF PlanUpdates, TypeInv, TypeOK
  <2>2. \A k \in KeysOf(rows) : rows[index[k]].key = k
    BY DEF RowIndexes, RowsFor
  <2>3. QED
    BY <2>1, <2>2 DEF ToRefresh
<1>3. ASSUME NEW t \in toTransition'[s]
      PROVE  /\ rows[t.row].key \notin seen[s]
             /\ t.status = "retired" => t.miss >= EffectiveThreshold
  <2>1. PICK r \in RowsOf(rows) : rows[r].key \notin seen[s] /\ t = Transition(rows, r)
    BY <1>1 DEF ToTransition
  <2>2. /\ t.row = r
        /\ t.status = AfterMiss(rows[r]).status
        /\ t.miss = AfterMiss(rows[r]).miss
    BY <2>1 DEF Transition, ComputeNextState
  <2>3. rows[r].status = "retired" => rows[r].miss >= EffectiveThreshold
    BY DEF RetiredIsCounted
  <2>4. AfterMiss(rows[r]).status = "retired" => AfterMiss(rows[r]).miss >= EffectiveThreshold
    BY <2>3, RowFacts, AfterMissFacts
  <2>5. QED
    BY <2>1, <2>2, <2>4
<1>4. \A q \in Syncers : q = s
  BY DEF Serialized
<1>5. PlanMatchesSeen'
  BY <1>1, <1>2, <1>3, <1>4 DEF PlanMatchesSeen, ToInsert
<1>6. RetiredIsCounted'
  BY <1>1, <1>3, <1>4 DEF RetiredIsCounted, RowsOf
<1>7. QED
  BY <1>1, <1>4, <1>5, <1>6 DEF PlanOnlyWhenApplying

LEMMA WritesKeepRunInv ==
    ASSUME Serialized, RunInv, TypeInv', NEW s \in Syncers,
           \/ \E k \in Keys, w \in RowIds : ApplyInsert(s, k, w)
           \/ \E w \in RowIds : ApplyRefresh(s, w)
           \/ \E t \in toTransition[s] : ApplyTransition(s, t)
    PROVE  RunInv'
<1>0. \A q \in Syncers : q = s
  BY DEF Serialized
<1>1. ASSUME NEW k \in Keys, NEW w \in RowIds, ApplyInsert(s, k, w)
      PROVE  RunInv'
  <2>1. /\ pc[s] = "applying"
        /\ RowsOf(rows)' = RowsOf(rows) \cup {w}
        /\ rows'[w] = FreshRow(k)
        /\ \A r \in RowsOf(rows) : rows'[r] = rows[r]
        /\ toInsert'[s] \subseteq toInsert[s]
        /\ UNCHANGED <<pc, seen, toRefresh, toTransition>>
    BY <1>1, InsertEffect
  <2>2. PlanMatchesSeen'
    BY <1>0, <2>1 DEF RunInv, TypeInv, PlannedRowsExist, PlanMatchesSeen
  <2>3. RetiredIsCounted'
    BY <2>1 DEF RunInv, RetiredIsCounted, FreshRow
  <2>4. QED
    BY <1>0, <2>1, <2>2, <2>3 DEF RunInv, PlanOnlyWhenApplying
<1>2. ASSUME NEW w \in RowIds, ApplyRefresh(s, w)
      PROVE  RunInv'
  <2>1. /\ pc[s] = "applying" /\ w \in RowsOf(rows)
        /\ RowsOf(rows)' = RowsOf(rows)
        /\ rows'[w] = FreshRow(rows[w].key)
        /\ \A r \in RowsOf(rows) : r # w => rows'[r] = rows[r]
        /\ toRefresh' = [toRefresh EXCEPT ![s] = @ \ {w}]
        /\ UNCHANGED <<pc, seen, toInsert, toTransition>>
    BY <1>2, RefreshEffect
  <2>2. toRefresh'[s] \subseteq toRefresh[s]
    BY <2>1 DEF RunInv, TypeInv, TypeOK
  <2>3. \A r \in RowsOf(rows) : rows'[r].key = rows[r].key
    BY <2>1 DEF FreshRow
  <2>4. PlanMatchesSeen'
    BY <1>0, <2>1, <2>2, <2>3 DEF RunInv, TypeInv, PlannedRowsExist, PlanMatchesSeen
  <2>5. RetiredIsCounted'
    BY <2>1 DEF RunInv, RetiredIsCounted, FreshRow
  <2>6. QED
    BY <1>0, <2>1, <2>4, <2>5 DEF RunInv, PlanOnlyWhenApplying
<1>3. ASSUME NEW t \in toTransition[s], ApplyTransition(s, t)
      PROVE  RunInv'
  <2>1. /\ pc[s] = "applying" /\ t.row \in RowsOf(rows)
        /\ RowsOf(rows)' = RowsOf(rows)
        /\ rows'[t.row] = [key |-> rows[t.row].key, status |-> t.status, miss |-> t.miss]
        /\ \A r \in RowsOf(rows) : r # t.row => rows'[r] = rows[r]
        /\ toTransition' = [toTransition EXCEPT ![s] = @ \ {t}]
        /\ UNCHANGED <<pc, seen, toInsert, toRefresh>>
    BY <1>3, TransitionEffect
  <2>2. toTransition'[s] \subseteq toTransition[s]
    BY <2>1 DEF RunInv, TypeInv, TypeOK
  <2>3. \A r \in RowsOf(rows) : rows'[r].key = rows[r].key
    BY <2>1
  <2>4. PlanMatchesSeen'
    BY <1>0, <2>1, <2>2, <2>3 DEF RunInv, TypeInv, PlannedRowsExist, PlanMatchesSeen
  <2>5. RetiredIsCounted'
    <3>1. /\ rows'[t.row].status = t.status /\ rows'[t.row].miss = t.miss
          /\ t.status = "retired" => t.miss >= EffectiveThreshold
      BY <2>1 DEF RunInv, RetiredIsCounted
    <3>2. QED
      BY <1>0, <2>1, <2>2, <3>1 DEF RunInv, RetiredIsCounted
  <2>6. QED
    BY <1>0, <2>1, <2>4, <2>5 DEF RunInv, PlanOnlyWhenApplying
<1>4. QED
  BY <1>1, <1>2, <1>3

LEMMA NextRunInv ==
    ASSUME Serialized
    PROVE  RunInv /\ [Next]_vars => RunInv'
<1> SUFFICES ASSUME RunInv, [Next]_vars PROVE RunInv'
  OBVIOUS
<1>0. TypeInv'
  BY NextTypeInv DEF RunInv
<1>1. CASE UNCHANGED vars
  BY <1>0, <1>1, QuietRun DEF vars
<1>2. CASE CloudChanges
  BY <1>0, <1>2, CloudChangesLeave, QuietRun
<1>3. ASSUME NEW s \in Syncers, Run(s)
      PROVE  RunInv'
  <2>1. CASE StartRun(s) \/ FetchReturns(s) \/ ReconcileSucceeds(s)
    <3>1. /\ rows' = rows /\ pc[s] # "applying"
          /\ toInsert' = toInsert /\ toRefresh' = toRefresh /\ toTransition' = toTransition
      BY <2>1 DEF StartRun, FetchReturns, ReconcileSucceeds, tableVars, planVars
    <3>2. toInsert[s] = {} /\ toRefresh[s] = {} /\ toTransition[s] = {}
      BY <3>1 DEF RunInv, PlanOnlyWhenApplying
    <3>3. QED
      BY <1>0, <3>1, <3>2, NoPlan
  <2>2. CASE FetchFails(s) \/ ReconcileFails(s) \/ EmptyReconcileFails(s)
             \/ ApplyThrows(s) \/ CompleteRun(s) \/ Crash(s)
    <3>1. DropLocals(s) /\ rows' = rows
      BY <2>2 DEF FetchFails, ReconcileFails, EmptyReconcileFails, ApplyThrows, CompleteRun,
                  Crash, FailRun, tableVars
    <3>2. toInsert'[s] = {} /\ toRefresh'[s] = {} /\ toTransition'[s] = {}
      BY <3>1 DEF DropLocals, RunInv, TypeInv, TypeOK
    <3>3. QED
      BY <1>0, <3>1, <3>2, NoPlan
  <2>3. CASE PlanUpdates(s)
    BY <1>0, <2>3, PlanKeepsRunInv
  <2>4. CASE \/ \E k \in Keys, w \in RowIds : ApplyInsert(s, k, w)
             \/ \E w \in RowIds : ApplyRefresh(s, w)
             \/ \E t \in toTransition[s] : ApplyTransition(s, t)
    BY <1>0, <2>4, WritesKeepRunInv
  <2>5. CASE \E k \in Keys : RetireCi(s, k)
    BY <1>0, <2>5, QuietRun DEF RetireCi
  <2>6. QED
    BY <1>3, <2>1, <2>2, <2>3, <2>4, <2>5 DEF Run
<1>4. QED
  BY <1>1, <1>2, <1>3 DEF Next

LEMMA AlwaysRunInv ==
    ASSUME Serialized
    PROVE  Spec => []RunInv
<1>1. Init => RunInv
  <2>1. Init => TypeInv
    BY InitTypeInv
  <2>2. Init => RowsOf(rows) = {}
    BY DEF Init, RowsOf
  <2>3. QED
    BY <2>1, <2>2 DEF Init, RunInv, PlanOnlyWhenApplying, PlanMatchesSeen, RetiredIsCounted
<1>2. RunInv /\ [Next]_vars => RunInv'
  BY NextRunInv
<1>3. QED
  BY <1>1, <1>2, PTL DEF Spec

-----------------------------------------------------------------------------
(* The rows do not change behind a plan's back.                            *)

\* Every planned transition is the one the rule gives for the row as it is.
PlanIsCurrent == \A s \in Syncers : \A t \in toTransition[s] : t = Transition(rows, t.row)

LEMMA TransitionRow == \A t : \A r : Transition(t, r).row = r
BY DEF Transition

LEMMA NextPlanIsCurrent ==
    ASSUME Serialized
    PROVE  RunInv /\ PlanIsCurrent /\ [Next]_vars => PlanIsCurrent'
<1> SUFFICES ASSUME RunInv, PlanIsCurrent, [Next]_vars PROVE PlanIsCurrent'
  OBVIOUS
<1> USE DEF RunInv, TypeInv
<1>1. CASE rows' = rows /\ \A s \in Syncers : toTransition'[s] \subseteq toTransition[s]
  BY <1>1 DEF PlanIsCurrent, Transition
<1>2. ASSUME NEW s \in Syncers, Run(s)
      PROVE  PlanIsCurrent'
  <2>0. \A q \in Syncers : q = s
    BY DEF Serialized
  <2>1. CASE PlanUpdates(s)
    <3>1. rows' = rows /\ toTransition'[s] = ToTransition(seen[s], rows)
      BY <2>1 DEF PlanUpdates, tableVars, TypeOK
    <3>2. \A t \in toTransition'[s] : t = Transition(rows, t.row)
      BY <3>1, TransitionRow DEF ToTransition
    <3>3. QED
      BY <2>0, <3>1, <3>2 DEF PlanIsCurrent, Transition
  <2>2. ASSUME NEW k \in Keys, NEW w \in RowIds, ApplyInsert(s, k, w)
        PROVE  PlanIsCurrent'
    <3>1. toTransition' = toTransition /\ \A r \in RowsOf(rows) : rows'[r] = rows[r]
      BY <2>2, InsertEffect
    <3>2. QED
      BY <3>1 DEF PlanIsCurrent, PlannedRowsExist, Transition
  <2>3. ASSUME NEW w \in RowIds, ApplyRefresh(s, w)
        PROVE  PlanIsCurrent'
    <3>1. /\ toTransition' = toTransition /\ rows[w].key \in seen[s]
          /\ \A r \in RowsOf(rows) : r # w => rows'[r] = rows[r]
      BY <2>3, RefreshEffect
    <3>2. \A t \in toTransition[s] : t.row \in RowsOf(rows) /\ t.row # w
      BY <3>1 DEF PlannedRowsExist, PlanMatchesSeen
    <3>3. QED
      BY <2>0, <3>1, <3>2 DEF PlanIsCurrent, Transition
  <2>4. ASSUME NEW t \in toTransition[s], ApplyTransition(s, t)
        PROVE  PlanIsCurrent'
    <3>0. /\ toTransition' = [toTransition EXCEPT ![s] = @ \ {t}]
          /\ \A r \in RowsOf(rows) : r # t.row => rows'[r] = rows[r]
      BY <2>4, TransitionEffect
    <3>1. toTransition'[s] = toTransition[s] \ {t}
      BY <3>0 DEF TypeOK
    <3>2. \A u \in toTransition'[s] : u.row \in RowsOf(rows) /\ u.row # t.row
      BY <3>1 DEF PlannedRowsExist, PlanIsCurrent
    <3>3. ASSUME NEW u \in toTransition'[s] PROVE u = Transition(rows', u.row)
      <4>1. rows'[u.row] = rows[u.row] /\ u = Transition(rows, u.row)
        BY <3>0, <3>1, <3>2 DEF PlanIsCurrent
      <4>2. QED
        BY <4>1 DEF Transition
    <3>4. QED
      BY <2>0, <3>3 DEF PlanIsCurrent
  <2>5. CASE \/ FetchFails(s) \/ ReconcileFails(s) \/ EmptyReconcileFails(s)
             \/ ApplyThrows(s) \/ CompleteRun(s) \/ Crash(s)
    <3>1. rows' = rows /\ toTransition'[s] = {}
      BY <2>5 DEF FetchFails, ReconcileFails, EmptyReconcileFails, ApplyThrows, CompleteRun,
                  Crash, FailRun, DropLocals, tableVars, TypeOK
    <3>2. QED
      BY <1>1, <2>0, <3>1
  <2>6. CASE StartRun(s) \/ FetchReturns(s) \/ ReconcileSucceeds(s) \/ \E k \in Keys : RetireCi(s, k)
    <3>1. rows' = rows /\ toTransition' = toTransition
      BY <2>6 DEF StartRun, FetchReturns, ReconcileSucceeds, RetireCi, tableVars, planVars
    <3>2. QED
      BY <1>1, <3>1
  <2>7. QED
    BY <1>2, <2>1, <2>2, <2>3, <2>4, <2>5, <2>6 DEF Run
<1>3. CASE UNCHANGED vars
  BY <1>1, <1>3 DEF vars
<1>4. CASE CloudChanges
  BY <1>1, <1>4, CloudChangesLeave
<1>5. QED
  BY <1>2, <1>3, <1>4 DEF Next

-----------------------------------------------------------------------------
(* The state of the contract, as ResourceSync implements it.               *)

Records == [k \in Keys |-> RecordOf(k)]
Owed == UNION {Unsettled(s) : s \in Syncers}

RecordIn(t, k) ==
    IF RowsFor(t, k) = {} THEN NoRow
    ELSE LET row == t[CHOOSE r \in RowsFor(t, k) : TRUE]
         IN  [status |-> row.status, miss |-> row.miss]

LEMMA RecordsIn == /\ Records = [k \in Keys |-> RecordIn(rows, k)]
                   /\ Records' = [k \in Keys |-> RecordIn(rows', k)]
BY DEF Records, RecordOf, RecordIn

\* With one row per key that row is the record.
LEMMA OnlyRow ==
    ASSUME NEW t, NEW r \in RowsOf(t),
           \A p, q \in RowsOf(t) : t[p].key = t[q].key => p = q
    PROVE  /\ RowsFor(t, t[r].key) = {r}
           /\ RecordIn(t, t[r].key) = [status |-> t[r].status, miss |-> t[r].miss]
<1>1. RowsFor(t, t[r].key) = {r}
  BY DEF RowsFor
<1>2. (CHOOSE q \in {r} : TRUE) = r
  OBVIOUS
<1>3. QED
  BY <1>1, <1>2 DEF RecordIn

\* One syncer's observation and what it still owes are all there is.
LEMMA OneObserver ==
    ASSUME Serialized, NEW s \in Syncers
    PROVE  /\ Observed = IF pc[s] \in {"planning", "applying"} THEN seen[s] ELSE {}
           /\ Observed' = IF pc'[s] \in {"planning", "applying"} THEN seen'[s] ELSE {}
           /\ Owed = Unsettled(s)
           /\ Owed' = Unsettled(s)'
<1>1. \A q \in Syncers : q = s
  BY DEF Serialized
<1>2. Syncers = {s}
  BY <1>1
<1>3. Owed = Unsettled(s) /\ Owed' = Unsettled(s)'
  BY <1>2 DEF Owed
<1>4. QED
  BY <1>2, <1>3 DEF Observed

\* What a run owes while it applies its plan.
OwedWhenApplying(s) ==
    toInsert[s] \cup {rows[r].key : r \in toRefresh[s]} \cup {rows[t.row].key : t \in toTransition[s]}

LEMMA Unsettling ==
    ASSUME NEW s \in Syncers
    PROVE  /\ pc[s] = "planning" => Unsettled(s) = Keys
           /\ pc[s] = "applying" => Unsettled(s) = OwedWhenApplying(s)
           /\ pc[s] \notin {"planning", "applying"} => Unsettled(s) = {}
           /\ pc'[s] = "planning" => Unsettled(s)' = Keys
           /\ pc'[s] = "applying" => Unsettled(s)' = OwedWhenApplying(s)'
           /\ pc'[s] \notin {"planning", "applying"} => Unsettled(s)' = {}
BY DEF Unsettled, OwedWhenApplying

\* The contract's actions and variables, by the names used here.
LEMMA ContractActions ==
    /\ Contract!Init <=> Records = [k \in Keys |-> NoRow] /\ Observed = {} /\ Owed = {}
    /\ \A S : Contract!Observe(S) <=> Observed' = S /\ Owed' = Keys /\ Records' = Records
    /\ \A k : Contract!Confirm(k) <=>
          /\ k \in Owed \cap Observed
          /\ Records' = [Records EXCEPT ![k] = FreshLifecycle]
          /\ Owed' = Owed \ {k} /\ Observed' = Observed
    /\ \A k : Contract!Age(k) <=>
          /\ k \in Owed \ Observed /\ Records[k] # NoRow
          /\ Records' = [Records EXCEPT ![k] = ComputeNextState(@, FALSE)]
          /\ Owed' = Owed \ {k} /\ Observed' = Observed
    /\ \A D : Contract!Dismiss(D) <=>
          /\ D = {k \in Owed \ Observed : Records[k] = NoRow}
          /\ Owed' = Owed \ D /\ Records' = Records /\ Observed' = Observed
    /\ Contract!Close <=> Observed' = {} /\ Owed' = {} /\ Records' = Records
    /\ Records' = Records /\ Observed' = Observed /\ Owed' = Owed <=> UNCHANGED Contract!vars
<1> USE DEF Records, Owed
<1>1. Contract!Init <=> Records = [k \in Keys |-> NoRow] /\ Observed = {} /\ Owed = {}
  BY DEF Contract!Init
<1>2. \A S : Contract!Observe(S) <=> Observed' = S /\ Owed' = Keys /\ Records' = Records
  BY DEF Contract!Observe
<1>3. \A k : Contract!Confirm(k) <=>
          /\ k \in Owed \cap Observed
          /\ Records' = [Records EXCEPT ![k] = FreshLifecycle]
          /\ Owed' = Owed \ {k} /\ Observed' = Observed
  BY DEF Contract!Confirm, Contract!FreshLifecycle, FreshLifecycle
<1>4. \A k : Contract!Age(k) <=>
          /\ k \in Owed \ Observed /\ Records[k] # NoRow
          /\ Records' = [Records EXCEPT ![k] = ComputeNextState(@, FALSE)]
          /\ Owed' = Owed \ {k} /\ Observed' = Observed
  BY DEF Contract!Age, Contract!ComputeNextState, ComputeNextState, Contract!AfterMiss, AfterMiss,
         Contract!Saturate, Saturate, Contract!EffectiveThreshold, EffectiveThreshold
<1>5. \A D : Contract!Dismiss(D) <=>
          /\ D = {k \in Owed \ Observed : Records[k] = NoRow}
          /\ Owed' = Owed \ D /\ Records' = Records /\ Observed' = Observed
  BY DEF Contract!Dismiss
<1>6. Contract!Close <=> Observed' = {} /\ Owed' = {} /\ Records' = Records
  BY DEF Contract!Close
<1>7. Records' = Records /\ Observed' = Observed /\ Owed' = Owed <=> UNCHANGED Contract!vars
  BY DEF Contract!vars
<1>8. QED
  BY <1>1, <1>2, <1>3, <1>4, <1>5, <1>6, <1>7

\* A run that ends, however it ends, closes its observation.
LEMMA EndCloses ==
    ASSUME Serialized, SerialInv, NEW s \in Syncers, DropLocals(s), rows' = rows
    PROVE  Contract!Close
<1>1. pc'[s] = "idle"
  BY DEF DropLocals, SerialInv, TypeOK
<1>2. Observed' = {} /\ Owed' = {}
  BY <1>1, OneObserver, Unsettling
<1>3. Records' = Records
  BY RecordsIn
<1>4. QED
  BY <1>2, <1>3, ContractActions

\* A reconciliation without errors is the observation.
LEMMA ReconciliationObserves ==
    ASSUME Serialized, SerialInv, NEW s \in Syncers, ReconcileSucceeds(s)
    PROVE  \E S \in SUBSET Keys : Contract!Observe(S)
<1>1. rows' = rows /\ pc'[s] = "planning" /\ seen' = seen /\ seen[s] \in SUBSET Keys
  BY DEF ReconcileSucceeds, SerialInv, TypeOK
<1>2. Observed' = seen[s] /\ Owed' = Keys /\ Records' = Records
  BY <1>1, OneObserver, Unsettling, RecordsIn
<1>3. QED
  BY <1>1, <1>2, ContractActions

\* The plan leaves out nothing but the resources that were not seen and have
\* no row.
LEMMA PlanDismisses ==
    ASSUME Serialized, SerialInv, NEW s \in Syncers, PlanUpdates(s)
    PROVE  \E D \in SUBSET Keys : Contract!Dismiss(D)
<1> USE DEF SerialInv
<1>1. /\ rows' = rows /\ seen' = seen /\ pc[s] = "planning" /\ pc'[s] = "applying"
      /\ toInsert'[s] = ToInsert(seen[s], rows)
      /\ toTransition'[s] = ToTransition(seen[s], rows)
  BY DEF PlanUpdates, tableVars, TypeOK
<1>2. PICK index \in RowIndexes(rows) : toRefresh'[s] = ToRefresh(seen[s], rows, index)
  BY DEF PlanUpdates, TypeOK
<1>3. {rows[r].key : r \in toRefresh'[s]} = seen[s] \cap KeysOf(rows)
  <2>1. \A k \in KeysOf(rows) : rows[index[k]].key = k
    BY DEF RowIndexes, RowsFor
  <2>2. QED
    BY <1>2, <2>1 DEF ToRefresh
<1>4. {rows[t.row].key : t \in toTransition'[s]} = KeysOf(rows) \ seen[s]
  <2>1. {rows[t.row].key : t \in toTransition'[s]} \subseteq KeysOf(rows) \ seen[s]
    BY <1>1, TransitionRow DEF ToTransition, KeysOf
  <2>2. ASSUME NEW k \in KeysOf(rows) \ seen[s]
        PROVE  k \in {rows[t.row].key : t \in toTransition'[s]}
    <3>1. PICK r \in RowsOf(rows) : rows[r].key = k
      BY DEF KeysOf
    <3>2. Transition(rows, r) \in toTransition'[s] /\ Transition(rows, r).row = r
      BY <1>1, <2>2, <3>1, TransitionRow DEF ToTransition
    <3>3. QED
      BY <3>1, <3>2
  <2>3. QED
    BY <2>1, <2>2
<1>5. KeysOf(rows) \subseteq Keys /\ seen[s] \subseteq Keys
  <2>1. TypeInv
    BY DEF TypeInv
  <2>2. QED
    BY <2>1, RowFacts DEF KeysOf, TypeOK
<1>6. Owed = Keys /\ Owed' = seen[s] \cup KeysOf(rows)
  <2>1. OwedWhenApplying(s)' = seen[s] \cup KeysOf(rows)
    BY <1>1, <1>3, <1>4 DEF OwedWhenApplying, ToInsert
  <2>2. QED
    BY <1>1, <2>1, OneObserver, Unsettling
<1>7. Observed = seen[s] /\ Observed' = seen[s] /\ Records' = Records
  BY <1>1, OneObserver, RecordsIn
<1>8. \A k \in Keys : Records[k] = NoRow <=> k \notin KeysOf(rows)
  <2> TAKE k \in Keys
  <2>1. k \notin KeysOf(rows) <=> RowsFor(rows, k) = {}
    BY DEF KeysOf, RowsFor
  <2>2. CASE RowsFor(rows, k) = {}
    BY <2>1, <2>2, RecordsIn DEF RecordIn
  <2>3. CASE RowsFor(rows, k) # {}
    <3>1. PICK r \in RowsOf(rows) : rows[r].key = k
      BY <2>3 DEF RowsFor
    <3>2. RecordIn(rows, k) = [status |-> rows[r].status, miss |-> rows[r].miss]
      BY <3>1, OnlyRow DEF OneRowPerKey
    <3>3. [status |-> rows[r].status, miss |-> rows[r].miss] \in Lifecycle
      BY RowFacts DEF TypeInv, Lifecycle
    <3>4. QED
      BY <2>1, <2>3, <3>2, <3>3, RecordsIn, NoRowAssumption
  <2>4. QED
    BY <2>2, <2>3
<1>9. Keys \ (seen[s] \cup KeysOf(rows)) = {k \in Owed \ Observed : Records[k] = NoRow}
  BY <1>6, <1>7, <1>8
<1>10. Owed' = Owed \ (Keys \ (seen[s] \cup KeysOf(rows)))
  BY <1>5, <1>6
<1>11. Contract!Dismiss(Keys \ (seen[s] \cup KeysOf(rows)))
  BY <1>7, <1>9, <1>10, ContractActions
<1>12. QED
  BY <1>11

-----------------------------------------------------------------------------
(* Each write is the one change of the contract for its resource.          *)

\* Writing one row changes the record of its key and of no other.
LEMMA OneRecordChanges ==
    ASSUME NEW k \in Keys, NEW w \in RowIds,
           OneRowPerKey',
           RowsOf(rows)' = RowsOf(rows) \cup {w}, rows'[w].key = k,
           w \in RowsOf(rows) => rows[w].key = k,
           \A r \in RowsOf(rows) : r # w => rows'[r] = rows[r]
    PROVE  Records' = [Records EXCEPT ![k] = [status |-> rows'[w].status, miss |-> rows'[w].miss]]
<1>1. ASSUME NEW j \in Keys, j # k
      PROVE  RecordIn(rows', j) = RecordIn(rows, j)
  <2>1. RowsFor(rows', j) = RowsFor(rows, j)
    BY <1>1 DEF RowsFor
  <2>2. \A r \in RowsFor(rows, j) : rows'[r] = rows[r]
    BY <1>1 DEF RowsFor
  <2>3. RowsFor(rows, j) # {} => (CHOOSE r \in RowsFor(rows, j) : TRUE) \in RowsFor(rows, j)
    OBVIOUS
  <2>4. QED
    BY <2>1, <2>2, <2>3 DEF RecordIn
<1>2. RecordIn(rows', k) = [status |-> rows'[w].status, miss |-> rows'[w].miss]
  <2>1. \A p, q \in RowsOf(rows') : rows'[p].key = rows'[q].key => p = q
    BY DEF OneRowPerKey
  <2>2. w \in RowsOf(rows')
    OBVIOUS
  <2>3. QED
    BY <2>1, <2>2, OnlyRow
<1>3. QED
  BY <1>1, <1>2, RecordsIn

\* An insert confirms a resource that had no record.
LEMMA InsertConfirms ==
    ASSUME Serialized, MayRepeat = {}, SerialInv, SerialInv', NEW s \in Syncers,
           NEW k \in Keys, NEW w \in RowIds, ApplyInsert(s, k, w)
    PROVE  Contract!Confirm(k)
<1>1. /\ pc[s] = "applying" /\ k \in toInsert[s]
      /\ k \in seen[s] /\ k \notin KeysOf(rows) /\ w \notin RowsOf(rows)
      /\ RowsOf(rows)' = RowsOf(rows) \cup {w}
      /\ rows'[w] = FreshRow(k)
      /\ \A r \in RowsOf(rows) : rows'[r] = rows[r]
      /\ toInsert' = [toInsert EXCEPT ![s] = @ \ {k}]
      /\ UNCHANGED <<record, pc, seen, toRefresh, toTransition, absences>>
  BY SerialInvIsRunInv, InsertEffect, FirstInsert
<1>2. Records' = [Records EXCEPT ![k] = FreshLifecycle]
  <2>1. rows'[w].key = k /\ [status |-> rows'[w].status, miss |-> rows'[w].miss] = FreshLifecycle
    BY <1>1 DEF FreshRow, FreshLifecycle
  <2>2. QED
    BY <1>1, <2>1, OneRecordChanges DEF SerialInv
<1>3. Owed = OwedWhenApplying(s) /\ Owed' = OwedWhenApplying(s)'
  BY <1>1, OneObserver, Unsettling
<1>4. toInsert'[s] = toInsert[s] \ {k}
  BY <1>1 DEF SerialInv, TypeOK
<1>5. k \notin {rows[r].key : r \in toRefresh[s]} \cup {rows[t.row].key : t \in toTransition[s]}
  BY <1>1 DEF SerialInv, PlannedRowsExist, KeysOf
<1>6. /\ {rows'[r].key : r \in toRefresh'[s]} = {rows[r].key : r \in toRefresh[s]}
      /\ {rows'[t.row].key : t \in toTransition'[s]} = {rows[t.row].key : t \in toTransition[s]}
  BY <1>1 DEF SerialInv, PlannedRowsExist
<1>7. k \in Owed /\ Owed' = Owed \ {k}
  BY <1>1, <1>3, <1>4, <1>5, <1>6 DEF OwedWhenApplying
<1>8. k \in Observed /\ Observed' = Observed
  BY <1>1, OneObserver
<1>9. QED
  BY <1>2, <1>7, <1>8, ContractActions

\* A refresh confirms the resource of its row.
LEMMA RefreshConfirms ==
    ASSUME Serialized, SerialInv, SerialInv', NEW s \in Syncers,
           NEW w \in RowIds, ApplyRefresh(s, w)
    PROVE  \E k \in Keys : Contract!Confirm(k)
<1> DEFINE k == rows[w].key
<1>1. /\ pc[s] = "applying" /\ w \in RowsOf(rows) /\ k \in seen[s]
      /\ toInsert[s] = {} /\ w \in toRefresh[s]
      /\ RowsOf(rows)' = RowsOf(rows)
      /\ rows'[w] = FreshRow(k)
      /\ \A r \in RowsOf(rows) : r # w => rows'[r] = rows[r]
      /\ toRefresh' = [toRefresh EXCEPT ![s] = @ \ {w}]
      /\ UNCHANGED <<record, pc, seen, toInsert, toTransition, absences>>
  BY SerialInvIsRunInv, RefreshEffect
<1>2. k \in Keys
  BY <1>1, RowFacts DEF SerialInv, TypeInv
<1> HIDE DEF k
<1>3. Records' = [Records EXCEPT ![k] = FreshLifecycle]
  <2>1. rows'[w].key = k /\ [status |-> rows'[w].status, miss |-> rows'[w].miss] = FreshLifecycle
    BY <1>1 DEF FreshRow, FreshLifecycle
  <2>2. RowsOf(rows)' = RowsOf(rows) \cup {w}
    BY <1>1
  <2>3. QED
    BY <1>1, <1>2, <2>1, <2>2, OneRecordChanges DEF SerialInv, k
<1>4. Owed = OwedWhenApplying(s) /\ Owed' = OwedWhenApplying(s)'
  BY <1>1, OneObserver, Unsettling
<1>5. toRefresh'[s] = toRefresh[s] \ {w} /\ toInsert'[s] = {}
  BY <1>1 DEF SerialInv, TypeOK
<1>6. \A r \in toRefresh'[s] : r \in RowsOf(rows) /\ rows'[r] = rows[r] /\ rows[r].key # k
  BY <1>1, <1>5 DEF SerialInv, PlannedRowsExist, OneRowPerKey, k
<1>7. \A t \in toTransition[s] : rows'[t.row] = rows[t.row] /\ rows[t.row].key # k
  BY <1>1 DEF SerialInv, PlannedRowsExist, PlanIsBacked, k
<1>8. {rows'[r].key : r \in toRefresh'[s]} = {rows[r].key : r \in toRefresh[s]} \ {k}
  BY <1>1, <1>5, <1>6 DEF k
<1>9. {rows'[t.row].key : t \in toTransition'[s]} = {rows[t.row].key : t \in toTransition[s]}
  BY <1>1, <1>7
<1>10. k \in Owed
  BY <1>1, <1>4 DEF OwedWhenApplying, k
<1>11. k \notin {rows[t.row].key : t \in toTransition[s]}
  BY <1>7
<1>12. Owed' = Owed \ {k}
  BY <1>1, <1>4, <1>5, <1>8, <1>9, <1>11 DEF OwedWhenApplying
<1>13. k \in Observed /\ Observed' = Observed
  BY <1>1, OneObserver DEF k
<1>14. QED
  BY <1>2, <1>3, <1>10, <1>12, <1>13, ContractActions

\* A transition ages the record of its row.
LEMMA TransitionAges ==
    ASSUME Serialized, SerialInv, SerialInv', PlanIsCurrent, NEW s \in Syncers,
           NEW t \in toTransition[s], ApplyTransition(s, t)
    PROVE  \E k \in Keys : Contract!Age(k)
<1> DEFINE k == rows[t.row].key
<1>1. /\ pc[s] = "applying" /\ t.row \in RowsOf(rows) /\ k \notin seen[s]
      /\ toInsert[s] = {} /\ toRefresh[s] = {}
      /\ RowsOf(rows)' = RowsOf(rows)
      /\ rows'[t.row] = [key |-> k, status |-> t.status, miss |-> t.miss]
      /\ \A r \in RowsOf(rows) : r # t.row => rows'[r] = rows[r]
      /\ toTransition' = [toTransition EXCEPT ![s] = @ \ {t}]
      /\ UNCHANGED <<record, pc, seen, toInsert, toRefresh, absences>>
  BY SerialInvIsRunInv, TransitionEffect
<1>2. t.row \in RowIds /\ k \in Keys
  BY <1>1, RowFacts DEF SerialInv, TypeInv
<1> HIDE DEF k
<1>3. Records[k] = [status |-> rows[t.row].status, miss |-> rows[t.row].miss]
  <2>1. \A p, q \in RowsOf(rows) : rows[p].key = rows[q].key => p = q
    BY DEF SerialInv, OneRowPerKey
  <2>2. RecordIn(rows, rows[t.row].key) = [status |-> rows[t.row].status, miss |-> rows[t.row].miss]
    BY <1>1, <2>1, OnlyRow
  <2>3. QED
    BY <1>2, <2>2, RecordsIn DEF k
<1>4. Records[k] # NoRow
  <2>1. [status |-> rows[t.row].status, miss |-> rows[t.row].miss] \in Lifecycle
    BY <1>1, RowFacts DEF SerialInv, TypeInv, Lifecycle
  <2>2. QED
    BY <1>3, <2>1, NoRowAssumption
<1>5. [status |-> t.status, miss |-> t.miss] = ComputeNextState(Records[k], FALSE)
  <2>1. t = Transition(rows, t.row)
    BY DEF PlanIsCurrent
  <2>2. t.status = AfterMiss(rows[t.row]).status /\ t.miss = AfterMiss(rows[t.row]).miss
    BY <2>1 DEF Transition, ComputeNextState
  <2>3. AfterMiss(Records[k]) = AfterMiss(rows[t.row])
    BY <1>3 DEF AfterMiss
  <2>4. AfterMiss(rows[t.row]) =
          [status |-> AfterMiss(rows[t.row]).status, miss |-> AfterMiss(rows[t.row]).miss]
    BY DEF AfterMiss
  <2>5. QED
    BY <2>2, <2>3, <2>4 DEF ComputeNextState
<1>6. Records' = [Records EXCEPT ![k] = ComputeNextState(@, FALSE)]
  <2>1. rows'[t.row].key = k /\ rows'[t.row].status = t.status /\ rows'[t.row].miss = t.miss
    BY <1>1
  <2>2. RowsOf(rows)' = RowsOf(rows) \cup {t.row}
    BY <1>1
  <2>3. Records' = [Records EXCEPT ![k] = [status |-> t.status, miss |-> t.miss]]
    BY <1>1, <1>2, <2>1, <2>2, OneRecordChanges DEF SerialInv, k
  <2>4. QED
    BY <1>5, <2>3
<1>7. Owed = OwedWhenApplying(s) /\ Owed' = OwedWhenApplying(s)'
  BY <1>1, OneObserver, Unsettling
<1>8. toTransition'[s] = toTransition[s] \ {t} /\ toInsert'[s] = {} /\ toRefresh'[s] = {}
  BY <1>1 DEF SerialInv, TypeOK
<1>9. \A u \in toTransition'[s] : rows'[u.row] = rows[u.row] /\ rows[u.row].key # k
  <2> SUFFICES ASSUME NEW u \in toTransition'[s]
               PROVE  rows'[u.row] = rows[u.row] /\ rows[u.row].key # k
    OBVIOUS
  <2>1. u \in toTransition[s] /\ u # t
    BY <1>8
  <2>2. u.row \in RowsOf(rows) /\ u.row # t.row
    BY <2>1 DEF SerialInv, PlannedRowsExist, PlanIsCurrent
  <2>3. QED
    BY <1>1, <2>2 DEF SerialInv, OneRowPerKey, k
<1>10. {rows'[u.row].key : u \in toTransition'[s]} = {rows[u.row].key : u \in toTransition[s]} \ {k}
  BY <1>8, <1>9 DEF k
<1>11. k \in Owed /\ Owed' = Owed \ {k}
  BY <1>1, <1>7, <1>8, <1>10 DEF OwedWhenApplying, k
<1>12. k \notin Observed /\ Observed' = Observed
  BY <1>1, OneObserver
<1>13. QED
  BY <1>2, <1>4, <1>6, <1>11, <1>12, ContractActions

-----------------------------------------------------------------------------
(* The refinement.                                                         *)

\* A step that writes no row and moves no run past its observation is a
\* stutter of the contract.
LEMMA QuietStutters ==
    ASSUME rows' = rows, seen' = seen, toInsert' = toInsert, toRefresh' = toRefresh,
           toTransition' = toTransition, pc' = pc
    PROVE  UNCHANGED Contract!vars
<1>1. Records' = Records
  BY RecordsIn
<1>2. Observed' = Observed
  BY DEF Observed
<1>3. \A s \in Syncers : Unsettled(s)' = Unsettled(s)
  BY DEF Unsettled
<1>4. Owed' = Owed
  BY <1>3 DEF Owed
<1>5. QED
  BY <1>1, <1>2, <1>4, ContractActions

\* Until it is an observation a run settles nothing.
LEMMA UnobservedStutters ==
    ASSUME Serialized, NEW s \in Syncers, rows' = rows,
           pc[s] \notin {"planning", "applying"}, pc'[s] \notin {"planning", "applying"}
    PROVE  UNCHANGED Contract!vars
<1>1. Records' = Records
  BY RecordsIn
<1>2. Observed' = Observed /\ Owed' = Owed
  BY OneObserver, Unsettling
<1>3. QED
  BY <1>1, <1>2, ContractActions

LEMMA InitContract == Init => Contract!Init
<1> SUFFICES ASSUME Init PROVE Contract!Init
  OBVIOUS
<1>1. RowsOf(rows) = {}
  BY DEF Init, RowsOf
<1>2. Records = [k \in Keys |-> NoRow]
  BY <1>1 DEF Records, RecordOf, RowsFor
<1>3. \A s \in Syncers : pc[s] = "idle"
  BY DEF Init
<1>4. Observed = {}
  BY <1>3 DEF Observed
<1>5. Owed = {}
  BY <1>3 DEF Owed, Unsettled
<1>6. QED
  BY <1>2, <1>4, <1>5, ContractActions

LEMMA NextContract ==
    ASSUME Serialized, MayRepeat = {}
    PROVE  SerialInv /\ PlanIsCurrent /\ [Next]_vars => [Contract!Next]_(Contract!vars)
<1> SUFFICES ASSUME SerialInv, PlanIsCurrent, [Next]_vars
             PROVE  Contract!Next \/ UNCHANGED Contract!vars
  OBVIOUS
<1>0. SerialInv'
  BY NextSerialInv
<1>1. CASE UNCHANGED vars
  BY <1>1, QuietStutters DEF vars
<1>2. CASE CloudChanges
  BY <1>2, CloudChangesLeave, QuietStutters
<1>3. ASSUME NEW s \in Syncers, Run(s)
      PROVE  Contract!Next \/ UNCHANGED Contract!vars
  <2>1. CASE StartRun(s) \/ FetchReturns(s)
    <3>1. /\ rows' = rows
          /\ pc[s] \notin {"planning", "applying"} /\ pc'[s] \notin {"planning", "applying"}
      BY <2>1 DEF StartRun, FetchReturns, tableVars, SerialInv, TypeOK
    <3>2. QED
      BY <3>1, UnobservedStutters
  <2>2. CASE \E k \in Keys : RetireCi(s, k)
    BY <2>2, QuietStutters DEF RetireCi
  <2>3. CASE \/ FetchFails(s) \/ ReconcileFails(s) \/ EmptyReconcileFails(s)
             \/ ApplyThrows(s) \/ CompleteRun(s) \/ Crash(s)
    <3>1. DropLocals(s) /\ rows' = rows
      BY <2>3 DEF FetchFails, ReconcileFails, EmptyReconcileFails, ApplyThrows, CompleteRun,
                  Crash, FailRun, tableVars
    <3>2. Contract!Close
      BY <3>1, EndCloses
    <3>3. QED
      BY <3>2 DEF Contract!Next
  <2>4. CASE ReconcileSucceeds(s)
    BY <2>4, ReconciliationObserves DEF Contract!Next
  <2>5. CASE PlanUpdates(s)
    BY <2>5, PlanDismisses DEF Contract!Next
  <2>6. CASE \E k \in Keys, w \in RowIds : ApplyInsert(s, k, w)
    BY <1>0, <2>6, InsertConfirms DEF Contract!Next
  <2>7. CASE \E w \in RowIds : ApplyRefresh(s, w)
    BY <1>0, <2>7, RefreshConfirms DEF Contract!Next
  <2>8. CASE \E t \in toTransition[s] : ApplyTransition(s, t)
    BY <1>0, <2>8, TransitionAges DEF Contract!Next
  <2>9. QED
    BY <1>3, <2>1, <2>2, <2>3, <2>4, <2>5, <2>6, <2>7, <2>8 DEF Run
<1>4. QED
  BY <1>1, <1>2, <1>3 DEF Next

LEMMA InitPlanIsCurrent == Init => PlanIsCurrent
BY DEF Init, PlanIsCurrent

\* Runs that do not overlap and whose lists repeat nothing implement the
\* contract: whatever fails, an observation settles each record at most once,
\* fresh or one miss older, and nothing else moves a record.
THEOREM SerialRunsImplementContract ==
    ASSUME Serialized, MayRepeat = {}
    PROVE  Spec => ImplementsContract
<1>1. Init => Contract!Init
  BY InitContract
<1>2. Init => PlanIsCurrent
  BY InitPlanIsCurrent
<1>3. SerialInv /\ PlanIsCurrent /\ [Next]_vars => PlanIsCurrent'
  BY NextPlanIsCurrent, SerialInvIsRunInv
<1>4. SerialInv /\ PlanIsCurrent /\ [Next]_vars => [Contract!Next]_(Contract!vars)
  BY NextContract
<1>5. Spec => []SerialInv
  BY AlwaysSerialInv
<1>6. QED
  BY <1>1, <1>2, <1>3, <1>4, <1>5, PTL DEF Spec, ImplementsContract, Contract!Spec

-----------------------------------------------------------------------------
(* What a completed run leaves agrees with what it saw.                    *)

\* What is not right in the table yet is in the plan.
PlanCoversTable ==
    \A s \in Syncers : pc[s] = "applying" =>
        /\ \A k \in seen[s] :
              \/ k \in toInsert[s]
              \/ \E r \in RowsFor(rows, k) : r \in toRefresh[s] \/ rows[r].status = "active"
        /\ \A r \in RowsOf(rows) :
              \/ rows[r].key \in seen[s]
              \/ rows[r].status # "active"
              \/ \E t \in toTransition[s] : t.row = r

LEMMA NextPlanCoversTable ==
    ASSUME Serialized
    PROVE  RunInv /\ PlanIsCurrent /\ PlanCoversTable /\ [Next]_vars => PlanCoversTable'
<1> SUFFICES ASSUME RunInv, PlanIsCurrent, PlanCoversTable, [Next]_vars PROVE PlanCoversTable'
  OBVIOUS
<1>0. RunInv'
  BY NextRunInv
<1>1. CASE /\ rows' = rows /\ pc' = pc /\ seen' = seen /\ toInsert' = toInsert
           /\ toRefresh' = toRefresh /\ toTransition' = toTransition
  BY <1>1 DEF PlanCoversTable, RowsOf, RowsFor
<1>2. ASSUME NEW s \in Syncers, Run(s)
      PROVE  PlanCoversTable'
  <2>0. \A q \in Syncers : q = s
    BY DEF Serialized
  <2>1. CASE pc'[s] # "applying"
    BY <2>0, <2>1 DEF PlanCoversTable
  <2>2. CASE PlanUpdates(s)
    <3>1. /\ rows' = rows /\ seen' = seen
          /\ toInsert'[s] = ToInsert(seen[s], rows)
          /\ toTransition'[s] = ToTransition(seen[s], rows)
      BY <2>2 DEF PlanUpdates, tableVars, RunInv, TypeInv, TypeOK
    <3>2. PICK index \in RowIndexes(rows) : toRefresh'[s] = ToRefresh(seen[s], rows, index)
      BY <2>2 DEF PlanUpdates, RunInv, TypeInv, TypeOK
    <3>3. ASSUME NEW k \in seen[s], k \notin toInsert'[s]
          PROVE  \E r \in RowsFor(rows, k) : r \in toRefresh'[s]
      <4>1. k \in KeysOf(rows)
        BY <3>1, <3>3 DEF ToInsert
      <4>2. index[k] \in RowsFor(rows, k) /\ index[k] \in toRefresh'[s]
        BY <3>2, <4>1 DEF RowIndexes, ToRefresh
      <4>3. QED
        BY <4>2
    <3>4. ASSUME NEW r \in RowsOf(rows), rows[r].key \notin seen[s]
          PROVE  \E t \in toTransition'[s] : t.row = r
      BY <3>1, <3>4, TransitionRow DEF ToTransition
    <3>5. RowsOf(rows)' = RowsOf(rows) /\ \A k : RowsFor(rows, k)' = RowsFor(rows, k)
      BY <3>1 DEF RowsOf, RowsFor
    <3>6. QED
      BY <2>0, <3>1, <3>3, <3>4, <3>5 DEF PlanCoversTable
  <2>3. ASSUME NEW k \in Keys, NEW w \in RowIds, ApplyInsert(s, k, w)
        PROVE  PlanCoversTable'
    <3>1. /\ pc[s] = "applying" /\ k \in seen[s]
          /\ RowsOf(rows)' = RowsOf(rows) \cup {w}
          /\ rows'[w] = FreshRow(k)
          /\ \A r \in RowsOf(rows) : rows'[r] = rows[r]
          /\ toInsert[s] \ {k} \subseteq toInsert'[s]
          /\ UNCHANGED <<pc, seen, toRefresh, toTransition>>
      BY <2>3, InsertEffect
    <3>2. \A j \in toInsert[s] : j # k => j \in toInsert'[s]
      BY <3>1
    <3>3. w \in RowsFor(rows', k) /\ rows'[w].status = "active" /\ rows'[w].key \in seen[s]
      BY <3>1 DEF RowsFor, FreshRow
    <3>4. \A j : RowsFor(rows, j) \subseteq RowsFor(rows', j)
      BY <3>1 DEF RowsFor
    <3>5. ASSUME NEW j \in seen[s]
          PROVE  \/ j \in toInsert'[s]
                 \/ \E r \in RowsFor(rows', j) : r \in toRefresh'[s] \/ rows'[r].status = "active"
      <4>1. CASE j = k
        BY <3>3, <4>1
      <4>2. CASE j # k
        BY <3>1, <3>2, <3>4, <4>2 DEF PlanCoversTable, RowsFor
      <4>3. QED
        BY <4>1, <4>2
    <3>6. ASSUME NEW r \in RowsOf(rows')
          PROVE  \/ rows'[r].key \in seen[s]
                 \/ rows'[r].status # "active"
                 \/ \E t \in toTransition'[s] : t.row = r
      <4>1. CASE r = w
        BY <3>3, <4>1
      <4>2. CASE r # w
        BY <3>1, <4>2 DEF PlanCoversTable
      <4>3. QED
        BY <4>1, <4>2
    <3>7. QED
      BY <2>0, <3>1, <3>5, <3>6 DEF PlanCoversTable
  <2>4. ASSUME NEW w \in RowIds, ApplyRefresh(s, w)
        PROVE  PlanCoversTable'
    <3>1. /\ pc[s] = "applying" /\ w \in RowsOf(rows) /\ rows[w].key \in seen[s]
          /\ RowsOf(rows)' = RowsOf(rows)
          /\ rows'[w] = FreshRow(rows[w].key)
          /\ \A r \in RowsOf(rows) : r # w => rows'[r] = rows[r]
          /\ toRefresh' = [toRefresh EXCEPT ![s] = @ \ {w}]
          /\ UNCHANGED <<pc, seen, toInsert, toTransition>>
      BY <2>4, RefreshEffect
    <3>2. toRefresh'[s] = toRefresh[s] \ {w}
      BY <3>1 DEF RunInv, TypeInv, TypeOK
    <3>3. rows'[w].status = "active" /\ rows'[w].key = rows[w].key
      BY <3>1 DEF FreshRow
    <3>4. \A j : RowsFor(rows', j) = RowsFor(rows, j)
      BY <3>1, <3>3 DEF RowsFor
    <3>5. ASSUME NEW j \in seen[s]
          PROVE  \/ j \in toInsert'[s]
                 \/ \E r \in RowsFor(rows', j) : r \in toRefresh'[s] \/ rows'[r].status = "active"
      <4>1. CASE j \in toInsert[s]
        BY <3>1, <4>1
      <4>2. CASE j \notin toInsert[s]
        <5>1. PICK r \in RowsFor(rows, j) : r \in toRefresh[s] \/ rows[r].status = "active"
          BY <3>1, <4>2 DEF PlanCoversTable
        <5>2. r \in toRefresh'[s] \/ rows'[r].status = "active"
          BY <3>1, <3>2, <3>3, <5>1 DEF RowsFor
        <5>3. QED
          BY <3>4, <5>1, <5>2
      <4>3. QED
        BY <4>1, <4>2
    <3>6. \A r \in RowsOf(rows') : \/ rows'[r].key \in seen[s]
                                   \/ rows'[r].status # "active"
                                   \/ \E t \in toTransition'[s] : t.row = r
      BY <3>1, <3>3 DEF PlanCoversTable
    <3>7. QED
      BY <2>0, <3>1, <3>5, <3>6 DEF PlanCoversTable
  <2>5. ASSUME NEW t \in toTransition[s], ApplyTransition(s, t)
        PROVE  PlanCoversTable'
    <3>1. /\ pc[s] = "applying" /\ t.row \in RowsOf(rows) /\ rows[t.row].key \notin seen[s]
          /\ RowsOf(rows)' = RowsOf(rows)
          /\ rows'[t.row] = [key |-> rows[t.row].key, status |-> t.status, miss |-> t.miss]
          /\ \A r \in RowsOf(rows) : r # t.row => rows'[r] = rows[r]
          /\ toTransition' = [toTransition EXCEPT ![s] = @ \ {t}]
          /\ UNCHANGED <<pc, seen, toInsert, toRefresh>>
      BY <2>5, TransitionEffect
    <3>2. toTransition'[s] = toTransition[s] \ {t}
      BY <3>1 DEF RunInv, TypeInv, TypeOK
    <3>3. rows'[t.row].status # "active" /\ rows'[t.row].key = rows[t.row].key
      <4>1. t = Transition(rows, t.row)
        BY DEF PlanIsCurrent
      <4>2. t.status = AfterMiss(rows[t.row]).status
        BY <4>1 DEF Transition, ComputeNextState
      <4>3. QED
        BY <3>1, <4>2 DEF AfterMiss
    <3>4. \A j : RowsFor(rows', j) = RowsFor(rows, j)
      BY <3>1, <3>3 DEF RowsFor
    <3>5. \A j \in seen[s] :
              \/ j \in toInsert'[s]
              \/ \E r \in RowsFor(rows', j) : r \in toRefresh'[s] \/ rows'[r].status = "active"
      BY <3>1, <3>4 DEF PlanCoversTable, RowsFor
    <3>6. ASSUME NEW r \in RowsOf(rows')
          PROVE  \/ rows'[r].key \in seen[s]
                 \/ rows'[r].status # "active"
                 \/ \E u \in toTransition'[s] : u.row = r
      <4>1. CASE r = t.row
        BY <3>3, <4>1
      <4>2. CASE r # t.row
        BY <3>1, <3>2, <4>2 DEF PlanCoversTable
      <4>3. QED
        BY <4>1, <4>2
    <3>7. QED
      BY <2>0, <3>1, <3>5, <3>6 DEF PlanCoversTable
  <2>6. CASE \E k \in Keys : RetireCi(s, k)
    BY <1>1, <2>6 DEF RetireCi
  <2>7. CASE \/ StartRun(s) \/ FetchReturns(s) \/ ReconcileSucceeds(s)
             \/ FetchFails(s) \/ ReconcileFails(s) \/ EmptyReconcileFails(s)
             \/ ApplyThrows(s) \/ CompleteRun(s) \/ Crash(s)
    <3>1. pc'[s] # "applying"
      BY <2>7 DEF StartRun, FetchReturns, ReconcileSucceeds, FetchFails, ReconcileFails,
                  EmptyReconcileFails, ApplyThrows, CompleteRun, Crash, FailRun, DropLocals,
                  RunInv, TypeInv, TypeOK
    <3>2. QED
      BY <2>1, <3>1
  <2>8. QED
    BY <1>2, <2>2, <2>3, <2>4, <2>5, <2>6, <2>7 DEF Run
<1>3. CASE UNCHANGED vars
  BY <1>1, <1>3 DEF vars
<1>4. CASE CloudChanges
  BY <1>1, <1>4, CloudChangesLeave
<1>5. QED
  BY <1>2, <1>3, <1>4 DEF Next

\* Only the last step of a run records it as completed.
LEMMA CompletionStep ==
    ASSUME RunInv, [Next]_vars, NEW s \in Syncers,
           record[s].state = "running", record'[s].state = "completed", Serialized
    PROVE  CompleteRun(s)
<1>1. \A fail : FinishRun(0, fail, TRUE).state = "failed"
  BY DEF FinishRun
<1>2. ASSUME NEW q \in Syncers, NEW fail, record' = [record EXCEPT ![q] = FinishRun(0, fail, TRUE)]
      PROVE  FALSE
  BY <1>1, <1>2 DEF Serialized, RunInv, TypeInv, TypeOK
<1>3. ASSUME NEW q \in Syncers, record' = [record EXCEPT ![q] = RunningRecord]
      PROVE  FALSE
  BY <1>3 DEF Serialized, RunInv, TypeInv, TypeOK, RunningRecord
<1>4. record' # record
  OBVIOUS
<1>5. ~ UNCHANGED vars /\ ~ CloudChanges
  BY <1>4, CloudChangesLeave DEF vars
<1>6. PICK q \in Syncers : Run(q)
  BY <1>5 DEF Next
<1>7. q = s
  BY DEF Serialized
<1>8. ~ FetchFails(q) /\ ~ ReconcileFails(q) /\ ~ EmptyReconcileFails(q) /\ ~ ApplyThrows(q)
  BY <1>2 DEF FetchFails, ReconcileFails, EmptyReconcileFails, ApplyThrows, FailRun
<1>9. ~ StartRun(q)
  BY <1>3 DEF StartRun
<1>10. /\ ~ FetchReturns(q) /\ ~ ReconcileSucceeds(q) /\ ~ PlanUpdates(q) /\ ~ Crash(q)
       /\ ~ \E k \in Keys : RetireCi(q, k)
       /\ ~ \E k \in Keys, w \in RowIds : ApplyInsert(q, k, w)
       /\ ~ \E w \in RowIds : ApplyRefresh(q, w)
       /\ ~ \E t \in toTransition[q] : ApplyTransition(q, t)
  BY <1>4 DEF FetchReturns, ReconcileSucceeds, PlanUpdates, Crash, RetireCi, ApplyInsert,
              ApplyRefresh, ApplyTransition, reportVars
<1>11. QED
  BY <1>6, <1>7, <1>8, <1>9, <1>10 DEF Run

\* Runs that do not overlap: whatever failed before and whatever the lists
\* repeat, a run recorded as completed leaves an active row for every resource
\* it saw and for no other.
THEOREM CompletedRunsAgree ==
    ASSUME Serialized
    PROVE  Spec => CompletedRunAgrees
<1> DEFINE Agrees ==
        \A s \in Syncers :
          (record[s].state = "running" /\ record'[s].state = "completed")
              => /\ \A k \in seen[s] : \E r \in RowsFor(rows, k) : rows[r].status = "active"
                 /\ \A r \in RowsOf(rows) : rows[r].key \notin seen[s] => rows[r].status # "active"
<1>1. Init => PlanIsCurrent /\ PlanCoversTable
  BY InitPlanIsCurrent DEF Init, PlanCoversTable
<1>2. RunInv /\ PlanIsCurrent /\ [Next]_vars => PlanIsCurrent'
  BY NextPlanIsCurrent
<1>3. RunInv /\ PlanIsCurrent /\ PlanCoversTable /\ [Next]_vars => PlanCoversTable'
  BY NextPlanCoversTable
<1>4. RunInv /\ PlanCoversTable /\ [Next]_vars => [Agrees]_vars
  <2> SUFFICES ASSUME RunInv, PlanCoversTable, [Next]_vars, NEW s \in Syncers,
                      record[s].state = "running", record'[s].state = "completed"
               PROVE  /\ \A k \in seen[s] : \E r \in RowsFor(rows, k) : rows[r].status = "active"
                      /\ \A r \in RowsOf(rows) :
                            rows[r].key \notin seen[s] => rows[r].status # "active"
    OBVIOUS
  <2>1. PlanDone(s)
    BY CompletionStep DEF CompleteRun
  <2>2. QED
    BY <2>1 DEF PlanDone, PlanCoversTable
<1>5. Spec => []RunInv
  BY AlwaysRunInv
<1> HIDE DEF Agrees
<1>6. Spec => [][Agrees]_vars
  BY <1>1, <1>2, <1>3, <1>4, <1>5, PTL DEF Spec
<1>7. QED
  BY <1>6 DEF CompletedRunAgrees, Agrees

-----------------------------------------------------------------------------
(* The misses that retire a row are consecutive, as long as a run that is  *)
(* an observation carries out its plan: one that is cut off may have left  *)
(* the row of a resource it saw with its earlier misses.                   *)

PlansAreCarriedOut == Faults \cap {"apply", "crash"} = {}

\* The rows that are the only one of their resource.
SoleRows(t) == {r \in RowsOf(t) : RowsFor(t, t[r].key) = {r}}

\* Such a row counts no more misses than the latest observations without its
\* resource, except for a refresh that is planned or about to be. (Of two rows
\* a refresh leaves one out.)
MissesAreConsecutive ==
    \A s \in Syncers :
        /\ \A r \in SoleRows(rows) :
              \/ rows[r].miss <= absences[rows[r].key]
              \/ pc[s] = "planning" /\ rows[r].key \in seen[s]
              \/ pc[s] = "applying" /\ r \in toRefresh[s]
        /\ pc[s] = "planning" =>
              \A r \in SoleRows(rows) :
                  rows[r].key \notin seen[s] => Saturate(rows[r].miss + 1) <= absences[rows[r].key]
        /\ \A t \in toTransition[s] :
              t.row \in SoleRows(rows) => t.miss <= absences[rows[t.row].key]

\* Rows keep their keys and are never deleted: a row that is the only one
\* of its resource was so before.
LEMMA SoleRowsStay ==
    ASSUME RowsOf(rows) \subseteq RowsOf(rows'),
           \A r \in RowsOf(rows) : rows'[r].key = rows[r].key
    PROVE  \A r \in SoleRows(rows') : r \in RowsOf(rows) => r \in SoleRows(rows)
BY DEF SoleRows, RowsFor

LEMMA SoleRowsAreRows == \A t : SoleRows(t) \subseteq RowsOf(t)
BY DEF SoleRows

LEMMA CountFacts ==
    ASSUME RunInv, NEW r \in RowsOf(rows)
    PROVE  /\ rows[r].key \in Keys
           /\ rows[r].miss \in Nat /\ rows[r].miss \in 0..MissCap
           /\ absences[rows[r].key] \in Nat /\ absences[rows[r].key] \in 0..MissCap
<1>1. rows[r].key \in Keys /\ rows[r].miss \in Nat /\ rows[r].miss \in 0..MissCap
  BY RowFacts DEF RunInv
<1>2. absences[rows[r].key] \in 0..MissCap
  BY <1>1 DEF RunInv, TypeInv, TypeOK
<1>3. QED
  BY <1>1, <1>2, MissCapAssumption

LEMMA NextMissesAreConsecutive ==
    ASSUME Serialized, PlansAreCarriedOut
    PROVE  RunInv /\ PlanIsCurrent /\ MissesAreConsecutive /\ [Next]_vars
               => MissesAreConsecutive'
<1> SUFFICES ASSUME RunInv, PlanIsCurrent, MissesAreConsecutive, [Next]_vars
             PROVE  MissesAreConsecutive'
  OBVIOUS
<1>0. RunInv'
  BY NextRunInv
<1>1. CASE /\ rows' = rows /\ pc' = pc /\ seen' = seen /\ absences' = absences
           /\ toRefresh' = toRefresh /\ toTransition' = toTransition
  BY <1>1 DEF MissesAreConsecutive
<1>2. ASSUME NEW s \in Syncers, Run(s)
      PROVE  MissesAreConsecutive'
  <2>0. \A q \in Syncers : q = s
    BY DEF Serialized
  <2>1. ASSUME rows' = rows, absences' = absences, pc'[s] # "planning", toTransition'[s] = {},
               \A r \in SoleRows(rows) : rows[r].miss <= absences[rows[r].key]
        PROVE  MissesAreConsecutive'
    BY <2>0, <2>1 DEF MissesAreConsecutive
  <2>2. CASE \/ StartRun(s) \/ FetchReturns(s)
             \/ FetchFails(s) \/ ReconcileFails(s) \/ EmptyReconcileFails(s)
    <3>1. /\ rows' = rows /\ absences' = absences
          /\ pc[s] \notin {"planning", "applying"} /\ pc'[s] # "planning"
      BY <2>2 DEF StartRun, FetchReturns, FetchFails, ReconcileFails, EmptyReconcileFails,
                  FailRun, DropLocals, tableVars, historyVars, RunInv, TypeInv, TypeOK
    <3>2. toTransition[s] = {} /\ (toTransition' = toTransition \/ toTransition'[s] = {})
      BY <2>2, <3>1 DEF RunInv, PlanOnlyWhenApplying, StartRun, FetchReturns, FetchFails,
                        ReconcileFails, EmptyReconcileFails, FailRun, DropLocals, planVars, TypeInv, TypeOK
    <3>3. \A r \in SoleRows(rows) : rows[r].miss <= absences[rows[r].key]
      BY <3>1 DEF MissesAreConsecutive
    <3>4. QED
      BY <2>1, <3>1, <3>2, <3>3
  <2>3. CASE CompleteRun(s)
    <3>1. /\ rows' = rows /\ absences' = absences /\ pc[s] = "applying" /\ toRefresh[s] = {}
          /\ pc'[s] # "planning" /\ toTransition'[s] = {}
      BY <2>3 DEF CompleteRun, PlanDone, DropLocals, tableVars, historyVars, RunInv, TypeInv, TypeOK
    <3>2. \A r \in SoleRows(rows) : rows[r].miss <= absences[rows[r].key]
      BY <3>1 DEF MissesAreConsecutive
    <3>3. QED
      BY <2>1, <3>1, <3>2
  <2>4. CASE ApplyThrows(s) \/ Crash(s)
    BY <2>4 DEF ApplyThrows, Crash, PlansAreCarriedOut
  <2>5. CASE ReconcileSucceeds(s)
    <3>1. /\ rows' = rows /\ seen' = seen /\ toTransition' = toTransition
          /\ pc[s] = "reconciling" /\ pc'[s] = "planning"
          /\ absences' = [k \in Keys |-> IF k \in seen[s] THEN 0 ELSE Saturate(absences[k] + 1)]
      BY <2>5 DEF ReconcileSucceeds, planVars, RunInv, TypeInv, TypeOK
    <3>2. ASSUME NEW r \in SoleRows(rows), rows[r].key \notin seen[s]
          PROVE  /\ Saturate(rows[r].miss + 1) <= absences'[rows[r].key]
                 /\ rows[r].miss <= absences'[rows[r].key]
      <4>0. r \in RowsOf(rows)
        BY SoleRowsAreRows
      <4>1. rows[r].miss <= absences[rows[r].key]
        BY <3>1 DEF MissesAreConsecutive
      <4>2. absences'[rows[r].key] = Saturate(absences[rows[r].key] + 1)
        BY <3>1, <3>2, <4>0, CountFacts
      <4>3. Saturate(rows[r].miss + 1) <= Saturate(absences[rows[r].key] + 1)
        BY <4>0, <4>1, CountFacts, SaturateMonotone
      <4>4. rows[r].miss <= Saturate(rows[r].miss + 1) /\ Saturate(rows[r].miss + 1) \in 0..MissCap
        BY <4>0, CountFacts, MissCapAssumption DEF Saturate
      <4>5. Saturate(absences[rows[r].key] + 1) \in 0..MissCap
        BY <4>0, CountFacts, MissCapAssumption DEF Saturate
      <4>6. QED
        BY <4>0, <4>2, <4>3, <4>4, <4>5, CountFacts, MissCapAssumption
    <3>3. toTransition'[s] = {}
      BY <3>1 DEF RunInv, PlanOnlyWhenApplying
    <3>4. QED
      BY <2>0, <3>1, <3>2, <3>3 DEF MissesAreConsecutive
  <2>6. CASE PlanUpdates(s)
    <3>1. /\ rows' = rows /\ seen' = seen /\ absences' = absences
          /\ pc[s] = "planning" /\ pc'[s] = "applying"
          /\ toTransition'[s] = ToTransition(seen[s], rows)
      BY <2>6 DEF PlanUpdates, tableVars, historyVars, RunInv, TypeInv, TypeOK
    <3>2. PICK index \in RowIndexes(rows) : toRefresh'[s] = ToRefresh(seen[s], rows, index)
      BY <2>6 DEF PlanUpdates, RunInv, TypeInv, TypeOK
    <3>3. ASSUME NEW r \in SoleRows(rows), rows[r].key \in seen[s]
          PROVE  r \in toRefresh'[s]
      <4>0. rows[r].key \in KeysOf(rows)
        BY SoleRowsAreRows DEF KeysOf
      <4>1. index[rows[r].key] \in RowsFor(rows, rows[r].key)
        BY <3>2, <4>0 DEF RowIndexes
      <4>2. index[rows[r].key] = r
        BY <4>1 DEF SoleRows
      <4>3. QED
        BY <3>2, <3>3, <4>0, <4>2 DEF ToRefresh
    <3>4. \A r \in SoleRows(rows) :
              \/ rows[r].miss <= absences[rows[r].key]
              \/ r \in toRefresh'[s]
      BY <3>1, <3>3 DEF MissesAreConsecutive
    <3>5. ASSUME NEW t \in toTransition'[s], t.row \in SoleRows(rows)
          PROVE  t.miss <= absences[rows[t.row].key]
      <4>1. PICK r \in RowsOf(rows) : rows[r].key \notin seen[s] /\ t = Transition(rows, r)
        BY <3>1 DEF ToTransition
      <4>2. t.row = r /\ t.miss = Saturate(rows[r].miss + 1)
        BY <4>1 DEF Transition, ComputeNextState, AfterMiss
      <4>3. QED
        BY <3>1, <3>5, <4>1, <4>2 DEF MissesAreConsecutive
    <3>6. QED
      BY <2>0, <3>1, <3>4, <3>5 DEF MissesAreConsecutive
  <2>7. ASSUME NEW k \in Keys, NEW w \in RowIds, ApplyInsert(s, k, w)
        PROVE  MissesAreConsecutive'
    <3>1. /\ pc[s] = "applying"
          /\ RowsOf(rows)' = RowsOf(rows) \cup {w}
          /\ rows'[w] = FreshRow(k)
          /\ \A r \in RowsOf(rows) : rows'[r] = rows[r]
          /\ UNCHANGED <<pc, seen, toRefresh, toTransition, absences>>
      BY <2>7, InsertEffect
    <3>2. rows'[w].miss <= absences[rows'[w].key]
      <4>1. rows'[w].miss = 0 /\ rows'[w].key = k
        BY <3>1 DEF FreshRow
      <4>2. absences[k] \in 0..MissCap
        BY DEF RunInv, TypeInv, TypeOK
      <4>3. QED
        BY <4>1, <4>2
    <3>3. \A t \in toTransition[s] : t.row \in RowsOf(rows) /\ rows'[t.row] = rows[t.row]
      BY <3>1 DEF RunInv, TypeInv, PlannedRowsExist
    <3>4. \A r \in SoleRows(rows') : r = w \/ (r \in SoleRows(rows) /\ rows'[r] = rows[r])
      BY <3>1, SoleRowsStay, SoleRowsAreRows
    <3>5. \A r \in SoleRows(rows') :
              \/ rows'[r].miss <= absences[rows'[r].key]
              \/ r \in toRefresh[s]
      BY <3>1, <3>2, <3>4 DEF MissesAreConsecutive
    <3>6. \A t \in toTransition[s] :
              t.row \in SoleRows(rows') => t.miss <= absences[rows'[t.row].key]
      BY <3>1, <3>3, SoleRowsStay DEF MissesAreConsecutive
    <3>7. QED
      BY <2>0, <3>1, <3>5, <3>6 DEF MissesAreConsecutive
  <2>8. ASSUME NEW w \in RowIds, ApplyRefresh(s, w)
        PROVE  MissesAreConsecutive'
    <3>1. /\ pc[s] = "applying" /\ w \in RowsOf(rows)
          /\ RowsOf(rows)' = RowsOf(rows)
          /\ rows'[w] = FreshRow(rows[w].key)
          /\ \A r \in RowsOf(rows) : r # w => rows'[r] = rows[r]
          /\ toRefresh' = [toRefresh EXCEPT ![s] = @ \ {w}]
          /\ UNCHANGED <<pc, seen, toTransition, absences>>
      BY <2>8, RefreshEffect
    <3>2. rows'[w].miss = 0 /\ rows'[w].key = rows[w].key
      BY <3>1 DEF FreshRow
    <3>3. rows'[w].miss <= absences[rows'[w].key]
      BY <3>1, <3>2, CountFacts
    <3>0. \A r \in SoleRows(rows') : r \in RowsOf(rows) /\ r \in SoleRows(rows)
      BY <3>1, <3>2, SoleRowsStay, SoleRowsAreRows
    <3>4. toRefresh'[s] = toRefresh[s] \ {w}
      BY <3>1 DEF RunInv, TypeInv, TypeOK
    <3>5. \A r \in SoleRows(rows') :
              \/ rows'[r].miss <= absences[rows'[r].key]
              \/ r \in toRefresh'[s]
      BY <3>0, <3>1, <3>3, <3>4 DEF MissesAreConsecutive
    <3>6. \A t \in toTransition[s] :
              t.row \in SoleRows(rows') => t.miss <= absences[rows'[t.row].key]
      BY <3>0, <3>1, <3>2 DEF MissesAreConsecutive
    <3>7. QED
      BY <2>0, <3>1, <3>5, <3>6 DEF MissesAreConsecutive
  <2>9. ASSUME NEW t \in toTransition[s], ApplyTransition(s, t)
        PROVE  MissesAreConsecutive'
    <3>1. /\ pc[s] = "applying" /\ t.row \in RowsOf(rows)
          /\ RowsOf(rows)' = RowsOf(rows)
          /\ rows'[t.row] = [key |-> rows[t.row].key, status |-> t.status, miss |-> t.miss]
          /\ \A r \in RowsOf(rows) : r # t.row => rows'[r] = rows[r]
          /\ toTransition' = [toTransition EXCEPT ![s] = @ \ {t}]
          /\ UNCHANGED <<pc, seen, toRefresh, absences>>
      BY <2>9, TransitionEffect
    <3>2. toTransition'[s] = toTransition[s] \ {t}
      BY <3>1 DEF RunInv, TypeInv, TypeOK
    <3>3. \A r \in RowsOf(rows) : rows'[r].key = rows[r].key
      BY <3>1
    <3>4. \A r \in SoleRows(rows') : r \in RowsOf(rows) /\ r \in SoleRows(rows)
      BY <3>1, <3>3, SoleRowsStay, SoleRowsAreRows
    <3>5. \A r \in SoleRows(rows') :
              \/ rows'[r].miss <= absences[rows'[r].key]
              \/ r \in toRefresh'[s]
      <4>1. \A r \in SoleRows(rows') : r # t.row =>
                \/ rows'[r].miss <= absences[rows'[r].key]
                \/ r \in toRefresh'[s]
        BY <3>1, <3>4 DEF MissesAreConsecutive
      <4>2. t.row \in SoleRows(rows') => rows'[t.row].miss <= absences[rows'[t.row].key]
        BY <3>1, <3>4 DEF MissesAreConsecutive
      <4>3. QED
        BY <4>1, <4>2
    <3>6. \A u \in toTransition'[s] :
              u.row \in SoleRows(rows') => u.miss <= absences[rows'[u.row].key]
      BY <3>1, <3>2, <3>3, <3>4 DEF MissesAreConsecutive
    <3>7. QED
      BY <2>0, <3>1, <3>5, <3>6 DEF MissesAreConsecutive
  <2>10. CASE \E k \in Keys : RetireCi(s, k)
    BY <1>1, <2>10 DEF RetireCi, historyVars
  <2>11. QED
    BY <1>2, <2>2, <2>3, <2>4, <2>5, <2>6, <2>7, <2>8, <2>9, <2>10 DEF Run
<1>3. CASE UNCHANGED vars
  BY <1>1, <1>3 DEF vars
<1>4. CASE CloudChanges
  BY <1>1, <1>4, CloudChangesLeave
<1>5. QED
  BY <1>2, <1>3, <1>4 DEF Next

\* Only a transition retires a row.
LEMMA RetiringStep ==
    ASSUME Serialized, RunInv, [Next]_vars, NEW r \in RowsOf(rows),
           rows[r].status # "retired", rows'[r].status = "retired"
    PROVE  \E s \in Syncers : \E t \in toTransition[s] : t.row = r /\ t.status = "retired"
<1>1. rows' # rows
  OBVIOUS
<1>2. ~ UNCHANGED vars /\ ~ CloudChanges
  BY <1>1, CloudChangesLeave DEF vars
<1>3. PICK s \in Syncers : Run(s)
  BY <1>2 DEF Next
<1>4. ASSUME NEW k \in Keys, NEW w \in RowIds, ApplyInsert(s, k, w)
      PROVE  FALSE
  <2>1. \A q \in RowsOf(rows) : rows'[q] = rows[q]
    BY <1>4, InsertEffect
  <2>2. QED
    BY <2>1
<1>5. ASSUME NEW w \in RowIds, ApplyRefresh(s, w)
      PROVE  FALSE
  <2>1. rows'[w] = FreshRow(rows[w].key) /\ \A q \in RowsOf(rows) : q # w => rows'[q] = rows[q]
    BY <1>5, RefreshEffect
  <2>2. QED
    BY <2>1 DEF FreshRow
<1>6. ASSUME NEW t \in toTransition[s], ApplyTransition(s, t)
      PROVE  t.row = r /\ t.status = "retired"
  <2>1. /\ rows'[t.row] = [key |-> rows[t.row].key, status |-> t.status, miss |-> t.miss]
        /\ \A q \in RowsOf(rows) : q # t.row => rows'[q] = rows[q]
    BY <1>6, TransitionEffect
  <2>2. t.row = r
    BY <2>1
  <2>3. rows'[t.row].status = t.status
    BY <2>1
  <2>4. QED
    BY <2>2, <2>3
<1>7. /\ ~ StartRun(s) /\ ~ FetchReturns(s) /\ ~ ReconcileSucceeds(s) /\ ~ PlanUpdates(s)
      /\ ~ FetchFails(s) /\ ~ ReconcileFails(s) /\ ~ EmptyReconcileFails(s)
      /\ ~ ApplyThrows(s) /\ ~ CompleteRun(s) /\ ~ Crash(s)
      /\ ~ \E k \in Keys : RetireCi(s, k)
  BY <1>1 DEF StartRun, FetchReturns, ReconcileSucceeds, PlanUpdates, FetchFails, ReconcileFails,
              EmptyReconcileFails, ApplyThrows, CompleteRun, Crash, RetireCi, tableVars
<1>8. QED
  BY <1>3, <1>4, <1>5, <1>6, <1>7 DEF Run

\* Runs that do not overlap and whose writes go through: when the only row of
\* a resource is retired, the latest observations, as many as the threshold
\* asks for, all missed the resource, whatever the lists repeat.
THEOREM MissesThatRetireAreConsecutive ==
    ASSUME Serialized, PlansAreCarriedOut
    PROVE  Spec => RetiresAfterConsecutiveMisses
<1> DEFINE Consecutive ==
        \A r \in RowsOf(rows) :
          (/\ rows[r].status # "retired" /\ rows'[r].status = "retired"
           /\ RowsFor(rows, rows[r].key) = {r})
              => absences[rows[r].key] >= EffectiveThreshold
<1>1. Init => PlanIsCurrent
  BY InitPlanIsCurrent
<1>2. Init => MissesAreConsecutive
  <2> SUFFICES ASSUME Init PROVE MissesAreConsecutive
    OBVIOUS
  <2>1. RowsOf(rows) = {}
    BY DEF Init, RowsOf
  <2>2. \A s \in Syncers : toTransition[s] = {}
    BY DEF Init
  <2>3. QED
    BY <2>1, <2>2, SoleRowsAreRows DEF MissesAreConsecutive
<1>3. RunInv /\ PlanIsCurrent /\ [Next]_vars => PlanIsCurrent'
  BY NextPlanIsCurrent
<1>4. RunInv /\ PlanIsCurrent /\ MissesAreConsecutive /\ [Next]_vars => MissesAreConsecutive'
  BY NextMissesAreConsecutive
<1>5. RunInv /\ MissesAreConsecutive /\ [Next]_vars => [Consecutive]_vars
  <2> SUFFICES ASSUME RunInv, MissesAreConsecutive, [Next]_vars, NEW r \in RowsOf(rows),
                      rows[r].status # "retired", rows'[r].status = "retired",
                      RowsFor(rows, rows[r].key) = {r}
               PROVE  absences[rows[r].key] >= EffectiveThreshold
    OBVIOUS
  <2>0. PICK s \in Syncers : \E t \in toTransition[s] : t.row = r /\ t.status = "retired"
    BY RetiringStep
  <2>1. PICK t \in toTransition[s] : t.row = r /\ t.status = "retired"
    BY <2>0
  <2>2. t.miss >= EffectiveThreshold /\ t.miss \in 0..MissCap
    BY <2>1 DEF RunInv, RetiredIsCounted, TypeInv, TypeOK, Transitions
  <2>3. t.miss <= absences[rows[r].key]
    BY <2>1 DEF MissesAreConsecutive, SoleRows
  <2>4. QED
    BY <2>2, <2>3, CountFacts, ThresholdRange
<1>6. Spec => []RunInv
  BY AlwaysRunInv
<1> HIDE DEF Consecutive
<1>7. Spec => [][Consecutive]_vars
  BY <1>1, <1>2, <1>3, <1>4, <1>5, <1>6, PTL DEF Spec
<1>8. QED
  BY <1>7 DEF RetiresAfterConsecutiveMisses, Consecutive

-----------------------------------------------------------------------------
(* Rows do not accumulate, whatever the lists repeat.                      *)

\* The rows of a resource are few, and a run that still has to insert one has
\* found none, or has inserted the first of the two it listed.
FewRows ==
    /\ \A k \in Keys : IsFiniteSet(RowsFor(rows, k))
    /\ RowsDoNotAccumulate
    /\ \A s \in Syncers : \A k \in toInsert[s] :
          \/ RowsFor(rows, k) = {}
          \/ k \in MayRepeat \ repeated[s] /\ Cardinality(RowsFor(rows, k)) <= 1

\* An insert adds one row to those of its resource.
LEMMA InsertAddsRow ==
    ASSUME RunInv, NEW s \in Syncers, NEW k \in Keys, NEW w \in RowIds, ApplyInsert(s, k, w)
    PROVE  /\ RowsFor(rows', k) = RowsFor(rows, k) \cup {w}
           /\ w \notin RowsFor(rows, k)
           /\ \A l \in Keys : l # k => RowsFor(rows', l) = RowsFor(rows, l)
<1>1. /\ RowsOf(rows)' = RowsOf(rows) \cup {w} /\ w \notin RowsOf(rows)
      /\ rows'[w] = FreshRow(k)
      /\ \A r \in RowsOf(rows) : rows'[r] = rows[r]
  BY InsertEffect
<1>2. QED
  BY <1>1 DEF RowsFor, FreshRow

LEMMA InsertKeepsFewRows ==
    ASSUME Serialized, RunInv, FewRows, NEW s \in Syncers,
           NEW k \in Keys, NEW w \in RowIds, ApplyInsert(s, k, w)
    PROVE  FewRows'
<1>0. \A q \in Syncers : q = s
  BY DEF Serialized
<1>1. /\ RowsFor(rows', k) = RowsFor(rows, k) \cup {w} /\ w \notin RowsFor(rows, k)
      /\ \A l \in Keys : l # k => RowsFor(rows', l) = RowsFor(rows, l)
  BY InsertAddsRow
<1>2. IsFiniteSet(RowsFor(rows, k)) /\ Cardinality(RowsFor(rows, k)) \in Nat
  BY FS_CardinalityType DEF FewRows
<1>3. /\ IsFiniteSet(RowsFor(rows', k))
      /\ Cardinality(RowsFor(rows', k)) = Cardinality(RowsFor(rows, k)) + 1
  BY <1>1, <1>2, FS_AddElement
<1>4. /\ k \in toInsert[s]
      /\ IF k \in repeated[s]
         THEN repeated'[s] = repeated[s] \ {k} /\ toInsert'[s] = toInsert[s]
         ELSE repeated'[s] = repeated[s] /\ toInsert'[s] = toInsert[s] \ {k}
  BY DEF ApplyInsert, RunInv, TypeInv, TypeOK
<1>5. repeated[s] \subseteq MayRepeat
  BY DEF RunInv, TypeInv, TypeOK
<1>6. RowsFor(rows, k) = {} => Cardinality(RowsFor(rows, k)) = 0
  BY FS_EmptySet
<1>7. /\ Cardinality(RowsFor(rows', k)) <= IF k \in MayRepeat THEN 2 ELSE 1
      /\ k \in repeated[s] => Cardinality(RowsFor(rows', k)) <= 1
  BY <1>2, <1>3, <1>4, <1>6 DEF FewRows
<1>8. \A l \in Keys : IsFiniteSet(RowsFor(rows', l))
  BY <1>1, <1>3 DEF FewRows
<1>9. RowsDoNotAccumulate'
  BY <1>1, <1>7 DEF FewRows, RowsDoNotAccumulate
<1>10. ASSUME NEW l \in toInsert'[s]
       PROVE  \/ RowsFor(rows', l) = {}
              \/ l \in MayRepeat \ repeated'[s] /\ Cardinality(RowsFor(rows', l)) <= 1
  <2>1. CASE l = k
    BY <1>4, <1>5, <1>7, <1>10, <2>1
  <2>2. CASE l # k
    <3>1. l \in toInsert[s] /\ l \in Keys
      BY <1>4, <1>10 DEF RunInv, TypeInv, TypeOK
    <3>2. RowsFor(rows', l) = RowsFor(rows, l) /\ repeated'[s] \subseteq repeated[s]
      BY <1>1, <1>4, <2>2, <3>1
    <3>3. QED
      BY <3>1, <3>2 DEF FewRows
  <2>3. QED
    BY <2>1, <2>2
<1>11. QED
  BY <1>0, <1>8, <1>9, <1>10 DEF FewRows

LEMMA NextFewRows ==
    ASSUME Serialized
    PROVE  RunInv /\ FewRows /\ [Next]_vars => FewRows'
<1> SUFFICES ASSUME RunInv, FewRows, [Next]_vars PROVE FewRows'
  OBVIOUS
\* The rows stay those they are, and nothing is added to the plan.
<1>1. ASSUME \A k \in Keys : RowsFor(rows', k) = RowsFor(rows, k),
             \A s \in Syncers : toInsert'[s] # {} =>
                 toInsert'[s] \subseteq toInsert[s] /\ repeated'[s] = repeated[s]
      PROVE  FewRows'
  <2>1. \A k \in Keys : IsFiniteSet(RowsFor(rows', k))
    BY <1>1 DEF FewRows
  <2>2. RowsDoNotAccumulate'
    BY <1>1 DEF FewRows, RowsDoNotAccumulate
  <2>3. ASSUME NEW s \in Syncers, NEW k \in toInsert'[s]
        PROVE  \/ RowsFor(rows', k) = {}
               \/ k \in MayRepeat \ repeated'[s] /\ Cardinality(RowsFor(rows', k)) <= 1
    <3>1. k \in toInsert[s] /\ repeated'[s] = repeated[s] /\ k \in Keys
      BY <1>1, <2>3 DEF RunInv, TypeInv, TypeOK
    <3>2. RowsFor(rows', k) = RowsFor(rows, k)
      BY <1>1, <3>1
    <3>3. QED
      BY <3>1, <3>2 DEF FewRows
  <2>4. QED
    BY <2>1, <2>2, <2>3 DEF FewRows
<1>2. ASSUME NEW s \in Syncers, Run(s)
      PROVE  FewRows'
  <2>0. \A q \in Syncers : q = s
    BY DEF Serialized
  <2>1. ASSUME NEW k \in Keys, NEW w \in RowIds, ApplyInsert(s, k, w)
        PROVE  FewRows'
    BY <2>1, InsertKeepsFewRows
  <2>2. ASSUME NEW w \in RowIds, ApplyRefresh(s, w)
        PROVE  FewRows'
    <3>0. /\ RowsOf(rows)' = RowsOf(rows) /\ toInsert' = toInsert
          /\ rows'[w] = FreshRow(rows[w].key)
          /\ \A r \in RowsOf(rows) : r # w => rows'[r] = rows[r]
      BY <2>2, RefreshEffect
    <3>1. /\ RowsOf(rows)' = RowsOf(rows) /\ toInsert' = toInsert
          /\ \A r \in RowsOf(rows) : rows'[r].key = rows[r].key
      BY <3>0 DEF FreshRow
    <3>2. repeated' = repeated
      BY <2>2 DEF ApplyRefresh
    <3>3. \A k \in Keys : RowsFor(rows', k) = RowsFor(rows, k)
      BY <3>1 DEF RowsFor
    <3>4. QED
      BY <1>1, <3>1, <3>2, <3>3
  <2>3. ASSUME NEW t \in toTransition[s], ApplyTransition(s, t)
        PROVE  FewRows'
    <3>0. /\ RowsOf(rows)' = RowsOf(rows) /\ toInsert' = toInsert
          /\ rows'[t.row] = [key |-> rows[t.row].key, status |-> t.status, miss |-> t.miss]
          /\ \A r \in RowsOf(rows) : r # t.row => rows'[r] = rows[r]
      BY <2>3, TransitionEffect
    <3>1. /\ RowsOf(rows)' = RowsOf(rows) /\ toInsert' = toInsert
          /\ \A r \in RowsOf(rows) : rows'[r].key = rows[r].key
      BY <3>0
    <3>2. repeated' = repeated
      BY <2>3 DEF ApplyTransition
    <3>3. \A k \in Keys : RowsFor(rows', k) = RowsFor(rows, k)
      BY <3>1 DEF RowsFor
    <3>4. QED
      BY <1>1, <3>1, <3>2, <3>3
  <2>4. CASE PlanUpdates(s)
    <3>1. rows' = rows /\ toInsert'[s] = ToInsert(seen[s], rows)
      BY <2>4 DEF PlanUpdates, tableVars, RunInv, TypeInv, TypeOK
    <3>2. \A k \in toInsert'[s] : RowsFor(rows', k) = {}
      BY <3>1 DEF ToInsert, KeysOf, RowsFor
    <3>3. RowsDoNotAccumulate' /\ \A k \in Keys : IsFiniteSet(RowsFor(rows', k))
      BY <3>1 DEF FewRows, RowsDoNotAccumulate
    <3>4. QED
      BY <2>0, <3>2, <3>3 DEF FewRows
  <2>5. CASE \/ FetchFails(s) \/ ReconcileFails(s) \/ EmptyReconcileFails(s)
             \/ ApplyThrows(s) \/ CompleteRun(s) \/ Crash(s)
    <3>1. rows' = rows /\ toInsert'[s] = {}
      BY <2>5 DEF FetchFails, ReconcileFails, EmptyReconcileFails, ApplyThrows, CompleteRun,
                  Crash, FailRun, DropLocals, tableVars, RunInv, TypeInv, TypeOK
    <3>2. QED
      BY <1>1, <2>0, <3>1
  <2>6. CASE FetchReturns(s)
    <3>1. rows' = rows /\ toInsert' = toInsert /\ pc[s] # "applying"
      BY <2>6 DEF FetchReturns, tableVars, planVars
    <3>2. toInsert'[s] = {}
      BY <3>1 DEF RunInv, PlanOnlyWhenApplying
    <3>3. QED
      BY <1>1, <2>0, <3>1, <3>2
  <2>7. CASE StartRun(s) \/ ReconcileSucceeds(s) \/ \E k \in Keys : RetireCi(s, k)
    <3>1. UNCHANGED <<rows, toInsert, repeated>>
      BY <2>7 DEF StartRun, ReconcileSucceeds, RetireCi, tableVars, planVars
    <3>2. QED
      BY <1>1, <3>1
  <2>8. QED
    BY <1>2, <2>1, <2>2, <2>3, <2>4, <2>5, <2>6, <2>7 DEF Run
<1>3. CASE CloudChanges \/ UNCHANGED vars
  BY <1>1, <1>3, CloudChangesLeave DEF vars
<1>4. QED
  BY <1>2, <1>3 DEF Next

\* Runs that do not overlap: a resource listed twice gets the two rows of that
\* fetch, every other resource one, and no later run adds to them, whatever
\* fails, dies or is listed twice again.
THEOREM RowsStayFew ==
    ASSUME Serialized
    PROVE  Spec => []RowsDoNotAccumulate
<1>1. Init => FewRows
  <2> SUFFICES ASSUME Init PROVE FewRows
    OBVIOUS
  <2>1. \A k \in Keys : RowsFor(rows, k) = {}
    BY DEF Init, RowsFor, RowsOf
  <2>2. \A k \in Keys : IsFiniteSet(RowsFor(rows, k)) /\ Cardinality(RowsFor(rows, k)) = 0
    BY <2>1, FS_EmptySet
  <2>3. QED
    BY <2>2 DEF Init, FewRows, RowsDoNotAccumulate
<1>2. RunInv /\ FewRows /\ [Next]_vars => FewRows'
  BY NextFewRows
<1>3. FewRows => RowsDoNotAccumulate
  BY DEF FewRows
<1>4. Spec => []RunInv
  BY AlwaysRunInv
<1>5. QED
  BY <1>1, <1>2, <1>3, <1>4, PTL DEF Spec

=============================================================================
