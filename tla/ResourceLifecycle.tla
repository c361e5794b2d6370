-------------------------- MODULE ResourceLifecycle --------------------------
(***************************************************************************)
(* The retirement rule of one HC Resource Sync State row                   *)
(* (lib/resourceLifecycle.js): a resource that a full sync sees is active  *)
(* with no misses; one it does not see counts a miss, waits in             *)
(* pending_retire and is retired when the configured number of             *)
(* consecutive misses is reached.                                          *)
(*                                                                         *)
(* Miss counters saturate at MissCap (a bound of the model: the code keeps *)
(* counting on retired rows for audit and compares the counter with the    *)
(* threshold only, so every value from the threshold up behaves alike).    *)
(***************************************************************************)
EXTENDS Integers

CONSTANTS
    Threshold,   \* consecutive_miss_threshold as configured (Unset: no row)
    Unset,       \* the configuration row is missing or not a number
    MissCap      \* bound: where the model's miss counters saturate

Status == {"active", "pending_retire", "retired"}

\* The threshold computeNextState works with: the default 2 when nothing is
\* configured, never below 1.
EffectiveThreshold ==
    IF Threshold = Unset THEN 2
    ELSE IF Threshold < 1 THEN 1
    ELSE Threshold

ASSUME ThresholdAssumption == Threshold = Unset \/ Threshold \in Int
ASSUME MissCapAssumption == MissCap \in Nat /\ MissCap >= EffectiveThreshold

Saturate(n) == IF n > MissCap THEN MissCap ELSE n

\* A sync-state row as far as the rule reads and writes it.
Lifecycle == [status : Status, miss : 0..MissCap]

FreshLifecycle == [status |-> "active", miss |-> 0]

\* The outcome of a miss: retired rows stay retired and keep counting.
AfterMiss(cur) ==
    [status |-> IF \/ cur.status = "retired"
                   \/ cur.miss + 1 >= EffectiveThreshold
                THEN "retired" ELSE "pending_retire",
     miss   |-> Saturate(cur.miss + 1)]

\* computeNextState: `seen` says whether the resource was in this full sync.
ComputeNextState(cur, seenThisRun) ==
    IF seenThisRun THEN FreshLifecycle ELSE AfterMiss(cur)

=============================================================================
