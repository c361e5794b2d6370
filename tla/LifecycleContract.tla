-------------------------- MODULE LifecycleContract --------------------------
(***************************************************************************)
(* What the sync of one (account, region, resource type) promises about    *)
(* each resource's record, without rows, runs or writes.                   *)
(*                                                                         *)
(* An observation is one complete look at the cloud: a fetch that returned *)
(* every page and was reconciled without an error. It settles each record  *)
(* at most once: the record of a resource it sighted is made fresh, the    *)
(* record of one it did not sight ages by one miss. A run may be abandoned *)
(* before it settled everything; what it did not settle is left alone.     *)
(* Nothing else ever moves a record.                                       *)
(***************************************************************************)
EXTENDS ResourceLifecycle

CONSTANTS Keys, NoRecord

VARIABLES
    records,   \* [Keys -> Lifecycle \cup {NoRecord}]
    sighted,   \* what the current observation saw
    due        \* the resources it has not settled yet

vars == <<records, sighted, due>>

Init ==
    /\ records = [k \in Keys |-> NoRecord]
    /\ sighted = {}
    /\ due = {}

Observe(S) ==
    /\ sighted' = S
    /\ due' = Keys
    /\ UNCHANGED records

Confirm(k) ==
    /\ k \in due \cap sighted
    /\ records' = [records EXCEPT ![k] = FreshLifecycle]
    /\ due' = due \ {k}
    /\ UNCHANGED sighted

Age(k) ==
    /\ k \in due \ sighted
    /\ records[k] # NoRecord
    /\ records' = [records EXCEPT ![k] = ComputeNextState(@, FALSE)]
    /\ due' = due \ {k}
    /\ UNCHANGED sighted

\* Nobody is left to settle a resource that has no record and was not seen.
Dismiss(D) ==
    /\ D = {k \in due \ sighted : records[k] = NoRecord}
    /\ due' = due \ D
    /\ UNCHANGED <<records, sighted>>

Close ==
    /\ sighted' = {}
    /\ due' = {}
    /\ UNCHANGED records

Next ==
    \/ \E S \in SUBSET Keys : Observe(S)
    \/ \E k \in Keys : Confirm(k) \/ Age(k)
    \/ \E D \in SUBSET Keys : Dismiss(D)
    \/ Close

Spec == Init /\ [][Next]_vars

=============================================================================
