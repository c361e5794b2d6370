------------------------------- MODULE Adapters -------------------------------
(***************************************************************************)
(* Five components that share nothing with the rest: the disk fields of    *)
(* ECS CIs, alarm events, the password-authenticated fetch, the VPC fetch  *)
(* and the provisioning script. One of them moves in each behaviour; the   *)
(* others rest in a state they may start in.                               *)
(***************************************************************************)
EXTENDS DiskFields, AlarmEvents, TokenFetch, NetworkFetch, ProvisionScript

VARIABLE part

vars == <<part, diskVars, alarmVars, tokenVars, networkVars, provisionVars>>

Init ==
    /\ part \in {"disks", "alarms", "token", "network", "tables"}
    /\ DiskInit /\ AlarmInit /\ TokenInit /\ NetworkInit
    /\ IF part = "tables" THEN ProvisionInit
       ELSE script = <<>> /\ next = 0 /\ missing = FALSE /\ rows = <<>> /\ finished = FALSE
    /\ part # "alarms" => authorized /\ \A a \in Alarms : shape[a].level = "Critical"

Next ==
    /\ part' = part
    /\ \/ /\ part = "disks" /\ DiskNext
          /\ UNCHANGED <<alarmVars, tokenVars, networkVars, provisionVars>>
       \/ /\ part = "alarms" /\ AlarmNext
          /\ UNCHANGED <<diskVars, tokenVars, networkVars, provisionVars>>
       \/ /\ part = "token" /\ TokenNext
          /\ UNCHANGED <<diskVars, alarmVars, networkVars, provisionVars>>
       \/ /\ part = "network" /\ NetworkNext
          /\ UNCHANGED <<diskVars, alarmVars, tokenVars, provisionVars>>
       \/ /\ part = "tables" /\ ProvisionNext
          /\ UNCHANGED <<diskVars, alarmVars, tokenVars, networkVars>>

\* What rests in its initial state has nothing to be fair about.
Fairness == DiskFairness /\ AlarmFairness /\ TokenFairness

Spec == Init /\ [][Next]_vars /\ Fairness

\* The type invariants of the five components.
AdaptersTypeOK ==
    DiskTypeOK /\ AlarmTypeOK /\ TokenTypeOK /\ NetworkTypeOK /\ ProvisionTypeOK

=============================================================================
