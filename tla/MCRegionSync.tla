----------------------------- MODULE MCRegionSync -----------------------------
(***************************************************************************)
(* A finite instance of RegionSync: one account with credentials, one      *)
(* without, a region each; the scheduled job beside an administrator who   *)
(* runs the EVS orchestrator by hand. The first region may have VPCs; it   *)
(* has no volumes, so that the administrator's run fails there each time   *)
(* where the job's may succeed.                                            *)
(***************************************************************************)
EXTENDS RegionSync

CONSTANTS good, bad, job, admin

TwoRegions == {"r1", "r2"}
VpcsOnly == {<<"r1", "vpc">>}
OneEach == [r \in TwoRegions |-> IF r = "r1" THEN good ELSE bad]
JobAndAdmin ==
    [t \in Threads |-> IF t = job THEN hc_connector_scheduled_sync ELSE <<HcConnectorEvsSync>>]

=============================================================================
