------------------------------ MODULE MCAdapters ------------------------------
\* Adapters with two volumes, servers, threads, VPCs and subnets, one alarm,
\* two users, and the scripts rendered from two orders of the schema directory.
EXTENDS Adapters, Provisioning

CONSTANTS v1, v2

MCSizeOf == [v \in {v1, v2} |-> IF v = v1 THEN 10 ELSE 20]

\* A resource id, a dimension to extract one from, and neither; every form of
\* a time; with a metric and without.
MCShapes == {
    [level |-> "Critical", resourceId |-> "i", resourceName |-> Absent, dimension |-> Absent,
     metric_name |-> "n", form |-> "millis"],
    [level |-> "other", resourceId |-> Absent, resourceName |-> "n",
     dimension |-> [key |-> "instance_id", value |-> "i"], metric_name |-> Absent, form |-> "iso"],
    [level |-> "Minor", resourceId |-> Absent, resourceName |-> Absent,
     dimension |-> [key |-> "other", value |-> "i"], metric_name |-> "n", form |-> "text"],
    [level |-> "Major", resourceId |-> Absent, resourceName |-> "n", dimension |-> Absent,
     metric_name |-> "n", form |-> "none"]}

Alphabetical ==
    <<"hc_cloud_account", "hc_cloud_region", "hc_connector_config", "hc_day2_action_log",
      "hc_discovery_run", "hc_event_ingestion_record", "hc_resource_sync_state">>
MCListings == {Alphabetical, Reverse(Alphabetical)}

\* What the theorems about the order of provisioning assume of the scripts.
ASSUME RenderedTablesFirst == \A s \in Scripts : TablesFirst(s)

=============================================================================
