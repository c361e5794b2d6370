----------------------------- MODULE Provisioning -----------------------------
(***************************************************************************)
(* The tables of the connector: their schemas, the order in which          *)
(* generate-provision-script.js puts them, and the script it renders. What *)
(* a run of the script does is ProvisionScript. Labels, column types and   *)
(* defaults are left out.                                                  *)
(***************************************************************************)
EXTENDS Naturals, Sequences, SequencesExt

CONSTANT SchemaListings \* orders in which readdirSync may list the schemas

-----------------------------------------------------------------------------
(* Schemas. A field: its name, the connector's table it refers to, if any, *)
(* and its choices.                                                        *)

Columns(names) == [i \in 1..Len(names) |-> [name |-> names[i], ref |-> "", choices |-> <<>>]]
Reference(name, table) == <<[name |-> name, ref |-> table, choices |-> <<>>]>>
Choice(name, values) == <<[name |-> name, ref |-> "", choices |-> values]>>

HcCloudAccount ==
    Columns(<<"account_id", "name", "ou_path">>)
    \o Choice("auth_mode", <<"ak_sk", "agency">>)
    \o Columns(<<"default_region", "agency_name", "external_id", "active">>)

HcCloudRegion ==
    Reference("account", "hc_cloud_account")
    \o Columns(<<"region", "project_id", "sync_enabled", "last_success", "last_error", "active">>)

HcConnectorConfig ==
    Columns(<<"key", "value", "description">>)
    \o Choice("category", <<"lifecycle", "gateway", "discovery", "general">>)

HcDay2ActionLog ==
    Columns(<<"ci">>)
    \o Choice("action", <<"start", "stop", "reboot", "resize", "attach", "detach">>)
    \o Columns(<<"params", "job_id">>)
    \o Choice("status", <<"requested", "running", "success", "fail">>)
    \o Columns(<<"requested_by", "requested_at", "updated_at", "error_message">>)

HcDiscoveryRun ==
    Reference("account", "hc_cloud_account") \o Reference("region", "hc_cloud_region")
    \o Columns(<<"resource_type">>)
    \o Choice("state", <<"running", "completed", "failed">>)
    \o Columns(<<"started", "ended", "success_count", "fail_count", "error_summary",
                 "correlation_id", "trace_id", "dry_run">>)

HcEventIngestionRecord ==
    Columns(<<"event_id">>)
    \o Choice("source", <<"cloud_eye", "cts", "config", "smn">>)
    \o Columns(<<"event_type", "occurred_at">>)
    \o Choice("dedup_status", <<"new", "duplicate">>)
    \o Columns(<<"raw_payload">>)
    \o Choice("processing_result", <<"accepted", "rejected", "error">>)
    \o Columns(<<"correlation_id">>)

HcResourceSyncState ==
    Reference("account", "hc_cloud_account") \o Reference("region", "hc_cloud_region")
    \o Columns(<<"resource_type", "native_key", "ci", "last_seen", "consecutive_miss_count">>)
    \o Choice("status", <<"active", "pending_retire", "retired">>)

FieldsOf == [
    hc_cloud_account |-> HcCloudAccount,
    hc_cloud_region |-> HcCloudRegion,
    hc_connector_config |-> HcConnectorConfig,
    hc_day2_action_log |-> HcDay2ActionLog,
    hc_discovery_run |-> HcDiscoveryRun,
    hc_event_ingestion_record |-> HcEventIngestionRecord,
    hc_resource_sync_state |-> HcResourceSyncState]

TableNames == DOMAIN FieldsOf

ASSUME ListingAssumption == \A l \in SchemaListings : ToSet(l) = TableNames /\ IsInjective(l)

-----------------------------------------------------------------------------
(* loadSchemasInDependencyOrder.                                           *)

RefsOf(t) == [i \in 1..Len(FieldsOf[t]) |-> FieldsOf[t][i].ref]

\* The referenced tables first, in the order of the fields. No table refers
\* to itself, not even through others, so "visited" is "ordered".
RECURSIVE Visit(_, _)
Visit(t, ordered) ==
    IF t \notin TableNames \/ Contains(ordered, t) THEN ordered
    ELSE Append(FoldLeft(LAMBDA o, r : Visit(r, o), ordered, RefsOf(t)), t)

LoadSchemasInDependencyOrder(listing) ==
    FoldLeft(LAMBDA o, t : Visit(t, o), <<>>, listing)

\* A field, then its choices.
RenderField(t, f) ==
    <<[row |-> <<"field", t, f.name>>, ref |-> f.ref]>>
    \o [i \in 1..Len(f.choices) |-> [row |-> <<"choice", t, f.name, f.choices[i]>>, ref |-> ""]]

RenderTable(t) ==
    <<[row |-> <<"table", t>>, ref |-> ""]>>
    \o FlattenSeq([i \in 1..Len(FieldsOf[t]) |-> RenderField(t, FieldsOf[t][i])])

RenderScript(listing) ==
    LET schemas == LoadSchemasInDependencyOrder(listing)
    IN FlattenSeq([i \in 1..Len(schemas) |-> RenderTable(schemas[i])])

\* What provision-hc-connector-tables.js may look like.
RenderedScripts == {RenderScript(l) : l \in SchemaListings}

=============================================================================
