----------------------------- MODULE IrePayload -----------------------------
(***************************************************************************)
(* What the discovery classes hand to the Identification and               *)
(* Reconciliation Engine: items, and relations that refer to items by      *)
(* index. An item stands for its class and its identity; the other fields  *)
(* are copied one by one. Indexes start at 1 here; the relations are a     *)
(* set, for their order means nothing. Each class repeats the mapping of a *)
(* tested module under lib/ ("keep both in sync").                         *)
(***************************************************************************)
EXTENDS Naturals, Sequences, FiniteSets

CONSTANTS
    AccountId, Region, \* identities of the placeholders
    None               \* the server has no flavor in the answer

Item(className, id) == [className |-> className, id |-> id]
ItemsOf(className, ids) == [i \in 1..Len(ids) |-> Item(className, ids[i])]

Hosting(dependent, host) == [parent |-> dependent, child |-> host, type |-> "Hosted on::Hosts"]

Containment(container, contained) ==
    [parent |-> container, child |-> contained, type |-> "Contains::Contained by"]
Ownership(owner, owned) == [parent |-> owner, child |-> owned, type |-> "Owns::Owned by"]
RunsOn(host, vm) == [parent |-> host, child |-> vm, type |-> "Runs on::Runs"]

\* The account and its data center, which is hosted on the account.
Placeholders ==
    <<Item("cmdb_ci_cloud_service_account", AccountId), Item("cmdb_ci_logical_datacenter", Region)>>
VirtualizationServer == Item("cmdb_ci_virtualization_server", Region)

NoPayload == [items |-> <<>>, relations |-> {}]

-----------------------------------------------------------------------------
(* Resources that are hosted in the data center, one type per payload.     *)

HostedPayload(className, ids) ==
    IF ids = <<>> THEN NoPayload
    ELSE [items     |-> Placeholders \o ItemsOf(className, ids),
          relations |-> {Hosting(2, 1)} \cup {Hosting(i + 2, 2) : i \in 1..Len(ids)}]

mapEvsToIRE(volumes) == HostedPayload("cmdb_ci_storage_volume", volumes)
mapElbToIRE(loadBalancers) == HostedPayload("cmdb_ci_cloud_load_balancer", loadBalancers)
mapRdsToIRE(instances) == HostedPayload("cmdb_ci_cloud_database", instances)

\* Classes of this application: nothing contains them.
FreePayload(className, ids) == [items |-> ItemsOf(className, ids), relations |-> {}]

mapCceToIRE(clusters) == FreePayload("huawei_cloud_cce_cluster", clusters)
mapObsToIRE(buckets) == FreePayload("huawei_cloud_obs_bucket", buckets)

\* The tested ECS mapping makes the items only.
mapEcsToIRE(servers) ==
    FreePayload("cmdb_ci_vm_instance", [i \in 1..Len(servers) |-> servers[i].id])

\* One lookup per flavor; a flavor whose lookup fails is left out.
BuildFlavorLookup(servers, failing) ==
    {servers[i].flavor : i \in 1..Len(servers)} \ (failing \cup {None})

-----------------------------------------------------------------------------
(* reconcileCIs of the classes that reconcile one type. Nothing is sent    *)
(* for an empty list.                                                      *)

HuaweiEvsReconcile(volumes) == mapEvsToIRE(volumes)
HuaweiElbReconcile(loadBalancers) == mapElbToIRE(loadBalancers)
HuaweiRdsReconcile(instances) == mapRdsToIRE(instances)
HuaweiCceReconcile(clusters) == mapCceToIRE(clusters)
HuaweiObsReconcile(buckets) == mapObsToIRE(buckets)

\* The servers run on one placeholder. CPUs and memory are set where the
\* lookup of the flavor succeeded.
HuaweiEcsReconcile(servers, failing) ==
    IF servers = <<>> THEN NoPayload
    ELSE [items     |-> <<VirtualizationServer>> \o mapEcsToIRE(servers).items,
          relations |-> {RunsOn(1, i + 1) : i \in 1..Len(servers)},
          sized     |-> {i + 1 : i \in {j \in 1..Len(servers) :
                             servers[j].flavor \in BuildFlavorLookup(servers, failing)}}]

-----------------------------------------------------------------------------
(* VPCs, subnets, security groups and EIPs: the tested parts.              *)

\* Mutant: the index left behind by the loop over the VPCs.
LastVpcIndex(vpcs, id) == Len(vpcs)

\* vpcIndexById: of a VPC listed twice the second counts; 0 for none.
VpcIndex(vpcs, id) ==
    LET places == {i \in 1..Len(vpcs) : vpcs[i] = id}
    IN  IF places = {} THEN 0 ELSE CHOOSE i \in places : \A j \in places : j <= i

IdsOf(list) == [i \in 1..Len(list) |-> list[i].id]
Matched(vpcs, subnets) == {j \in 1..Len(subnets) : VpcIndex(vpcs, subnets[j].vpc_id) # 0}

mapVpcSubnetToIRE(vpcs, subnets) ==
    LET head == IF vpcs = <<>> THEN <<>> ELSE Placeholders
        v0 == Len(head)
        s0 == v0 + Len(vpcs)
    IN  [items |-> head \o ItemsOf("cmdb_ci_network", vpcs)
                        \o ItemsOf("cmdb_ci_cloud_subnet", IdsOf(subnets)),
         relations |-> (IF vpcs = <<>> THEN {} ELSE {Hosting(2, 1)})
            \cup {Hosting(v0 + i, 2) : i \in 1..Len(vpcs)}
            \cup {Containment(v0 + VpcIndex(vpcs, subnets[j].vpc_id), s0 + j) :
                      j \in Matched(vpcs, subnets)}]

\* The group's index is that in its own part, the data center's the caller's.
mapSecurityGroupToIRE(groups, datacenterIndex) ==
    [items     |-> ItemsOf("cmdb_ci_compute_security_group", groups),
     relations |-> IF datacenterIndex = 0 THEN {}
                   ELSE {Hosting(k, datacenterIndex) : k \in 1..Len(groups)}]

\* Mutant: the index of an address is taken before it is pushed.
mapEipToIREBeforePush(eips) ==
    IF eips = <<>> THEN NoPayload
    ELSE [items     |-> <<VirtualizationServer>> \o ItemsOf("cmdb_ci_ip_address", eips),
          relations |-> {Ownership(1, m) : m \in 1..Len(eips)}]

mapEipToIRE(eips) ==
    IF eips = <<>> THEN NoPayload
    ELSE [items     |-> <<VirtualizationServer>> \o ItemsOf("cmdb_ci_ip_address", eips),
          relations |-> {Ownership(1, m + 1) : m \in 1..Len(eips)}]

Moved(r, p, c) == [parent |-> r.parent + p, child |-> r.child + c, type |-> r.type]

\* The parts as one payload, every index moved to where its item is.
Combined(vpcs, subnets, groups, eips) ==
    LET network == mapVpcSubnetToIRE(vpcs, subnets)
        g0 == Len(network.items)
        e0 == g0 + Len(groups)
        dc == IF vpcs = <<>> THEN 0 ELSE 2
        group == mapSecurityGroupToIRE(groups, dc)
        eip == mapEipToIRE(eips)
    IN  [items |-> network.items \o group.items \o eip.items,
         relations |-> network.relations
            \cup {Moved(r, g0, 0) : r \in group.relations}
            \cup {Moved(r, e0, e0) : r \in eip.relations}]

-----------------------------------------------------------------------------
(* ... and reconcileCIs of HuaweiVpcDiscovery, all four at once.           *)

\* Mutant: no placeholders without a VPC, as in the tested part.
PlaceholdersOfVpcs(vpcs, groups) == IF vpcs = <<>> THEN <<>> ELSE Placeholders

PlaceholdersOf(vpcs, groups) ==
    IF vpcs = <<>> /\ groups = <<>> THEN <<>> ELSE Placeholders

HuaweiVpcReconcile(vpcs, subnets, groups, eips) ==
    LET head == PlaceholdersOf(vpcs, groups)
        v0 == Len(head)
        s0 == v0 + Len(vpcs)
        g0 == s0 + Len(subnets)
        stub == g0 + Len(groups) + 1
    IN  [items |-> head \o ItemsOf("cmdb_ci_network", vpcs)
                        \o ItemsOf("cmdb_ci_cloud_subnet", IdsOf(subnets))
                        \o ItemsOf("cmdb_ci_compute_security_group", groups)
                        \o (IF eips = <<>> THEN <<>> ELSE <<VirtualizationServer>>)
                        \o ItemsOf("cmdb_ci_ip_address", eips),
         relations |-> (IF head = <<>> THEN {} ELSE {Hosting(2, 1)})
            \cup {Hosting(v0 + i, 2) : i \in 1..Len(vpcs)}
            \cup {Containment(v0 + VpcIndex(vpcs, subnets[j].vpc_id), s0 + j) :
                      j \in Matched(vpcs, subnets)}
            \cup (IF head = <<>> THEN {} ELSE {Hosting(g0 + k, 2) : k \in 1..Len(groups)})
            \cup {Ownership(stub, stub + m) : m \in 1..Len(eips)}]

-----------------------------------------------------------------------------
(* What the engine demands (MISSING_DEPENDENCY otherwise).                 *)

\* The class an item of each class needs a relation to, and the relation.
Host(className) ==
    CASE className = "cmdb_ci_logical_datacenter" -> "cmdb_ci_cloud_service_account"
      [] OTHER -> "cmdb_ci_logical_datacenter"

Demands(className) ==
    CASE className = "cmdb_ci_cloud_subnet" -> "Contains::Contained by"
      [] className = "cmdb_ci_vm_instance" -> "Runs on::Runs"
      [] className = "cmdb_ci_ip_address" -> "Owns::Owned by"
      [] className \in {"cmdb_ci_cloud_service_account", "cmdb_ci_virtualization_server",
                        "huawei_cloud_cce_cluster", "huawei_cloud_obs_bucket"} -> "nothing"
      [] OTHER -> "Hosted on::Hosts"

Satisfied(payload, i) ==
    LET ClassOf(j) == payload.items[j].className
        demand == Demands(ClassOf(i))
        provider == IF demand = "Contains::Contained by" THEN "cmdb_ci_network"
                    ELSE "cmdb_ci_virtualization_server"
    IN  CASE demand = "nothing" -> TRUE
          [] demand = "Hosted on::Hosts" ->
               \E r \in payload.relations :
                   r.type = demand /\ r.parent = i /\ ClassOf(r.child) = Host(ClassOf(i))
          [] OTHER ->
               \E r \in payload.relations :
                   r.type = demand /\ r.child = i /\ ClassOf(r.parent) = provider

\* Every relation is between two items of the payload.
WellFormed(payload) ==
    \A r \in payload.relations : {r.parent, r.child} \subseteq 1..Len(payload.items)

Complete(payload) ==
    WellFormed(payload) /\ \A i \in 1..Len(payload.items) : Satisfied(payload, i)

=============================================================================
