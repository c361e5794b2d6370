---------------------------- MODULE NetworkFetch ----------------------------
(***************************************************************************)
(* The VPC orchestrator fetches VPCs, subnets, security groups and EIPs    *)
(* one list after the other while the network changes, and reconciles them *)
(* as one payload whose relations tie the lists together. What a list is   *)
(* made of is PageFetch, the payload IrePayload; here a list is what       *)
(* exists when it is fetched, in any order.                                *)
(***************************************************************************)
EXTENDS IrePayload

CONSTANTS
    Vpcs,
    Subnets

ASSUME NetworkAssumption ==
    /\ IsFiniteSet(Vpcs)
    /\ IsFiniteSet(Subnets)
    /\ None \notin Vpcs

VARIABLES
    existing, \* VPCs that exist
    vpcOf,    \* the VPC of each subnet; None: there is no such subnet
    stage,    \* how many of the four lists have been fetched
    listed,   \* the lists
    fresh     \* VPCs created since the fetch began

networkVars == <<existing, vpcOf, stage, listed, fresh>>

NoLists == [vpcs |-> <<>>, subnets |-> <<>>, groups |-> <<>>, eips |-> <<>>]

NetworkInit ==
    /\ existing = {}
    /\ vpcOf = [s \in Subnets |-> None]
    /\ stage = 0
    /\ listed = NoLists
    /\ fresh = {}

ListsOf(S) ==
    {list \in [1..Cardinality(S) -> S] : \A i, j \in 1..Cardinality(S) : list[i] = list[j] => i = j}

-----------------------------------------------------------------------------
(* The network. A VPC is deleted after its subnets.                        *)

CreateVpc(v) ==
    /\ v \notin existing
    /\ existing' = existing \cup {v}
    /\ fresh' = IF stage = 0 THEN {} ELSE fresh \cup {v}
    /\ UNCHANGED <<vpcOf, stage, listed>>

DeleteVpc(v) ==
    /\ v \in existing
    /\ \A s \in Subnets : vpcOf[s] # v
    /\ existing' = existing \ {v}
    /\ UNCHANGED <<vpcOf, stage, listed, fresh>>

CreateSubnet(s, v) ==
    /\ vpcOf[s] = None
    /\ v \in existing
    /\ vpcOf' = [vpcOf EXCEPT ![s] = v]
    /\ UNCHANGED <<existing, stage, listed, fresh>>

DeleteSubnet(s) ==
    /\ vpcOf[s] # None
    /\ vpcOf' = [vpcOf EXCEPT ![s] = None]
    /\ UNCHANGED <<existing, stage, listed, fresh>>

-----------------------------------------------------------------------------
(* _fetchVpcsSubnetsSecurityGroupsAndEips, _reconcileAndUpsert.            *)

SubnetLists ==
    {[i \in DOMAIN list |-> [id |-> list[i], vpc_id |-> vpcOf[list[i]]]] :
        list \in ListsOf({s \in Subnets : vpcOf[s] # None})}

\* Mutant: subnets first.
FetchVpcs ==
    /\ stage = 0
    /\ \E list \in ListsOf(existing) : listed' = [NoLists EXCEPT !.vpcs = list]
    /\ stage' = 1
    /\ fresh' = {}
    /\ UNCHANGED <<existing, vpcOf>>

FetchSubnets ==
    /\ stage = 1
    /\ \E list \in SubnetLists : listed' = [listed EXCEPT !.subnets = list]
    /\ stage' = 2
    /\ UNCHANGED <<existing, vpcOf, fresh>>

\* Security groups and EIPs are independent of the rest.
FetchSecurityGroups ==
    /\ stage = 2
    /\ \E list \in {<<>>, <<"group">>} : listed' = [listed EXCEPT !.groups = list]
    /\ stage' = 3
    /\ UNCHANGED <<existing, vpcOf, fresh>>

FetchEips ==
    /\ stage = 3
    /\ \E list \in {<<>>, <<"eip 1", "eip 2">>} : listed' = [listed EXCEPT !.eips = list]
    /\ stage' = 4
    /\ UNCHANGED <<existing, vpcOf, fresh>>

Payload == HuaweiVpcReconcile(listed.vpcs, listed.subnets, listed.groups, listed.eips)

\* The payload has gone to the engine; the next run begins.
ReconcileNetwork ==
    /\ stage = 4
    /\ stage' = 0
    /\ UNCHANGED <<existing, vpcOf, listed, fresh>>

NetworkSync == FetchVpcs \/ FetchSubnets \/ FetchSecurityGroups \/ FetchEips \/ ReconcileNetwork

NetworkNext ==
    \/ NetworkSync
    \/ \E v \in Vpcs : CreateVpc(v) \/ DeleteVpc(v) \/ \E s \in Subnets : CreateSubnet(s, v)
    \/ \E s \in Subnets : DeleteSubnet(s)

NetworkSpec == NetworkInit /\ [][NetworkNext]_networkVars

-----------------------------------------------------------------------------
(* Properties.                                                             *)

Unmatched == 1..Len(listed.subnets) \ Matched(listed.vpcs, listed.subnets)

NetworkTypeOK ==
    /\ existing \subseteq Vpcs /\ fresh \subseteq Vpcs
    /\ \A s \in Subnets : vpcOf[s] \in existing \cup {None}
    /\ stage \in 0..4
    /\ listed.vpcs \in Seq(Vpcs) /\ Len(listed.vpcs) <= Cardinality(Vpcs)

\* The other classes' payloads of as many resources as there are subnets.
OthersAreContained ==
    LET ids == IdsOf(listed.subnets)
        servers == [i \in 1..Len(ids) |-> [id |-> ids[i], flavor |-> None]]
    IN  /\ Complete(HuaweiEvsReconcile(ids)) /\ Complete(HuaweiElbReconcile(ids))
        /\ Complete(HuaweiRdsReconcile(ids)) /\ Complete(HuaweiCceReconcile(ids))
        /\ Complete(HuaweiObsReconcile(ids)) /\ Complete(HuaweiEcsReconcile(servers, {}))

\* Whatever combination of lists is empty, the indexes of the relations fit
\* the items and every item is related to what the engine demands for its
\* class - but for the subnets reported as unmatched.
PayloadIsContained ==
    stage = 4 =>
        /\ OthersAreContained
        /\ WellFormed(Payload)
        /\ \A i \in 1..Len(Payload.items) :
              \/ Satisfied(Payload, i)
              \/ \E j \in Unmatched : Payload.items[i] = Item("cmdb_ci_cloud_subnet", listed.subnets[j].id)

\* A subnet is put under the item of its own VPC, unless "a pagination race
\* between the two list calls" hides that VPC: only one that was created
\* during the fetch can leave a subnet unmatched.
SubnetsUnderTheirVpc ==
    stage = 4 =>
        /\ \A j \in Unmatched : listed.subnets[j].vpc_id \in fresh
        /\ \A r \in Payload.relations : r.type = "Contains::Contained by" =>
            \E j \in 1..Len(listed.subnets) :
                /\ Payload.items[r.child] = Item("cmdb_ci_cloud_subnet", listed.subnets[j].id)
                /\ Payload.items[r.parent] = Item("cmdb_ci_network", listed.subnets[j].vpc_id)

\* "Keep both in sync": the class makes the payload of the tested parts put
\* together - except for security groups without any VPC, for which only the
\* class has placeholders.
MirrorOfPartsAgrees ==
    (stage = 4 /\ (listed.vpcs # <<>> \/ listed.groups = <<>>)) =>
        Payload = Combined(listed.vpcs, listed.subnets, listed.groups, listed.eips)

=============================================================================
