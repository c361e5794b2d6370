------------------------------ MODULE DiskFields ------------------------------
(***************************************************************************)
(* The disk fields of ECS CIs. A volume has no relation to the server it   *)
(* is attached to; each EVS run sums up the volumes it fetched by server   *)
(* (lib/diskAggregation.js) and writes the sums to the servers' CIs, one   *)
(* after the other, skipping the servers whose CI the ECS sync has not     *)
(* created yet.                                                            *)
(***************************************************************************)
EXTENDS Naturals, FiniteSets, Sequences

CONSTANTS
    Volumes,
    Servers,
    SizeOf,     \* GB of each volume
    Writers,    \* threads that run the EVS orchestrator
    NoDisks,    \* the fields of a CI nobody has written
    MaxShared   \* bound: servers a (shareable) volume is attached to

ASSUME DiskAssumption ==
    /\ IsFiniteSet(Volumes)
    /\ SizeOf \in [Volumes -> Nat]

VARIABLES
    attachments, \* Huawei Cloud: each volume's list of servers
    serverCis,   \* servers that have a cmdb_ci_vm_instance
    disks,       \* the disk fields of those CIs
    sums         \* each writer: the sums it has still to write

diskVars == <<attachments, serverCis, disks, sums>>

DiskInit ==
    /\ attachments = [v \in Volumes |-> <<>>]
    /\ serverCis = {}
    /\ disks = [s \in Servers |-> NoDisks]
    /\ sums = [w \in Writers |-> <<>>]

-----------------------------------------------------------------------------
Attach(v, s) ==
    /\ Len(attachments[v]) < MaxShared
    /\ \A i \in 1..Len(attachments[v]) : attachments[v][i] # s
    /\ attachments' = [attachments EXCEPT ![v] = Append(@, s)]
    /\ UNCHANGED <<serverCis, disks, sums>>

Detach(v) ==
    /\ attachments[v] # <<>>
    /\ attachments' = [attachments EXCEPT ![v] = Tail(@)]
    /\ UNCHANGED <<serverCis, disks, sums>>

\* The ECS sync creates the CI.
CreateServerCi(s) ==
    /\ s \notin serverCis
    /\ serverCis' = serverCis \cup {s}
    /\ UNCHANGED <<attachments, disks, sums>>

-----------------------------------------------------------------------------
(* aggregateDisksByServer: a volume counts for its first attachment only.  *)

AttachedTo(s) == {v \in Volumes : attachments[v] # <<>> /\ Head(attachments[v]) = s}

SizeSum[V \in SUBSET Volumes] ==
    IF V = {} THEN 0 ELSE LET v == CHOOSE x \in V : TRUE IN SizeOf[v] + SizeSum[V \ {v}]

Aggregated(V) == [count |-> Cardinality(V), totalSize |-> SizeSum[V]]

AggregateDisksByServer == [s \in {x \in Servers : AttachedTo(x) # {}} |-> Aggregated(AttachedTo(s))]

-----------------------------------------------------------------------------
(* One EVS run, from the answer of the fetch to the last write.            *)

\* The volumes are fetched and reconciled; nothing is fetched again later.
VolumesFetched(w) ==
    /\ sums[w] = <<>>
    /\ sums' = [sums EXCEPT ![w] = AggregateDisksByServer]
    /\ UNCHANGED <<attachments, serverCis, disks>>

Written(w, s) ==
    sums' = [sums EXCEPT ![w] = [x \in DOMAIN @ \ {s} |-> @[x]]]

\* Mutant: the sums are added to what the CI has.
UpdateEcsDiskFieldsAdding(w, s) ==
    /\ s \in DOMAIN sums[w]
    /\ Written(w, s)
    /\ IF s \in serverCis
       THEN disks' = [disks EXCEPT ![s] =
                IF @ = NoDisks THEN sums[w][s]
                ELSE [@ EXCEPT !.count = (@ + sums[w][s].count) % 3]]
       ELSE UNCHANGED disks
    /\ UNCHANGED <<attachments, serverCis>>

\* _updateEcsDiskFields, one server. The order of the keys is immaterial.
UpdateEcsDiskFields(w, s) ==
    /\ s \in DOMAIN sums[w]
    /\ Written(w, s)
    /\ IF s \in serverCis
       THEN disks' = [disks EXCEPT ![s] = sums[w][s]]
       ELSE UNCHANGED disks
    /\ UNCHANGED <<attachments, serverCis>>

\* A write throws, or the thread dies: the rest of the servers is left.
UpdateThrows(w) ==
    /\ sums[w] # <<>>
    /\ sums' = [sums EXCEPT ![w] = <<>>]
    /\ UNCHANGED <<attachments, serverCis, disks>>

Write(w) == \E s \in Servers : UpdateEcsDiskFields(w, s)

DiskNext ==
    \/ \E v \in Volumes : Detach(v) \/ \E s \in Servers : Attach(v, s)
    \/ \E s \in Servers : CreateServerCi(s)
    \/ \E w \in Writers : VolumesFetched(w) \/ Write(w) \/ UpdateThrows(w)

DiskSpec == DiskInit /\ [][DiskNext]_diskVars

\* Writes that some run has to make again and again are made now and then: a
\* run that has started goes on, and not every write throws. No job runs the
\* EVS orchestrator, and nobody is obliged to.
DiskFairness == \A s \in Servers : SF_diskVars(\E w \in Writers : UpdateEcsDiskFields(w, s))

-----------------------------------------------------------------------------
(* Properties.                                                             *)

Sums == {Aggregated(V) : V \in (SUBSET Volumes) \ {{}}}

\* The fields of a CI are unwritten or the sums of some volumes, of one at
\* least: after the last detachment they keep the last sums, for no run has a
\* sum for that server.
DiskTypeOK ==
    /\ attachments \in [Volumes -> Seq(Servers)]
    /\ serverCis \subseteq Servers
    /\ \A s \in Servers : disks[s] # NoDisks => s \in serverCis /\ disks[s] \in Sums
    /\ \A w \in Writers : \A s \in DOMAIN sums[w] : s \in Servers /\ sums[w][s] \in Sums

\* "Skips any server_id with no matching CI yet - self-heals on a later run
\* once ECS Discovery has created it": the fields of a server that keeps its
\* volumes (one at least) and has a CI become the sums of its volumes and
\* stay so, although overlapping runs write sums of different age - if
\* somebody keeps running the EVS orchestrator.
DisksSettle ==
    \A s \in Servers :
        (/\ <>[](s \in serverCis /\ AttachedTo(s) # {})
         /\ <>[][AttachedTo(s)' = AttachedTo(s)]_diskVars
         /\ []<>(\E w \in Writers : sums[w] # <<>>))
            => <>[](disks[s] = Aggregated(AttachedTo(s)))

=============================================================================
