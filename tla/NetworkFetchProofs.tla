-------------------------- MODULE NetworkFetchProofs --------------------------
(***************************************************************************)
(* Theorems about NetworkFetch and the payloads of IrePayload, for any     *)
(* lists - of any length, some of them empty, VPCs listed twice included - *)
(* and for any network that changes while it is fetched.                   *)
(***************************************************************************)
EXTENDS NetworkFetch, FiniteSetTheorems, SequenceTheorems, TLAPS

Classes == {"cmdb_ci_cloud_service_account", "cmdb_ci_logical_datacenter",
            "cmdb_ci_virtualization_server", "cmdb_ci_network", "cmdb_ci_cloud_subnet",
            "cmdb_ci_compute_security_group", "cmdb_ci_ip_address", "cmdb_ci_vm_instance",
            "cmdb_ci_storage_volume", "cmdb_ci_cloud_load_balancer", "cmdb_ci_cloud_database",
            "huawei_cloud_cce_cluster", "huawei_cloud_obs_bucket"}

ItemSet(X) == [className : Classes, id : X \cup {AccountId, Region}]
Listed(X, Y) == [id : X, vpc_id : Y]

-----------------------------------------------------------------------------
(* Sequences and the largest index.                                        *)

\* Kept closed, so that the provers make no longer concatenations.
Joined(u, s, t) == u = s \o t

LEMMA JoinedLists ==
    ASSUME NEW S, NEW s \in Seq(S), NEW t \in Seq(S), NEW u, Joined(u, s, t)
    PROVE  /\ u \in Seq(S)
           /\ Len(s) \in Nat /\ Len(t) \in Nat
           /\ Len(u) = Len(s) + Len(t)
           /\ \A i \in 1..Len(s) : u[i] = s[i]
           /\ \A i \in 1..Len(t) : u[Len(s) + i] = t[i]
<1>1. Len(s) \in Nat /\ Len(t) \in Nat
  OBVIOUS
<1>2. /\ u \in Seq(S)
      /\ Len(u) = Len(s) + Len(t)
      /\ \A i \in 1 .. Len(s) + Len(t) : u[i] = IF i <= Len(s) THEN s[i] ELSE t[i - Len(s)]
  BY ConcatProperties DEF Joined
<1>3. ASSUME NEW i \in 1..Len(s) PROVE u[i] = s[i]
  <2>1. i \in 1..(Len(s) + Len(t)) /\ i <= Len(s)
    BY <1>1
  <2>2. QED
    BY <1>2, <2>1
<1>4. ASSUME NEW i \in 1..Len(t) PROVE u[Len(s) + i] = t[i]
  <2>1. /\ Len(s) + i \in 1..(Len(s) + Len(t)) /\ ~(Len(s) + i <= Len(s))
        /\ (Len(s) + i) - Len(s) = i
    BY <1>1
  <2>2. QED
    BY <1>2, <2>1
<1>5. QED
  BY <1>1, <1>2, <1>3, <1>4

\* After place k of u comes the list s. Kept closed likewise.
Part(u, k, s) ==
    /\ k \in Nat
    /\ k + Len(s) <= Len(u)
    /\ \A i \in 1..Len(s) : u[k + i] = s[i]

LEMMA JoinedParts ==
    ASSUME NEW S, NEW s \in Seq(S), NEW t \in Seq(S), NEW u, Joined(u, s, t)
    PROVE  /\ u \in Seq(S)
           /\ Len(u) = Len(s) + Len(t)
           /\ Part(u, 0, s)
           /\ Part(u, Len(s), t)
<1>1. /\ u \in Seq(S)
      /\ Len(s) \in Nat /\ Len(t) \in Nat
      /\ Len(u) = Len(s) + Len(t)
      /\ \A i \in 1..Len(s) : u[i] = s[i]
      /\ \A i \in 1..Len(t) : u[Len(s) + i] = t[i]
  BY JoinedLists
<1>2. \A i \in 1..Len(s) : 0 + i = i
  OBVIOUS
<1>3. QED
  BY <1>1, <1>2 DEF Part

LEMMA PartOfPart ==
    ASSUME NEW S, NEW s \in Seq(S), NEW t \in Seq(S), NEW u, Joined(u, s, t),
           NEW x \in Seq(S), NEW k, Part(s, k, x)
    PROVE  Part(u, k, x)
<1>1. /\ Len(s) \in Nat /\ Len(t) \in Nat /\ Len(x) \in Nat
      /\ Len(u) = Len(s) + Len(t)
      /\ \A i \in 1..Len(s) : u[i] = s[i]
  BY JoinedLists
<1>2. /\ k \in Nat /\ k + Len(x) <= Len(s)
      /\ \A i \in 1..Len(x) : s[k + i] = x[i]
  BY DEF Part
<1>3. \A i \in 1..Len(x) : k + i \in 1..Len(s)
  BY <1>1, <1>2
<1>4. QED
  BY <1>1, <1>2, <1>3 DEF Part

\* Six lists, one after the other.
AllJoined(u, a, b, c, d, e, f) == u = a \o b \o c \o d \o e \o f

AllPlaced(u, a, b, c, d, e, f) ==
    /\ Len(u) = Len(a) + Len(b) + Len(c) + Len(d) + Len(e) + Len(f)
    /\ Part(u, 0, a)
    /\ Part(u, Len(a), b)
    /\ Part(u, Len(a) + Len(b), c)
    /\ Part(u, Len(a) + Len(b) + Len(c), d)
    /\ Part(u, Len(a) + Len(b) + Len(c) + Len(d), e)
    /\ Part(u, Len(a) + Len(b) + Len(c) + Len(d) + Len(e), f)

LEMMA SixParts ==
    ASSUME NEW S, NEW a \in Seq(S), NEW b \in Seq(S), NEW c \in Seq(S),
           NEW d \in Seq(S), NEW e \in Seq(S), NEW f \in Seq(S),
           NEW all, AllJoined(all, a, b, c, d, e, f)
    PROVE  all \in Seq(S) /\ AllPlaced(all, a, b, c, d, e, f)
<1>1. PICK ab : Joined(ab, a, b)
  BY DEF Joined
<1>2. PICK ac : Joined(ac, ab, c)
  BY DEF Joined
<1>3. PICK ad : Joined(ad, ac, d)
  BY DEF Joined
<1>4. PICK ae : Joined(ae, ad, e)
  BY DEF Joined
<1>5. Joined(all, ae, f)
  BY <1>1, <1>2, <1>3, <1>4 DEF Joined, AllJoined
<1>6. ab \in Seq(S)
  BY <1>1, JoinedParts
<1>7. ac \in Seq(S)
  BY <1>2, <1>6, JoinedParts
<1>8. ad \in Seq(S)
  BY <1>3, <1>7, JoinedParts
<1>9. ae \in Seq(S)
  BY <1>4, <1>8, JoinedParts
<1>10. Len(ab) = Len(a) + Len(b) /\ Part(ab, 0, a) /\ Part(ab, Len(a), b)
  BY <1>1, JoinedParts
<1>11. Len(ac) = Len(ab) + Len(c) /\ Part(ac, Len(ab), c)
  BY <1>2, <1>6, JoinedParts
<1>12. Len(ad) = Len(ac) + Len(d) /\ Part(ad, Len(ac), d)
  BY <1>3, <1>7, JoinedParts
<1>13. Len(ae) = Len(ad) + Len(e) /\ Part(ae, Len(ad), e)
  BY <1>4, <1>8, JoinedParts
<1>14. all \in Seq(S) /\ Len(all) = Len(ae) + Len(f) /\ Part(all, Len(ae), f)
  BY <1>5, <1>9, JoinedParts
<1>15. Part(ac, 0, a) /\ Part(ac, Len(a), b)
  BY <1>2, <1>6, <1>10, PartOfPart
<1>16. Part(ad, 0, a) /\ Part(ad, Len(a), b) /\ Part(ad, Len(ab), c)
  BY <1>3, <1>7, <1>11, <1>15, PartOfPart
<1>17. Part(ae, 0, a) /\ Part(ae, Len(a), b) /\ Part(ae, Len(ab), c) /\ Part(ae, Len(ac), d)
  BY <1>4, <1>8, <1>12, <1>16, PartOfPart
<1>18. /\ Part(all, 0, a) /\ Part(all, Len(a), b) /\ Part(all, Len(ab), c)
       /\ Part(all, Len(ac), d) /\ Part(all, Len(ad), e)
  BY <1>5, <1>9, <1>13, <1>17, PartOfPart
<1>19. QED
  BY <1>10, <1>11, <1>12, <1>13, <1>14, <1>18 DEF AllPlaced

LEMMA LargestIndex ==
    ASSUME NEW n \in Nat, NEW S \in SUBSET (1..n), S # {}
    PROVE  \E m \in S : \A k \in S : k <= m
<1> DEFINE T == {n - i : i \in S}
<1>1. T \subseteq Nat /\ T # {}
  <2>1. PICK i \in S : TRUE
    OBVIOUS
  <2>2. n - i \in T
    OBVIOUS
  <2>3. \A j \in S : n - j \in Nat
    OBVIOUS
  <2>4. QED
    BY <2>2, <2>3
<1>2. PICK x \in T : \A y \in T : ~(<<y, x>> \in OpToRel(<, Nat))
  BY <1>1, NatLessThanWellFounded, WFMin, Zenon
<1>3. \A y \in T : ~(y < x)
  BY <1>1, <1>2 DEF OpToRel
<1>4. PICK m \in S : x = n - m
  OBVIOUS
<1>5. \A k \in S : ~(n - k < n - m)
  BY <1>3, <1>4
<1>6. QED
  BY <1>5

LEMMA SeqElements ==
    ASSUME NEW S, NEW s \in Seq(S)
    PROVE  Len(s) \in Nat /\ \A i \in 1..Len(s) : s[i] \in S
OBVIOUS

LEMMA FunctionIsList ==
    ASSUME NEW S, NEW n \in Nat, NEW f \in [1..n -> S]
    PROVE  f \in Seq(S) /\ Len(f) = n
OBVIOUS

LEMMA ItemsOfList ==
    ASSUME NEW X, NEW ids \in Seq(X), NEW c \in Classes
    PROVE  /\ ItemsOf(c, ids) \in Seq(ItemSet(X))
           /\ Len(ItemsOf(c, ids)) = Len(ids) /\ Len(ids) \in Nat
           /\ \A i \in 1..Len(ids) : ItemsOf(c, ids)[i] = Item(c, ids[i])
<1>1. Len(ids) \in Nat /\ \A i \in 1..Len(ids) : ids[i] \in X
  OBVIOUS
<1>2. \A i \in 1..Len(ids) : Item(c, ids[i]) \in ItemSet(X)
  BY <1>1 DEF Item, ItemSet
<1>3. ItemsOf(c, ids) = [i \in 1..Len(ids) |-> Item(c, ids[i])]
  BY DEF ItemsOf
<1>4. ItemsOf(c, ids) \in [1..Len(ids) -> ItemSet(X)]
  BY <1>2, <1>3
<1>5. ItemsOf(c, ids) \in Seq(ItemSet(X)) /\ Len(ItemsOf(c, ids)) = Len(ids)
  BY <1>1, <1>4
<1>6. QED
  BY <1>1, <1>3, <1>5

\* The ids of listed subnets.
LEMMA IdsOfList ==
    ASSUME NEW X, NEW Y, NEW list \in Seq(Listed(X, Y))
    PROVE  /\ IdsOf(list) \in Seq(X)
           /\ Len(IdsOf(list)) = Len(list) /\ Len(list) \in Nat
           /\ \A i \in 1..Len(list) : IdsOf(list)[i] = list[i].id
<1>1. Len(list) \in Nat /\ \A i \in 1..Len(list) : list[i] \in Listed(X, Y)
  OBVIOUS
<1>2. IdsOf(list) = [i \in 1..Len(list) |-> list[i].id]
  BY DEF IdsOf
<1>3. IdsOf(list) \in [1..Len(list) -> X]
  BY <1>1, <1>2 DEF Listed
<1>4. IdsOf(list) \in Seq(X) /\ Len(IdsOf(list)) = Len(list)
  BY <1>1, <1>3
<1>5. QED
  BY <1>1, <1>2, <1>4

\* The index of a VPC is 0 or a place of it in the list.
LEMMA IndexIsPlace ==
    ASSUME NEW X, NEW vpcs \in Seq(X), NEW id
    PROVE  /\ VpcIndex(vpcs, id) = 0 => \A i \in 1..Len(vpcs) : vpcs[i] # id
           /\ VpcIndex(vpcs, id) # 0 =>
                  VpcIndex(vpcs, id) \in 1..Len(vpcs) /\ vpcs[VpcIndex(vpcs, id)] = id
<1> DEFINE places == {i \in 1..Len(vpcs) : vpcs[i] = id}
<1>1. CASE places = {}
  BY <1>1 DEF VpcIndex
<1>2. CASE places # {}
  <2>1. Len(vpcs) \in Nat
    OBVIOUS
  <2>2. \E m \in places : \A j \in places : j <= m
    BY <1>2, <2>1, LargestIndex
  <2>3. VpcIndex(vpcs, id) = CHOOSE m \in places : \A j \in places : j <= m
    BY <1>2 DEF VpcIndex
  <2>4. VpcIndex(vpcs, id) \in places
    BY <2>2, <2>3
  <2>5. QED
    BY <2>1, <2>4
<1>3. QED
  BY <1>1, <1>2

-----------------------------------------------------------------------------
(* Where the items of a payload are.                                       *)

LEMMA ItemFields == \A c, x : Item(c, x).className = c /\ Item(c, x).id = x
BY DEF Item

LEMMA EmptyList ==
    ASSUME NEW S, NEW s \in Seq(S)
    PROVE  Len(s) \in Nat /\ (s = <<>> <=> Len(s) = 0)
OBVIOUS

LEMMA FirstItems ==
    ASSUME NEW X
    PROVE  /\ Placeholders \in Seq(ItemSet(X)) /\ Len(Placeholders) = 2
           /\ Placeholders[1] = Item("cmdb_ci_cloud_service_account", AccountId)
           /\ Placeholders[2] = Item("cmdb_ci_logical_datacenter", Region)
           /\ <<VirtualizationServer>> \in Seq(ItemSet(X)) /\ Len(<<VirtualizationServer>>) = 1
           /\ <<VirtualizationServer>>[1] = VirtualizationServer
<1>1. /\ Item("cmdb_ci_cloud_service_account", AccountId) \in ItemSet(X)
      /\ Item("cmdb_ci_logical_datacenter", Region) \in ItemSet(X)
      /\ VirtualizationServer \in ItemSet(X)
  BY DEF Item, ItemSet, Classes, VirtualizationServer
<1>2. QED
  BY <1>1 DEF Placeholders

\* The offsets of the parts, as reconcileCIs counts them.
Head0(vpcs, groups) == Len(PlaceholdersOf(vpcs, groups))
Subnet0(vpcs, groups) == Head0(vpcs, groups) + Len(vpcs)
Group0(vpcs, subnets, groups) == Subnet0(vpcs, groups) + Len(subnets)
Eip0(vpcs, subnets, groups) == Group0(vpcs, subnets, groups) + Len(groups)

LEMMA HeadItems ==
    ASSUME NEW X, NEW vpcs \in Seq(X), NEW groups \in Seq(X)
    PROVE  /\ PlaceholdersOf(vpcs, groups) \in Seq(ItemSet(X))
           /\ Head0(vpcs, groups) \in {0, 2}
           /\ Head0(vpcs, groups) = 0 <=> PlaceholdersOf(vpcs, groups) = <<>>
           /\ Head0(vpcs, groups) = 0 <=> (vpcs = <<>> /\ groups = <<>>)
           /\ Head0(vpcs, groups) = 2 => PlaceholdersOf(vpcs, groups) = Placeholders
<1>1. Placeholders \in Seq(ItemSet(X)) /\ Len(Placeholders) = 2
  BY FirstItems
<1>2. <<>> \in Seq(ItemSet(X)) /\ Len(<<>>) = 0
  OBVIOUS
<1>3. CASE vpcs = <<>> /\ groups = <<>>
  BY <1>2, <1>3 DEF Head0, PlaceholdersOf
<1>4. CASE ~(vpcs = <<>> /\ groups = <<>>)
  <2>1. PlaceholdersOf(vpcs, groups) = Placeholders
    BY <1>4 DEF PlaceholdersOf
  <2>2. Placeholders # <<>>
    BY <1>1, <1>2
  <2>3. QED
    BY <1>1, <1>4, <2>1, <2>2 DEF Head0
<1>5. QED
  BY <1>3, <1>4

Stub(eips) == IF eips = <<>> THEN <<>> ELSE <<VirtualizationServer>>

LEMMA StubItems ==
    ASSUME NEW X, NEW eips \in Seq(X)
    PROVE  /\ Stub(eips) \in Seq(ItemSet(X))
           /\ Len(Stub(eips)) = IF eips = <<>> THEN 0 ELSE 1
           /\ eips # <<>> => Stub(eips)[1] = VirtualizationServer
BY FirstItems DEF Stub

VpcLength(vpcs, subnets, groups, eips) ==
    Eip0(vpcs, subnets, groups) + Len(Stub(eips)) + Len(eips)

\* Items of one class after a place.
LEMMA ItemsInPart ==
    ASSUME NEW X, NEW ids \in Seq(X), NEW c \in Classes, NEW u, NEW k, Part(u, k, ItemsOf(c, ids))
    PROVE  /\ k \in Nat /\ Len(ids) \in Nat /\ k + Len(ids) <= Len(u)
           /\ \A i \in 1..Len(ids) : u[k + i] = Item(c, ids[i])
BY ItemsOfList DEF Part

LEMMA VpcItems ==
    ASSUME NEW X, NEW Y, NEW vpcs \in Seq(X), NEW subnets \in Seq(Listed(X, Y)),
           NEW groups \in Seq(X), NEW eips \in Seq(X),
           NEW items, items = HuaweiVpcReconcile(vpcs, subnets, groups, eips).items
    PROVE  /\ items \in Seq(ItemSet(X))
           /\ Len(items) = VpcLength(vpcs, subnets, groups, eips)
           /\ Part(items, 0, PlaceholdersOf(vpcs, groups))
           /\ Part(items, Head0(vpcs, groups), ItemsOf("cmdb_ci_network", vpcs))
           /\ Part(items, Subnet0(vpcs, groups), ItemsOf("cmdb_ci_cloud_subnet", IdsOf(subnets)))
           /\ Part(items, Group0(vpcs, subnets, groups),
                   ItemsOf("cmdb_ci_compute_security_group", groups))
           /\ Part(items, Eip0(vpcs, subnets, groups), Stub(eips))
           /\ Part(items, Eip0(vpcs, subnets, groups) + Len(Stub(eips)), ItemsOf("cmdb_ci_ip_address", eips))
<1> DEFINE I == ItemSet(X)
           A == PlaceholdersOf(vpcs, groups)
           B == ItemsOf("cmdb_ci_network", vpcs)
           C == ItemsOf("cmdb_ci_cloud_subnet", IdsOf(subnets))
           D == ItemsOf("cmdb_ci_compute_security_group", groups)
           F == ItemsOf("cmdb_ci_ip_address", eips)
<1>1. AllJoined(items, A, B, C, D, Stub(eips), F)
  BY DEF HuaweiVpcReconcile, AllJoined, Stub
<1>2. {"cmdb_ci_network", "cmdb_ci_cloud_subnet", "cmdb_ci_compute_security_group",
       "cmdb_ci_ip_address"} \subseteq Classes
  BY DEF Classes
<1>3. IdsOf(subnets) \in Seq(X) /\ Len(IdsOf(subnets)) = Len(subnets)
  BY IdsOfList
<1>4. A \in Seq(I) /\ Stub(eips) \in Seq(I)
  BY HeadItems, StubItems
<1>5. B \in Seq(I) /\ C \in Seq(I) /\ D \in Seq(I) /\ F \in Seq(I)
  BY <1>2, <1>3, ItemsOfList
<1>6. Len(B) = Len(vpcs) /\ Len(C) = Len(subnets) /\ Len(D) = Len(groups) /\ Len(F) = Len(eips)
  BY <1>2, <1>3, ItemsOfList
<1> HIDE DEF I, A, B, C, D, F
<1>7. items \in Seq(I) /\ AllPlaced(items, A, B, C, D, Stub(eips), F)
  BY <1>1, <1>4, <1>5, SixParts
<1>8. /\ Head0(vpcs, groups) = Len(A)
      /\ Subnet0(vpcs, groups) = Len(A) + Len(B)
      /\ Group0(vpcs, subnets, groups) = Len(A) + Len(B) + Len(C)
      /\ Eip0(vpcs, subnets, groups) = Len(A) + Len(B) + Len(C) + Len(D)
  BY <1>6 DEF Head0, Subnet0, Group0, Eip0, A
<1>9. QED
  BY <1>6, <1>7, <1>8 DEF AllPlaced, VpcLength, I, A, B, C, D, F

-----------------------------------------------------------------------------
(* The payload of reconcileCIs, of any four lists.                         *)

\* Where everything is, in numbers and classes.
VpcLayout(items, vpcs, subnets, groups, eips) ==
    LET v0 == Head0(vpcs, groups)
        s0 == Subnet0(vpcs, groups)
        g0 == Group0(vpcs, subnets, groups)
        e0 == Eip0(vpcs, subnets, groups)
    IN  /\ v0 > 0 => /\ items[1].className = "cmdb_ci_cloud_service_account"
                      /\ items[2].className = "cmdb_ci_logical_datacenter"
        /\ \A i \in 1..Len(vpcs) : items[v0 + i] = Item("cmdb_ci_network", vpcs[i])
        /\ \A j \in 1..Len(subnets) :
               items[s0 + j] = Item("cmdb_ci_cloud_subnet", subnets[j].id)
        /\ \A k \in 1..Len(groups) :
               items[g0 + k].className = "cmdb_ci_compute_security_group"
        /\ eips # <<>> => items[e0 + 1].className = "cmdb_ci_virtualization_server"
        /\ \A m \in 1..Len(eips) : items[e0 + 1 + m].className = "cmdb_ci_ip_address"

LEMMA Offsets ==
    ASSUME NEW X, NEW Y, NEW vpcs \in Seq(X), NEW subnets \in Seq(Listed(X, Y)),
           NEW groups \in Seq(X), NEW eips \in Seq(X),
           NEW items, items = HuaweiVpcReconcile(vpcs, subnets, groups, eips).items
    PROVE  /\ Len(vpcs) \in Nat /\ Len(subnets) \in Nat /\ Len(groups) \in Nat /\ Len(eips) \in Nat
           /\ Head0(vpcs, groups) \in {0, 2}
           /\ Head0(vpcs, groups) = 0 => Len(vpcs) = 0 /\ Len(groups) = 0
           /\ Subnet0(vpcs, groups) = Head0(vpcs, groups) + Len(vpcs)
           /\ Group0(vpcs, subnets, groups) = Subnet0(vpcs, groups) + Len(subnets)
           /\ Eip0(vpcs, subnets, groups) = Group0(vpcs, subnets, groups) + Len(groups)
           /\ Len(items) = Eip0(vpcs, subnets, groups)
                            + (IF eips = <<>> THEN 0 ELSE 1) + Len(eips)
           /\ eips = <<>> <=> Len(eips) = 0
<1>1. Len(Stub(eips)) = IF eips = <<>> THEN 0 ELSE 1
  BY StubItems
<1>2. Len(items) = VpcLength(vpcs, subnets, groups, eips)
  BY VpcItems
<1>3. /\ Len(vpcs) \in Nat /\ Len(subnets) \in Nat /\ Len(groups) \in Nat /\ Len(eips) \in Nat
      /\ eips = <<>> <=> Len(eips) = 0 
      /\ vpcs = <<>> => Len(vpcs) = 0
      /\ groups = <<>> => Len(groups) = 0
  BY EmptyList
<1>4. /\ Head0(vpcs, groups) \in {0, 2}
      /\ Head0(vpcs, groups) = 0 => vpcs = <<>> /\ groups = <<>>
  BY HeadItems
<1>5. QED
  BY <1>1, <1>2, <1>3, <1>4 DEF VpcLength, Subnet0, Group0, Eip0

LEMMA LayoutOfPayload ==
    ASSUME NEW X, NEW Y, NEW vpcs \in Seq(X), NEW subnets \in Seq(Listed(X, Y)),
           NEW groups \in Seq(X), NEW eips \in Seq(X),
           NEW items, items = HuaweiVpcReconcile(vpcs, subnets, groups, eips).items
    PROVE  VpcLayout(items, vpcs, subnets, groups, eips)
<1> DEFINE v0 == Head0(vpcs, groups)
           s0 == Subnet0(vpcs, groups)
           g0 == Group0(vpcs, subnets, groups)
           e0 == Eip0(vpcs, subnets, groups)
<1>1. /\ Part(items, 0, PlaceholdersOf(vpcs, groups))
      /\ Part(items, v0, ItemsOf("cmdb_ci_network", vpcs))
      /\ Part(items, s0, ItemsOf("cmdb_ci_cloud_subnet", IdsOf(subnets)))
      /\ Part(items, g0, ItemsOf("cmdb_ci_compute_security_group", groups))
      /\ Part(items, e0, Stub(eips))
      /\ Part(items, e0 + Len(Stub(eips)), ItemsOf("cmdb_ci_ip_address", eips))
  BY VpcItems
<1>2. eips # <<>> => Len(Stub(eips)) = 1 /\ Stub(eips)[1] = VirtualizationServer
  BY StubItems
<1>3. /\ IdsOf(subnets) \in Seq(X) /\ Len(IdsOf(subnets)) = Len(subnets)
      /\ \A j \in 1..Len(subnets) : IdsOf(subnets)[j] = subnets[j].id
  BY IdsOfList
<1>4. eips # <<>> <=> Len(eips) # 0
  OBVIOUS
<1> HIDE DEF v0, s0, g0, e0
<1>5. {"cmdb_ci_network", "cmdb_ci_cloud_subnet", "cmdb_ci_compute_security_group",
       "cmdb_ci_ip_address"} \subseteq Classes
  BY DEF Classes
<1>6. ASSUME v0 > 0
      PROVE  /\ items[1].className = "cmdb_ci_cloud_service_account"
             /\ items[2].className = "cmdb_ci_logical_datacenter"
  <2>1. PlaceholdersOf(vpcs, groups) = Placeholders
    BY <1>6, HeadItems DEF v0
  <2>2. Part(items, 0, Placeholders) /\ Len(Placeholders) = 2
    BY <1>1, <2>1, FirstItems
  <2>3. items[0 + 1] = Placeholders[1] /\ items[0 + 2] = Placeholders[2]
    BY <2>2 DEF Part
  <2>4. /\ Placeholders[1].className = "cmdb_ci_cloud_service_account"
        /\ Placeholders[2].className = "cmdb_ci_logical_datacenter"
    BY FirstItems, ItemFields
  <2>5. QED
    BY <2>3, <2>4
<1>7. \A i \in 1..Len(vpcs) : items[v0 + i] = Item("cmdb_ci_network", vpcs[i])
  BY <1>1, <1>5, ItemsInPart
<1>8. \A j \in 1..Len(subnets) : items[s0 + j] = Item("cmdb_ci_cloud_subnet", subnets[j].id)
  BY <1>1, <1>3, <1>5, ItemsInPart
<1>9. \A k \in 1..Len(groups) : items[g0 + k].className = "cmdb_ci_compute_security_group"
  BY <1>1, <1>5, ItemsInPart, ItemFields
<1>10. eips # <<>> => items[e0 + 1].className = "cmdb_ci_virtualization_server"
  <2>1. ASSUME eips # <<>> PROVE items[e0 + 1] = VirtualizationServer
    <3>1. Len(Stub(eips)) = 1 /\ Stub(eips)[1] = VirtualizationServer
      BY <1>2, <2>1
    <3>2. 1 \in 1..1
      OBVIOUS
    <3>3. QED
      BY <1>1, <3>1, <3>2 DEF Part
  <2>2. QED
    BY <2>1, ItemFields DEF VirtualizationServer
<1>11. ASSUME NEW m \in 1..Len(eips)
       PROVE  items[e0 + 1 + m].className = "cmdb_ci_ip_address"
  <2>1. Len(Stub(eips)) = 1
    BY <1>2, <1>4
  <2>2. Part(items, e0 + 1, ItemsOf("cmdb_ci_ip_address", eips))
    BY <1>1, <2>1
  <2>3. QED
    BY <1>5, <2>2, ItemsInPart, ItemFields
<1>12. QED
  BY <1>6, <1>7, <1>8, <1>9, <1>10, <1>11 DEF VpcLayout, v0, s0, g0, e0

\* The five kinds of relations.
IsVpcRelation(r, vpcs, subnets, groups, eips) ==
    LET v0 == Head0(vpcs, groups)
        s0 == Subnet0(vpcs, groups)
        g0 == Group0(vpcs, subnets, groups)
        e0 == Eip0(vpcs, subnets, groups)
    IN  \/ v0 # 0 /\ r = Hosting(2, 1)
        \/ \E i \in 1..Len(vpcs) : r = Hosting(v0 + i, 2)
        \/ \E j \in Matched(vpcs, subnets) :
               r = Containment(v0 + VpcIndex(vpcs, subnets[j].vpc_id), s0 + j)
        \/ v0 # 0 /\ \E k \in 1..Len(groups) : r = Hosting(g0 + k, 2)
        \/ \E m \in 1..Len(eips) : r = Ownership(e0 + 1, e0 + 1 + m)

LEMMA RelationsOfPayload ==
    ASSUME NEW X, NEW vpcs \in Seq(X), NEW subnets, NEW groups \in Seq(X), NEW eips,
           NEW P, P = HuaweiVpcReconcile(vpcs, subnets, groups, eips), NEW r
    PROVE  r \in P.relations <=> IsVpcRelation(r, vpcs, subnets, groups, eips)
<1>1. Head0(vpcs, groups) = 0 <=> PlaceholdersOf(vpcs, groups) = <<>>
  BY HeadItems
<1>2. P.relations =
             UNION {IF Head0(vpcs, groups) = 0 THEN {} ELSE {Hosting(2, 1)},
                    {Hosting(Head0(vpcs, groups) + i, 2) : i \in 1..Len(vpcs)},
                    {Containment(Head0(vpcs, groups) + VpcIndex(vpcs, subnets[j].vpc_id),
                                 Subnet0(vpcs, groups) + j) : j \in Matched(vpcs, subnets)},
                    IF Head0(vpcs, groups) = 0 THEN {}
                    ELSE {Hosting(Group0(vpcs, subnets, groups) + k, 2) : k \in 1..Len(groups)},
                    {Ownership(Eip0(vpcs, subnets, groups) + 1,
                               Eip0(vpcs, subnets, groups) + 1 + m) : m \in 1..Len(eips)}}
  BY <1>1 DEF HuaweiVpcReconcile, Head0, Subnet0, Group0, Eip0
<1>3. QED
  BY <1>2 DEF IsVpcRelation

LEMMA RelationFields ==
    \A a, b : /\ Hosting(a, b).parent = a /\ Hosting(a, b).child = b
              /\ Hosting(a, b).type = "Hosted on::Hosts"
              /\ Containment(a, b).parent = a /\ Containment(a, b).child = b
              /\ Containment(a, b).type = "Contains::Contained by"
              /\ Ownership(a, b).parent = a /\ Ownership(a, b).child = b
              /\ Ownership(a, b).type = "Owns::Owned by"
              /\ RunsOn(a, b).parent = a /\ RunsOn(a, b).child = b
              /\ RunsOn(a, b).type = "Runs on::Runs"
BY DEF Hosting, Containment, Ownership, RunsOn

\* An index of a part that lies at an offset is one of the whole.
LEMMA PlaceInWhole ==
    ASSUME NEW o \in Nat, NEW l \in Nat, NEW n \in Nat, o + l <= n, NEW i \in 1..l
    PROVE  o + i \in 1..n /\ i + o \in 1..n
OBVIOUS

LEMMA WellFormedVpcPayload ==
    ASSUME NEW X, NEW Y, NEW vpcs \in Seq(X), NEW subnets \in Seq(Listed(X, Y)),
           NEW groups \in Seq(X), NEW eips \in Seq(X),
           NEW P, P = HuaweiVpcReconcile(vpcs, subnets, groups, eips)
    PROVE  WellFormed(P)
<1> DEFINE v0 == Head0(vpcs, groups)
           s0 == Subnet0(vpcs, groups)
           g0 == Group0(vpcs, subnets, groups)
           e0 == Eip0(vpcs, subnets, groups)
           n == Len(P.items)
<1>1. /\ Len(vpcs) \in Nat /\ Len(subnets) \in Nat /\ Len(groups) \in Nat /\ Len(eips) \in Nat
      /\ v0 \in {0, 2}
      /\ v0 = 0 => Len(vpcs) = 0 /\ Len(groups) = 0
      /\ s0 = v0 + Len(vpcs)
      /\ g0 = s0 + Len(subnets)
      /\ e0 = g0 + Len(groups)
      /\ n = e0 + (IF eips = <<>> THEN 0 ELSE 1) + Len(eips)
      /\ eips = <<>> <=> Len(eips) = 0
  BY Offsets
<1>2. \A r \in P.relations : IsVpcRelation(r, vpcs, subnets, groups, eips)
  BY RelationsOfPayload
<1>3. \A j \in Matched(vpcs, subnets) :
          /\ j \in 1..Len(subnets)
          /\ VpcIndex(vpcs, subnets[j].vpc_id) \in 1..Len(vpcs)
  BY IndexIsPlace DEF Matched
<1> HIDE DEF v0, s0, g0, e0, n
<1>4. /\ v0 \in Nat /\ s0 \in Nat /\ g0 \in Nat /\ e0 \in Nat /\ n \in Nat
      /\ Len(vpcs) \in Nat /\ Len(subnets) \in Nat /\ Len(groups) \in Nat
      /\ v0 + Len(vpcs) <= n /\ s0 + Len(subnets) <= n /\ g0 + Len(groups) <= n
  BY <1>1
<1>0. v0 # 0 \/ Len(vpcs) # 0 \/ Len(groups) # 0 => 1 \in 1..n /\ 2 \in 1..n
  BY <1>1, <1>4
<1>5. SUFFICES ASSUME NEW r \in P.relations PROVE r.parent \in 1..n /\ r.child \in 1..n
  BY DEF WellFormed, n
<1>6. CASE v0 # 0 /\ r = Hosting(2, 1)
  <2>1. 2 \in 1..n /\ 1 \in 1..n
    BY <1>0, <1>6
  <2>2. QED
    BY <1>6, <2>1 DEF Hosting
<1>7. CASE \E i \in 1..Len(vpcs) : r = Hosting(v0 + i, 2)
  <2>1. PICK i \in 1..Len(vpcs) : r = Hosting(v0 + i, 2)
    BY <1>7
  <2>0. Len(vpcs) # 0
    BY <1>4
  <2>2. v0 + i \in 1..n /\ 2 \in 1..n
    BY <1>0, <1>4, <2>0, PlaceInWhole
  <2>3. QED
    BY <2>1, <2>2 DEF Hosting
<1>8. CASE \E j \in Matched(vpcs, subnets) :
               r = Containment(v0 + VpcIndex(vpcs, subnets[j].vpc_id), s0 + j)
  <2>1. PICK j \in Matched(vpcs, subnets) :
            r = Containment(v0 + VpcIndex(vpcs, subnets[j].vpc_id), s0 + j)
    BY <1>8
  <2> DEFINE x == VpcIndex(vpcs, subnets[j].vpc_id)
  <2>2. j \in 1..Len(subnets) /\ x \in 1..Len(vpcs)
    BY <1>3
  <2> HIDE DEF x
  <2>3. v0 + x \in 1..n /\ s0 + j \in 1..n
    BY <1>4, <2>2, PlaceInWhole
  <2>4. QED
    BY <2>1, <2>3 DEF Containment, x
<1>9. CASE \E k \in 1..Len(groups) : r = Hosting(g0 + k, 2)
  <2>1. PICK k \in 1..Len(groups) : r = Hosting(g0 + k, 2)
    BY <1>9
  <2>0. Len(groups) # 0
    BY <1>4
  <2>2. g0 + k \in 1..n /\ 2 \in 1..n
    BY <1>0, <1>4, <2>0, PlaceInWhole
  <2>3. QED
    BY <2>1, <2>2 DEF Hosting
<1>10. CASE \E m \in 1..Len(eips) : r = Ownership(e0 + 1, e0 + 1 + m)
  <2>1. PICK m \in 1..Len(eips) : r = Ownership(e0 + 1, e0 + 1 + m)
    BY <1>10
  <2>2. e0 + 1 \in 1..n /\ e0 + 1 + m \in 1..n
    BY <1>1
  <2>3. QED
    BY <2>1, <2>2 DEF Ownership
<1>11. IsVpcRelation(r, vpcs, subnets, groups, eips)
  BY <1>2
<1>12. QED
  BY <1>6, <1>7, <1>8, <1>9, <1>10, <1>11 DEF IsVpcRelation, v0, s0, g0, e0

\* The relation that satisfies an item, by what its class demands.
LEMMA SatisfiedBy ==
    ASSUME NEW P, NEW i
    PROVE  /\ Demands(P.items[i].className) = "nothing" => Satisfied(P, i)
           /\ \A j : /\ Hosting(i, j) \in P.relations
                     /\ Demands(P.items[i].className) = "Hosted on::Hosts"
                     /\ P.items[j].className = Host(P.items[i].className)
                     => Satisfied(P, i)
           /\ \A j : /\ Containment(j, i) \in P.relations
                     /\ Demands(P.items[i].className) = "Contains::Contained by"
                     /\ P.items[j].className = "cmdb_ci_network"
                     => Satisfied(P, i)
           /\ \A j : /\ Ownership(j, i) \in P.relations
                     /\ Demands(P.items[i].className) = "Owns::Owned by"
                     /\ P.items[j].className = "cmdb_ci_virtualization_server"
                     => Satisfied(P, i)
           /\ \A j : /\ RunsOn(j, i) \in P.relations
                     /\ Demands(P.items[i].className) = "Runs on::Runs"
                     /\ P.items[j].className = "cmdb_ci_virtualization_server"
                     => Satisfied(P, i)
BY DEF Satisfied, Hosting, Containment, Ownership, RunsOn

LEMMA ClassDemands ==
    /\ \A c \in {"cmdb_ci_cloud_service_account", "cmdb_ci_virtualization_server",
                 "huawei_cloud_cce_cluster", "huawei_cloud_obs_bucket"} : Demands(c) = "nothing"
    /\ \A c \in {"cmdb_ci_logical_datacenter", "cmdb_ci_network", "cmdb_ci_compute_security_group",
                 "cmdb_ci_storage_volume", "cmdb_ci_cloud_load_balancer", "cmdb_ci_cloud_database"} :
          Demands(c) = "Hosted on::Hosts"
    /\ Demands("cmdb_ci_cloud_subnet") = "Contains::Contained by"
    /\ Demands("cmdb_ci_ip_address") = "Owns::Owned by"
    /\ Demands("cmdb_ci_vm_instance") = "Runs on::Runs"
    /\ Host("cmdb_ci_logical_datacenter") = "cmdb_ci_cloud_service_account"
    /\ \A c \in {"cmdb_ci_network", "cmdb_ci_compute_security_group", "cmdb_ci_storage_volume",
                 "cmdb_ci_cloud_load_balancer", "cmdb_ci_cloud_database"} :
          Host(c) = "cmdb_ci_logical_datacenter"
BY DEF Demands, Host

\* Item i is related to what the engine demands for its class, or it is a
\* subnet whose VPC is not listed.
RelatedOrUnmatched(P, vpcs, subnets, i) ==
    \/ Satisfied(P, i)
    \/ \E j \in 1..Len(subnets) \ Matched(vpcs, subnets) :
          P.items[i] = Item("cmdb_ci_cloud_subnet", subnets[j].id)

LEMMA VpcPayloadIsSatisfied ==
    ASSUME NEW X, NEW Y, NEW vpcs \in Seq(X), NEW subnets \in Seq(Listed(X, Y)),
           NEW groups \in Seq(X), NEW eips \in Seq(X),
           NEW P, P = HuaweiVpcReconcile(vpcs, subnets, groups, eips),
           NEW i \in 1..Len(P.items)
    PROVE  RelatedOrUnmatched(P, vpcs, subnets, i)
<1> USE DEF RelatedOrUnmatched
<1> DEFINE v0 == Head0(vpcs, groups)
           s0 == Subnet0(vpcs, groups)
           g0 == Group0(vpcs, subnets, groups)
           e0 == Eip0(vpcs, subnets, groups)
           n == Len(P.items)
           items == P.items
<1>1. /\ Len(vpcs) \in Nat /\ Len(subnets) \in Nat /\ Len(groups) \in Nat /\ Len(eips) \in Nat
      /\ v0 \in {0, 2}
      /\ v0 = 0 => Len(vpcs) = 0 /\ Len(groups) = 0
      /\ s0 = v0 + Len(vpcs)
      /\ g0 = s0 + Len(subnets)
      /\ e0 = g0 + Len(groups)
      /\ n = e0 + (IF eips = <<>> THEN 0 ELSE 1) + Len(eips)
      /\ eips = <<>> <=> Len(eips) = 0
  BY Offsets
<1>2. VpcLayout(items, vpcs, subnets, groups, eips)
  BY LayoutOfPayload
<1>3. /\ v0 > 0 => /\ items[1].className = "cmdb_ci_cloud_service_account"
                    /\ items[2].className = "cmdb_ci_logical_datacenter"
      /\ \A k \in 1..Len(vpcs) : items[v0 + k] = Item("cmdb_ci_network", vpcs[k])
      /\ \A j \in 1..Len(subnets) : items[s0 + j] = Item("cmdb_ci_cloud_subnet", subnets[j].id)
      /\ \A k \in 1..Len(groups) : items[g0 + k].className = "cmdb_ci_compute_security_group"
      /\ eips # <<>> => items[e0 + 1].className = "cmdb_ci_virtualization_server"
      /\ \A m \in 1..Len(eips) : items[e0 + 1 + m].className = "cmdb_ci_ip_address"
  BY <1>2 DEF VpcLayout
<1>4. \A r : IsVpcRelation(r, vpcs, subnets, groups, eips) => r \in P.relations
  BY RelationsOfPayload
<1>5. /\ v0 # 0 => Hosting(2, 1) \in P.relations
      /\ \A k \in 1..Len(vpcs) : Hosting(v0 + k, 2) \in P.relations
      /\ \A j \in Matched(vpcs, subnets) :
            Containment(v0 + VpcIndex(vpcs, subnets[j].vpc_id), s0 + j) \in P.relations
      /\ v0 # 0 => \A k \in 1..Len(groups) : Hosting(g0 + k, 2) \in P.relations
      /\ \A m \in 1..Len(eips) : Ownership(e0 + 1, e0 + 1 + m) \in P.relations
  BY <1>4 DEF IsVpcRelation
<1>6. \A j \in Matched(vpcs, subnets) :
          /\ j \in 1..Len(subnets)
          /\ VpcIndex(vpcs, subnets[j].vpc_id) \in 1..Len(vpcs)
  BY IndexIsPlace DEF Matched
<1> HIDE DEF v0, s0, g0, e0, n
<1>7. i \in 1..n
  BY DEF n
<1>8. CASE v0 # 0 /\ i = 1
  <2>1. items[i].className = "cmdb_ci_cloud_service_account"
    BY <1>1, <1>3, <1>8
  <2>2. QED
    BY <2>1, SatisfiedBy, ClassDemands
<1>9. CASE v0 # 0 /\ i = 2
  <2>1. /\ items[1].className = "cmdb_ci_cloud_service_account"
        /\ items[i].className = "cmdb_ci_logical_datacenter"
    BY <1>1, <1>3, <1>9
  <2>2. Hosting(i, 1) \in P.relations
    BY <1>5, <1>9
  <2>3. QED
    BY <2>1, <2>2, SatisfiedBy, ClassDemands
<1>10. CASE \E k \in 1..Len(vpcs) : i = v0 + k
  <2>1. PICK k \in 1..Len(vpcs) : i = v0 + k
    BY <1>10
  <2>2. v0 > 0
    BY <1>1
  <2>3. items[2].className = "cmdb_ci_logical_datacenter"
    BY <1>3, <2>2
  <2>4. items[i].className = "cmdb_ci_network"
    BY <1>3, <2>1, ItemFields
  <2>5. Hosting(i, 2) \in P.relations
    BY <1>5, <2>1
  <2>6. QED
    BY <2>3, <2>4, <2>5, SatisfiedBy, ClassDemands
<1>11. CASE \E j \in 1..Len(subnets) : i = s0 + j
  <2>1. PICK j \in 1..Len(subnets) : i = s0 + j
    BY <1>11
  <2>2. items[i] = Item("cmdb_ci_cloud_subnet", subnets[j].id)
    BY <1>3, <2>1
  <2>3. CASE j \notin Matched(vpcs, subnets)
    BY <2>1, <2>2, <2>3
  <2>4. CASE j \in Matched(vpcs, subnets)
    <3> DEFINE x == VpcIndex(vpcs, subnets[j].vpc_id)
    <3>1. x \in 1..Len(vpcs)
      BY <1>6, <2>4
    <3>2. Containment(v0 + x, i) \in P.relations
      BY <1>5, <2>1, <2>4
    <3> HIDE DEF x
    <3>3. items[v0 + x].className = "cmdb_ci_network"
      BY <1>3, <3>1, ItemFields
    <3>4. items[i].className = "cmdb_ci_cloud_subnet"
      BY <2>2, ItemFields
    <3>5. QED
      BY <3>2, <3>3, <3>4, SatisfiedBy, ClassDemands
  <2>5. QED
    BY <2>3, <2>4
<1>12. CASE \E k \in 1..Len(groups) : i = g0 + k
  <2>1. PICK k \in 1..Len(groups) : i = g0 + k
    BY <1>12
  <2>2. v0 > 0
    BY <1>1
  <2>3. items[2].className = "cmdb_ci_logical_datacenter"
    BY <1>3, <2>2
  <2>4. items[i].className = "cmdb_ci_compute_security_group"
    BY <1>3, <2>1
  <2>5. Hosting(i, 2) \in P.relations
    BY <1>1, <1>5, <2>1, <2>2
  <2>6. QED
    BY <2>3, <2>4, <2>5, SatisfiedBy, ClassDemands
<1>13. CASE eips # <<>> /\ i = e0 + 1
  <2>1. items[i].className = "cmdb_ci_virtualization_server"
    BY <1>3, <1>13
  <2>2. QED
    BY <2>1, SatisfiedBy, ClassDemands
<1>14. CASE \E m \in 1..Len(eips) : i = e0 + 1 + m
  <2>1. PICK m \in 1..Len(eips) : i = e0 + 1 + m
    BY <1>14
  <2>2. eips # <<>>
    BY <1>1
  <2>3. items[e0 + 1].className = "cmdb_ci_virtualization_server"
    BY <1>3, <2>2
  <2>4. items[i].className = "cmdb_ci_ip_address"
    BY <1>3, <2>1
  <2>5. Ownership(e0 + 1, i) \in P.relations
    BY <1>5, <2>1
  <2>6. QED
    BY <2>3, <2>4, <2>5, SatisfiedBy, ClassDemands
<1>15. \/ v0 # 0 /\ i \in {1, 2}
       \/ i > v0 /\ i <= s0
       \/ i > s0 /\ i <= g0
       \/ i > g0 /\ i <= e0
       \/ eips # <<>> /\ i = e0 + 1
       \/ eips # <<>> /\ i > e0 + 1
  <2>1. v0 \in Nat /\ s0 \in Nat /\ g0 \in Nat /\ e0 \in Nat /\ n \in Nat /\ i \in Nat /\ i >= 1
    BY <1>1, <1>7
  <2>2. i <= v0 => v0 # 0 /\ i \in {1, 2}
    BY <1>1, <2>1
  <2>3. i > e0 => eips # <<>>
    BY <1>1, <1>7
  <2>4. QED
    BY <2>1, <2>2, <2>3
<1>16. /\ i > v0 /\ i <= s0 => i - v0 \in 1..Len(vpcs) /\ i = v0 + (i - v0)
       /\ i > s0 /\ i <= g0 => i - s0 \in 1..Len(subnets) /\ i = s0 + (i - s0)
       /\ i > g0 /\ i <= e0 => i - g0 \in 1..Len(groups) /\ i = g0 + (i - g0)
       /\ eips # <<>> /\ i > e0 + 1 =>
             i - (e0 + 1) \in 1..Len(eips) /\ i = e0 + 1 + (i - (e0 + 1))
  BY <1>1, <1>7
<1>17. QED
  BY <1>8, <1>9, <1>10, <1>11, <1>12, <1>13, <1>14, <1>15, <1>16

\* The relation is between a subnet and the item of its own VPC.
ContainedByVpc(P, subnets, r) ==
    \E j \in 1..Len(subnets) :
        /\ P.items[r.child] = Item("cmdb_ci_cloud_subnet", subnets[j].id)
        /\ P.items[r.parent] = Item("cmdb_ci_network", subnets[j].vpc_id)

LEMMA ContainmentIsByVpc ==
    ASSUME NEW X, NEW Y, NEW vpcs \in Seq(X), NEW subnets \in Seq(Listed(X, Y)),
           NEW groups \in Seq(X), NEW eips \in Seq(X),
           NEW P, P = HuaweiVpcReconcile(vpcs, subnets, groups, eips),
           NEW r \in P.relations, r.type = "Contains::Contained by"
    PROVE  ContainedByVpc(P, subnets, r)
<1> DEFINE v0 == Head0(vpcs, groups)
           s0 == Subnet0(vpcs, groups)
           items == P.items
<1>1. VpcLayout(items, vpcs, subnets, groups, eips)
  BY LayoutOfPayload
<1>2. /\ \A k \in 1..Len(vpcs) : items[v0 + k] = Item("cmdb_ci_network", vpcs[k])
      /\ \A j \in 1..Len(subnets) : items[s0 + j] = Item("cmdb_ci_cloud_subnet", subnets[j].id)
  BY <1>1 DEF VpcLayout
<1>3. IsVpcRelation(r, vpcs, subnets, groups, eips)
  BY RelationsOfPayload
<1>4. \A a, b : r # Hosting(a, b) /\ r # Ownership(a, b)
  <2>1. /\ \A a, b : Hosting(a, b).type # r.type
        /\ \A a, b : Ownership(a, b).type # r.type
    BY DEF Hosting, Ownership
  <2>2. QED
    BY <2>1
<1>5. PICK j \in Matched(vpcs, subnets) :
          r = Containment(v0 + VpcIndex(vpcs, subnets[j].vpc_id), s0 + j)
  BY <1>3, <1>4 DEF IsVpcRelation
<1> DEFINE x == VpcIndex(vpcs, subnets[j].vpc_id)
<1>6. j \in 1..Len(subnets) /\ x \in 1..Len(vpcs) /\ vpcs[x] = subnets[j].vpc_id
  BY IndexIsPlace DEF Matched
<1>7. r.parent = v0 + x /\ r.child = s0 + j
  BY <1>5 DEF Containment
<1> HIDE DEF x
<1>8. /\ items[v0 + x] = Item("cmdb_ci_network", subnets[j].vpc_id)
      /\ items[s0 + j] = Item("cmdb_ci_cloud_subnet", subnets[j].id)
  BY <1>2, <1>6
<1>9. QED
  BY <1>6, <1>7, <1>8 DEF ContainedByVpc

-----------------------------------------------------------------------------
(* The payloads of one type.                                               *)

LEMMA NothingIsComplete == Complete(NoPayload)
BY DEF Complete, NoPayload, WellFormed

\* Volumes, load balancers and databases, hosted in the data center.
LEMMA HostedPayloadIsComplete ==
    ASSUME NEW X, NEW ids \in Seq(X),
           NEW c \in {"cmdb_ci_storage_volume", "cmdb_ci_cloud_load_balancer", "cmdb_ci_cloud_database"}
    PROVE  Complete(HostedPayload(c, ids))
<1>1. CASE ids = <<>>
  BY <1>1, NothingIsComplete DEF HostedPayload
<1>2. CASE ids # <<>>
  <2> DEFINE P == HostedPayload(c, ids)
             items == P.items
  <2>1. /\ Joined(items, Placeholders, ItemsOf(c, ids))
        /\ P.relations = {Hosting(2, 1)} \cup {Hosting(i + 2, 2) : i \in 1..Len(ids)}
    BY <1>2 DEF HostedPayload, Joined
  <2>2. c \in Classes
    BY DEF Classes
  <2>3. ItemsOf(c, ids) \in Seq(ItemSet(X)) /\ Len(ItemsOf(c, ids)) = Len(ids) /\ Len(ids) \in Nat
    BY <2>2, ItemsOfList
  <2>4. /\ Placeholders \in Seq(ItemSet(X)) /\ Len(Placeholders) = 2
        /\ Placeholders[1].className = "cmdb_ci_cloud_service_account"
        /\ Placeholders[2].className = "cmdb_ci_logical_datacenter"
    BY FirstItems, ItemFields
  <2> HIDE DEF P
  <2>5. /\ Part(items, 0, Placeholders) /\ Part(items, 2, ItemsOf(c, ids))
        /\ Len(items) = Len(Placeholders) + Len(ItemsOf(c, ids))
    <3>1. Joined(items, Placeholders, ItemsOf(c, ids))
      BY <2>1
    <3>2. Placeholders \in Seq(ItemSet(X)) /\ ItemsOf(c, ids) \in Seq(ItemSet(X))
      BY <2>3, <2>4
    <3>3. /\ Part(items, 0, Placeholders) /\ Part(items, Len(Placeholders), ItemsOf(c, ids))
          /\ Len(items) = Len(Placeholders) + Len(ItemsOf(c, ids))
      BY <3>1, <3>2, JoinedParts
    <3>4. QED
      BY <2>4, <3>3
  <2>6. items[0 + 1] = Placeholders[1] /\ items[0 + 2] = Placeholders[2]
    BY <2>4, <2>5 DEF Part
  <2>7. /\ items[1].className = "cmdb_ci_cloud_service_account"
        /\ items[2].className = "cmdb_ci_logical_datacenter"
    BY <2>4, <2>6
  <2>8. \A k \in 1..Len(ids) : items[2 + k].className = c
    BY <2>2, <2>5, ItemsInPart, ItemFields
  <2>9. Len(items) = 2 + Len(ids)
    BY <2>3, <2>4, <2>5
  <2>0. items = P.items
    OBVIOUS
  <2> HIDE DEF items
  <2>10. ASSUME NEW r \in P.relations PROVE {r.parent, r.child} \subseteq 1..Len(items)
    <3>1. CASE r = Hosting(2, 1)
      <4>1. 1 \in 1..Len(items) /\ 2 \in 1..Len(items)
        BY <2>3, <2>9
      <4>2. QED
        BY <3>1, <4>1 DEF Hosting
    <3>2. ASSUME NEW k \in 1..Len(ids), r = Hosting(k + 2, 2)
          PROVE  {r.parent, r.child} \subseteq 1..Len(items)
      <4>0. Len(ids) \in Nat /\ Len(items) \in Nat /\ 2 + Len(ids) <= Len(items)
        BY <2>3, <2>9
      <4>1. k + 2 \in 1..Len(items) /\ 2 \in 1..Len(items)
        BY <4>0, PlaceInWhole
      <4>2. QED
        BY <3>2, <4>1 DEF Hosting
    <3>3. QED
      BY <2>1, <3>1, <3>2
  <2>11. ASSUME NEW i \in 1..Len(items) PROVE Satisfied(P, i)
    <3>1. CASE i = 1
      BY <2>0, <2>7, <3>1, SatisfiedBy, ClassDemands
    <3>2. CASE i = 2
      <4>1. Hosting(i, 1) \in P.relations
        BY <2>1, <3>2
      <4>2. QED
        BY <2>0, <2>7, <3>2, <4>1, SatisfiedBy, ClassDemands
    <3>3. CASE i > 2
      <4>1. PICK k \in 1..Len(ids) : i = 2 + k /\ i = k + 2
        <5>1. i - 2 \in 1..Len(ids) /\ i = 2 + (i - 2) /\ i = (i - 2) + 2
          BY <2>3, <2>9, <3>3
        <5>2. QED
          BY <5>1
      <4>2. items[i].className = c
        BY <2>8, <4>1
      <4>3. Hosting(i, 2) \in P.relations
        BY <2>1, <4>1
      <4>4. QED
        BY <2>0, <2>7, <4>2, <4>3, SatisfiedBy, ClassDemands
    <3>4. QED
      BY <2>3, <2>9, <3>1, <3>2, <3>3
  <2>12. QED
    BY <2>10, <2>11 DEF Complete, WellFormed, P, items
<1>3. QED
  BY <1>1, <1>2

\* Clusters and buckets, contained in nothing.
LEMMA FreePayloadIsComplete ==
    ASSUME NEW X, NEW ids \in Seq(X), NEW c \in {"huawei_cloud_cce_cluster", "huawei_cloud_obs_bucket"}
    PROVE  Complete(FreePayload(c, ids))
<1> DEFINE P == FreePayload(c, ids)
<1>1. c \in Classes
  BY DEF Classes
<1>2. P.items = ItemsOf(c, ids) /\ P.relations = {}
  BY DEF FreePayload
<1>3. Len(P.items) = Len(ids) /\ \A i \in 1..Len(ids) : P.items[i] = Item(c, ids[i])
  BY <1>1, <1>2, ItemsOfList
<1>4. \A i \in 1..Len(P.items) : P.items[i].className = c
  BY <1>3, ItemFields
<1> HIDE DEF P
<1>5. Demands(c) = "nothing"
  BY ClassDemands
<1>6. \A i \in 1..Len(P.items) : Satisfied(P, i)
  BY <1>4, <1>5, SatisfiedBy
<1>7. QED
  BY <1>2, <1>6 DEF Complete, WellFormed, P

\* Servers, whichever lookups of their flavors fail.
LEMMA EcsPayloadIsComplete ==
    ASSUME NEW X, NEW F, NEW servers \in Seq([id : X, flavor : F]), NEW failing
    PROVE  Complete(HuaweiEcsReconcile(servers, failing))
<1>1. CASE servers = <<>>
  BY <1>1, NothingIsComplete DEF HuaweiEcsReconcile
<1>2. CASE servers # <<>>
  <2> DEFINE ids == [i \in 1..Len(servers) |-> servers[i].id]
             c == "cmdb_ci_vm_instance"
             host == <<VirtualizationServer>>
             P == HuaweiEcsReconcile(servers, failing)
             items == P.items
  <2>1. /\ items = host \o mapEcsToIRE(servers).items
        /\ P.relations = {RunsOn(1, i + 1) : i \in 1..Len(servers)}
    BY <1>2 DEF HuaweiEcsReconcile
  <2>2. Joined(items, host, ItemsOf(c, ids))
    BY <2>1 DEF mapEcsToIRE, FreePayload, Joined
  <2>3. Len(servers) \in Nat /\ \A i \in 1..Len(servers) : servers[i].id \in X
    <3>1. Len(servers) \in Nat /\ \A i \in 1..Len(servers) : servers[i] \in [id : X, flavor : F]
      BY SeqElements, Zenon
    <3>2. QED
      BY <3>1
  <2>4. ids \in [1..Len(servers) -> X]
    BY <2>3
  <2>5. ids \in Seq(X) /\ Len(ids) = Len(servers)
    BY <2>3, <2>4
  <2> HIDE DEF P, ids, host
  <2>6. c \in Classes
    BY DEF Classes
  <2>7. ItemsOf(c, ids) \in Seq(ItemSet(X)) /\ Len(ItemsOf(c, ids)) = Len(ids)
    BY <2>5, <2>6, ItemsOfList
  <2>8. /\ host \in Seq(ItemSet(X)) /\ Len(host) = 1
        /\ host[1].className = "cmdb_ci_virtualization_server"
    BY FirstItems, ItemFields DEF VirtualizationServer, host
  <2>9. /\ Part(items, 0, host)
        /\ Part(items, Len(host), ItemsOf(c, ids))
        /\ Len(items) = Len(host) + Len(ItemsOf(c, ids))
    <3>1. /\ host \in Seq(ItemSet(X))
          /\ ItemsOf(c, ids) \in Seq(ItemSet(X))
      BY <2>7, <2>8
    <3> HIDE DEF items, c
    <3>2. QED
      BY <2>2, <3>1, JoinedParts
  <2>10. Len(items) = 1 + Len(servers)
    BY <2>5, <2>7, <2>8, <2>9
  <2>11. items[1].className = "cmdb_ci_virtualization_server"
    <3>1. items[0 + 1] = host[1]
      BY <2>8, <2>9 DEF Part
    <3>2. QED
      BY <2>8, <3>1
  <2>12. Part(items, 1, ItemsOf(c, ids))
    BY <2>8, <2>9
  <2>13. \A k \in 1..Len(servers) : items[1 + k].className = c
    BY <2>5, <2>6, <2>12, ItemsInPart, ItemFields
  <2>14. ASSUME NEW r \in P.relations PROVE {r.parent, r.child} \subseteq 1..Len(items)
    <3>1. PICK k \in 1..Len(servers) : r = RunsOn(1, k + 1)
      BY <2>1
    <3>2. k + 1 \in 1..Len(items) /\ 1 \in 1..Len(items)
      BY <2>3, <2>10
    <3>3. QED
      BY <3>1, <3>2 DEF RunsOn
  <2>15. ASSUME NEW i \in 1..Len(items) PROVE Satisfied(P, i)
    <3>1. CASE i = 1
      BY <2>11, <3>1, SatisfiedBy, ClassDemands
    <3>2. CASE i > 1
      <4>1. PICK k \in 1..Len(servers) : i = 1 + k /\ i = k + 1
        <5>1. i - 1 \in 1..Len(servers) /\ i = 1 + (i - 1) /\ i = (i - 1) + 1
          BY <2>3, <2>10, <3>2
        <5>2. QED
          BY <5>1
      <4>2. items[i].className = c
        BY <2>13, <4>1
      <4>3. RunsOn(1, i) \in P.relations
        BY <2>1, <4>1
      <4>4. QED
        BY <2>11, <4>2, <4>3, SatisfiedBy, ClassDemands
    <3>3. QED
      BY <2>3, <2>10, <3>1, <3>2
  <2>16. QED
    BY <2>14, <2>15 DEF Complete, WellFormed, P
<1>3. QED
  BY <1>1, <1>2

-----------------------------------------------------------------------------
(* The payload of the class and that of the tested parts.                  *)

LEMMA JoinedIsList ==
    ASSUME NEW S, NEW s \in Seq(S), NEW t \in Seq(S)
    PROVE  s \o t \in Seq(S)
OBVIOUS

LEMMA MirrorHasTheItems ==
    ASSUME NEW X, NEW Y, NEW vpcs \in Seq(X), NEW subnets \in Seq(Listed(X, Y)),
           NEW groups \in Seq(X), NEW eips \in Seq(X), vpcs # <<>> \/ groups = <<>>
    PROVE  Combined(vpcs, subnets, groups, eips).items =
               HuaweiVpcReconcile(vpcs, subnets, groups, eips).items
<1> DEFINE I == ItemSet(X)
           A == PlaceholdersOf(vpcs, groups)
           B == ItemsOf("cmdb_ci_network", vpcs)
           C == ItemsOf("cmdb_ci_cloud_subnet", IdsOf(subnets))
           D == ItemsOf("cmdb_ci_compute_security_group", groups)
           F == ItemsOf("cmdb_ci_ip_address", eips)
           N == A \o B \o C \o D
           H == <<VirtualizationServer>>
<1>1. A = IF vpcs = <<>> THEN <<>> ELSE Placeholders
  BY DEF PlaceholdersOf
<1>2. Combined(vpcs, subnets, groups, eips).items =
          N \o (IF eips = <<>> THEN <<>> ELSE H \o F)
  BY <1>1, Zenon DEF Combined, mapVpcSubnetToIRE, mapSecurityGroupToIRE, mapEipToIRE, NoPayload
<1>3. HuaweiVpcReconcile(vpcs, subnets, groups, eips).items =
          (N \o (IF eips = <<>> THEN <<>> ELSE H)) \o F
  BY DEF HuaweiVpcReconcile
<1>4. {"cmdb_ci_network", "cmdb_ci_cloud_subnet", "cmdb_ci_compute_security_group",
       "cmdb_ci_ip_address"} \subseteq Classes
  BY DEF Classes
<1>5. IdsOf(subnets) \in Seq(X)
  BY IdsOfList
<1>6. A \in Seq(I) /\ H \in Seq(I)
  BY HeadItems, FirstItems
<1>7. B \in Seq(I) /\ C \in Seq(I) /\ D \in Seq(I) /\ F \in Seq(I) /\ Len(F) = Len(eips)
  BY <1>4, <1>5, ItemsOfList
<1> HIDE DEF I, A, B, C, D, F, H
<1>8. N \in Seq(I)
  <2>1. A \o B \in Seq(I)
    BY <1>6, <1>7, JoinedIsList
  <2>2. (A \o B) \o C \in Seq(I)
    BY <1>7, <2>1, JoinedIsList, Zenon
  <2>3. QED
    BY <1>7, <2>2, JoinedIsList, Zenon
<1> HIDE DEF N
<1>9. CASE eips = <<>>
  <2>1. F = <<>>
    BY <1>7, <1>9
  <2>2. (N \o <<>>) \o <<>> = N \o <<>>
    BY <1>8, ConcatEmptySeq, Zenon
  <2>3. QED
    BY <1>2, <1>3, <1>9, <2>1, <2>2, Zenon
<1>10. CASE eips # <<>>
  <2>1. (N \o H) \o F = N \o (H \o F)
    <3>1. N \in Seq(I) /\ H \in Seq(I) /\ F \in Seq(I)
      BY <1>6, <1>7, <1>8
    <3>2. QED
      BY <3>1, ConcatAssociative
  <2>2. QED
    BY <1>2, <1>3, <1>10, <2>1, Zenon
<1>11. QED
  BY <1>9, <1>10

\* Moving the relations of a part to where its items are.
LEMMA MovedRelations ==
    ASSUME NEW n \in Nat, NEW x \in Nat
    PROVE  /\ {Moved(r, x, 0) : r \in {Hosting(k, 2) : k \in 1..n}} = {Hosting(x + k, 2) : k \in 1..n}
           /\ {Moved(r, x, x) : r \in {Ownership(1, m + 1) : m \in 1..n}} =
                  {Ownership(x + 1, x + 1 + m) : m \in 1..n}
<1>1. ASSUME NEW k \in 1..n PROVE Moved(Hosting(k, 2), x, 0) = Hosting(x + k, 2)
  <2>1. Moved(Hosting(k, 2), x, 0) = Hosting(k + x, 2 + 0)
    BY DEF Hosting, Moved
  <2>2. k + x = x + k /\ 2 + 0 = 2
    OBVIOUS
  <2>3. QED
    BY <2>1, <2>2, Zenon
<1>2. ASSUME NEW m \in 1..n PROVE Moved(Ownership(1, m + 1), x, x) = Ownership(x + 1, x + 1 + m)
  <2>1. Moved(Ownership(1, m + 1), x, x) = Ownership(1 + x, (m + 1) + x)
    BY DEF Ownership, Moved
  <2>2. 1 + x = x + 1 /\ (m + 1) + x = x + 1 + m
    OBVIOUS
  <2>3. QED
    BY <2>1, <2>2, Zenon
<1>3. {Moved(r, x, 0) : r \in {Hosting(k, 2) : k \in 1..n}} = {Hosting(x + k, 2) : k \in 1..n}
  BY <1>1
<1>4. {Moved(r, x, x) : r \in {Ownership(1, m + 1) : m \in 1..n}} =
          {Ownership(x + 1, x + 1 + m) : m \in 1..n}
  BY <1>2
<1>5. QED
  BY <1>3, <1>4

LEMMA MirrorHasTheRelations ==
    ASSUME NEW X, NEW Y, NEW vpcs \in Seq(X), NEW subnets \in Seq(Listed(X, Y)),
           NEW groups \in Seq(X), NEW eips \in Seq(X), vpcs # <<>> \/ groups = <<>>
    PROVE  Combined(vpcs, subnets, groups, eips).relations =
               HuaweiVpcReconcile(vpcs, subnets, groups, eips).relations
<1> DEFINE head == IF vpcs = <<>> THEN <<>> ELSE Placeholders
           network == mapVpcSubnetToIRE(vpcs, subnets)
           g0 == Len(network.items)
           e0 == g0 + Len(groups)
           hosted == IF vpcs = <<>> THEN {} ELSE {Hosting(2, 1)}
           vpc == {Hosting(Len(head) + i, 2) : i \in 1..Len(vpcs)}
           subnet == {Containment(Len(head) + VpcIndex(vpcs, subnets[j].vpc_id),
                                  Len(head) + Len(vpcs) + j) : j \in Matched(vpcs, subnets)}
           groupAfter(x) == {Hosting(x + k, 2) : k \in 1..Len(groups)}
           eipAfter(x) == {Ownership(x + 1, x + 1 + m) : m \in 1..Len(eips)}
           group == groupAfter(g0)
           eip == eipAfter(e0)
<1>1. /\ PlaceholdersOf(vpcs, groups) = head
      /\ head = <<>> <=> vpcs = <<>>
  <2>1. Placeholders # <<>>
    BY FirstItems, EmptyList
  <2>2. QED
    BY <2>1 DEF PlaceholdersOf
<1>2. /\ Len(vpcs) \in Nat /\ Len(subnets) \in Nat /\ Len(groups) \in Nat /\ Len(eips) \in Nat
      /\ eips = <<>> <=> Len(eips) = 0
      /\ groups = <<>> => Len(groups) = 0
  BY EmptyList
<1>3. g0 \in Nat /\ g0 = Len(head) + Len(vpcs) + Len(subnets)
  <2> DEFINE B == ItemsOf("cmdb_ci_network", vpcs)
             C == ItemsOf("cmdb_ci_cloud_subnet", IdsOf(subnets))
  <2>1. network.items = head \o B \o C
    BY DEF mapVpcSubnetToIRE
  <2>2. "cmdb_ci_network" \in Classes /\ "cmdb_ci_cloud_subnet" \in Classes
    BY DEF Classes
  <2>3. IdsOf(subnets) \in Seq(X) /\ Len(IdsOf(subnets)) = Len(subnets)
    BY IdsOfList
  <2>4. B \in Seq(ItemSet(X)) /\ C \in Seq(ItemSet(X))
    BY <2>2, <2>3, ItemsOfList
  <2>5. Len(B) = Len(vpcs) /\ Len(C) = Len(subnets)
    BY <2>2, <2>3, ItemsOfList
  <2>6. head \in Seq(ItemSet(X))
    BY <1>1, HeadItems
  <2> HIDE DEF B, C, head, network
  <2>7. PICK u : Joined(u, head, B)
    BY DEF Joined
  <2>8. Joined(network.items, u, C)
    BY <2>1, <2>7 DEF Joined
  <2>9. u \in Seq(ItemSet(X)) /\ Len(u) = Len(head) + Len(B)
    BY <2>4, <2>6, <2>7, JoinedParts
  <2>10. Len(network.items) = Len(u) + Len(C)
    <3>1. u \in Seq(ItemSet(X))
      BY <2>9
    <3>2. QED
      BY <2>4, <2>8, <3>1, JoinedParts
  <2>11. Len(head) \in Nat
    BY <2>6, EmptyList
  <2>12. QED
    BY <1>2, <2>5, <2>9, <2>10, <2>11
<1>4. /\ {Moved(r, g0, 0) : r \in {Hosting(k, 2) : k \in 1..Len(groups)}} = group
      /\ {Moved(r, e0, e0) : r \in {Ownership(1, m + 1) : m \in 1..Len(eips)}} = eip
  <2>1. e0 \in Nat
    BY <1>2, <1>3
  <2>2. QED
    BY <1>2, <1>3, <2>1, MovedRelations
<1>5. {Moved(r, g0, 0) : r \in mapSecurityGroupToIRE(groups, IF vpcs = <<>> THEN 0 ELSE 2).relations} =
          IF vpcs = <<>> THEN {} ELSE group
  <2>1. mapSecurityGroupToIRE(groups, IF vpcs = <<>> THEN 0 ELSE 2).relations =
            IF vpcs = <<>> THEN {} ELSE {Hosting(k, 2) : k \in 1..Len(groups)}
    <3>1. (IF vpcs = <<>> THEN 0 ELSE 2) = 0 <=> vpcs = <<>>
      OBVIOUS
    <3>2. QED
      BY <3>1, Zenon DEF mapSecurityGroupToIRE
  <2> HIDE DEF g0, group
  <2>2. QED
    BY <1>4, <2>1
<1>6. {Moved(r, e0, e0) : r \in mapEipToIRE(eips).relations} = eip
  <2>1. mapEipToIRE(eips).relations =
            IF eips = <<>> THEN {} ELSE {Ownership(1, m + 1) : m \in 1..Len(eips)}
    BY DEF mapEipToIRE, NoPayload
  <2>2. eips = <<>> => {Ownership(1, m + 1) : m \in 1..Len(eips)} = {}
    BY <1>2
  <2>3. mapEipToIRE(eips).relations = {Ownership(1, m + 1) : m \in 1..Len(eips)}
    BY <2>1, <2>2
  <2> HIDE DEF e0, eip
  <2>4. QED
    BY <1>4, <2>3
<1>7. network.relations = hosted \cup vpc \cup subnet
  BY DEF mapVpcSubnetToIRE
<1>8. Combined(vpcs, subnets, groups, eips).relations =
          hosted \cup vpc \cup subnet \cup (IF vpcs = <<>> THEN {} ELSE group) \cup eip
  <2>1. Combined(vpcs, subnets, groups, eips).relations =
            network.relations
            \cup {Moved(r, g0, 0) :
                     r \in mapSecurityGroupToIRE(groups, IF vpcs = <<>> THEN 0 ELSE 2).relations}
            \cup {Moved(r, e0, e0) : r \in mapEipToIRE(eips).relations}
    BY Zenon DEF Combined
  <2> HIDE DEF network, g0, e0, hosted, vpc, subnet, group, eip
  <2>2. QED
    BY <1>5, <1>6, <1>7, <2>1, Zenon
<1>9. HuaweiVpcReconcile(vpcs, subnets, groups, eips).relations =
          hosted \cup vpc \cup subnet \cup (IF head = <<>> THEN {} ELSE group) \cup eip
  <2>1. HuaweiVpcReconcile(vpcs, subnets, groups, eips).relations =
            (IF head = <<>> THEN {} ELSE {Hosting(2, 1)}) \cup vpc \cup subnet
            \cup (IF head = <<>> THEN {} ELSE groupAfter(Len(head) + Len(vpcs) + Len(subnets)))
            \cup eipAfter(Len(head) + Len(vpcs) + Len(subnets) + Len(groups))
    BY <1>1, ZenonT(60) DEF HuaweiVpcReconcile
  <2>2. (IF head = <<>> THEN {} ELSE {Hosting(2, 1)}) = hosted
    BY <1>1
  <2> HIDE DEF head, vpc, subnet, hosted, groupAfter, eipAfter, g0
  <2>3. QED
    BY <1>3, <2>1, <2>2, Zenon
<1>10. QED
  <2> HIDE DEF head, hosted, vpc, subnet, group, eip
  <2>1. QED
    BY <1>1, <1>8, <1>9

\* The class makes the payload of the tested parts put together, unless there
\* are security groups without any VPC.
LEMMA MirrorIsThePayload ==
    ASSUME NEW X, NEW Y, NEW vpcs \in Seq(X), NEW subnets \in Seq(Listed(X, Y)),
           NEW groups \in Seq(X), NEW eips \in Seq(X), vpcs # <<>> \/ groups = <<>>
    PROVE  HuaweiVpcReconcile(vpcs, subnets, groups, eips) = Combined(vpcs, subnets, groups, eips)
<1>1. \A p, q, r, s : p = r /\ q = s =>
          [items |-> p, relations |-> q] = [items |-> r, relations |-> s]
  OBVIOUS
<1> DEFINE H == HuaweiVpcReconcile(vpcs, subnets, groups, eips)
           C == Combined(vpcs, subnets, groups, eips)
<1>2. H = [items |-> H.items, relations |-> H.relations]
  <2>1. PICK p, q : H = [items |-> p, relations |-> q]
    BY DEF HuaweiVpcReconcile
  <2>2. QED
    BY <2>1
<1>3. C = [items |-> C.items, relations |-> C.relations]
  <2>1. PICK p, q : C = [items |-> p, relations |-> q]
    BY DEF Combined
  <2>2. QED
    BY <2>1
<1>4. C.items = H.items /\ C.relations = H.relations
  BY MirrorHasTheItems, MirrorHasTheRelations
<1> HIDE DEF H, C
<1>5. H = C
  BY <1>2, <1>3, <1>4, Zenon
<1>6. QED
  BY <1>5 DEF H, C

-----------------------------------------------------------------------------
(* The network while it is fetched.                                        *)

Names == Vpcs \cup Subnets \cup {"group", "eip 1", "eip 2"}

HasVpc(v) == v \in fresh \/ \E i \in 1..Len(listed.vpcs) : listed.vpcs[i] = v

Lists == [vpcs : Seq(Vpcs), subnets : Seq(Listed(Subnets, Vpcs)),
          groups : Seq({"group"}), eips : Seq({"eip 1", "eip 2"})]

\* Once the VPCs are listed, one that exists is in the list or was created
\* since ...
VpcsAreListed == stage >= 1 => \A v \in existing : HasVpc(v)

\* ... and so is the VPC of every listed subnet.
SubnetsHaveVpcs ==
    stage >= 2 => \A j \in 1..Len(listed.subnets) : HasVpc(listed.subnets[j].vpc_id)

NetworkInv ==
    /\ existing \subseteq Vpcs /\ fresh \subseteq Vpcs
    /\ vpcOf \in [Subnets -> existing \cup {None}]
    /\ stage \in 0..4
    /\ listed \in Lists
    /\ Len(listed.vpcs) <= Cardinality(Vpcs)
    /\ VpcsAreListed
    /\ SubnetsHaveVpcs

\* A list of a set has every element of it.
LEMMA ListsAreComplete ==
    ASSUME NEW V, IsFiniteSet(V), NEW S \in SUBSET V, NEW list \in ListsOf(S)
    PROVE  /\ Cardinality(S) \in Nat /\ Cardinality(S) <= Cardinality(V)
           /\ list \in [1..Cardinality(S) -> S]
           /\ list \in Seq(S) /\ Len(list) = Cardinality(S)
           /\ \A v \in S : \E i \in 1..Len(list) : list[i] = v
<1>1. IsFiniteSet(S) /\ Cardinality(S) \in Nat /\ Cardinality(S) <= Cardinality(V)
  BY FS_Subset, FS_CardinalityType
<1> DEFINE n == Cardinality(S)
<1>2. list \in [1..n -> S] /\ \A i, j \in 1..n : list[i] = list[j] => i = j
  BY DEF ListsOf
<1>3. list \in Injection(1..n, S)
  BY <1>2 DEF Injection, IsInjective
<1>4. Cardinality(1..n) = n
  <2>1. 0 \in Int /\ 1 \in Int /\ n \in Int
    BY <1>1
  <2>2. Cardinality(1..n) = IF 1 > n THEN 0 ELSE n - 1 + 1
    BY <2>1, FS_Interval
  <2> HIDE DEF n
  <2>3. n \in Nat
    BY <1>1 DEF n
  <2>4. QED
    BY <2>2, <2>3
<1>5. list \in Surjection(1..n, S)
  BY <1>1, <1>3, <1>4, FS_Injection
<1>6. \A v \in S : \E i \in 1..n : list[i] = v
  BY <1>5 DEF Surjection
<1> HIDE DEF n
<1>7. n \in Nat
  BY <1>1 DEF n
<1>8. list \in Seq(S) /\ Len(list) = n
  BY <1>2, <1>7
<1>9. QED
  BY <1>1, <1>2, <1>6, <1>8 DEF n

LEMMA WiderLists ==
    ASSUME NEW S, NEW T, S \subseteq T, NEW s \in Seq(S)
    PROVE  s \in Seq(T)
OBVIOUS

LEMMA SubnetsOfList ==
    ASSUME NEW I, NetworkInv, NEW list \in SubnetLists
    PROVE  /\ list \in Seq(Listed(Subnets, Vpcs))
           /\ \A j \in 1..Len(list) : list[j].vpc_id \in existing
<1> DEFINE S == {s \in Subnets : vpcOf[s] # None}
<1>1. PICK l \in ListsOf(S) :
          list = [i \in DOMAIN l |-> [id |-> l[i], vpc_id |-> vpcOf[l[i]]]]
  BY DEF SubnetLists
<1>2. IsFiniteSet(Subnets) /\ S \in SUBSET Subnets
  BY NetworkAssumption
<1> DEFINE n == Cardinality(S)
<1>3. n \in Nat /\ l \in [1..n -> S]
  BY <1>2, ListsAreComplete
<1>4. \A i \in 1..n : l[i] \in Subnets /\ vpcOf[l[i]] \in existing
  <2>1. \A s \in S : s \in Subnets /\ vpcOf[s] \in existing
    BY DEF NetworkInv
  <2> HIDE DEF S
  <2>2. QED
    BY <1>3, <2>1
<1>5. \A i \in 1..n : vpcOf[l[i]] \in Vpcs
  BY <1>4 DEF NetworkInv
<1> HIDE DEF n, S
<1>6. list = [i \in 1..n |-> [id |-> l[i], vpc_id |-> vpcOf[l[i]]]]
  BY <1>1, <1>3
<1>7. list \in [1..n -> Listed(Subnets, Vpcs)]
  BY <1>4, <1>5, <1>6 DEF Listed
<1>8. list \in Seq(Listed(Subnets, Vpcs)) /\ Len(list) = n
  BY <1>3, <1>7
<1>9. \A j \in 1..n : list[j].vpc_id \in existing
  BY <1>4, <1>6
<1>10. QED
  BY <1>8, <1>9

LEMMA InitNetworkInv == NetworkInit => NetworkInv
<1> SUFFICES ASSUME NetworkInit PROVE NetworkInv
  OBVIOUS
<1>1. Cardinality(Vpcs) \in Nat
  BY NetworkAssumption, FS_CardinalityType
<1>2. vpcOf \in [Subnets -> existing \cup {None}]
  BY DEF NetworkInit
<1>3. listed \in Lists /\ Len(listed.vpcs) = 0
  BY DEF NetworkInit, NoLists, Lists
<1>4. VpcsAreListed /\ SubnetsHaveVpcs
  BY DEF NetworkInit, VpcsAreListed, SubnetsHaveVpcs
<1>5. Len(listed.vpcs) <= Cardinality(Vpcs)
  BY <1>1, <1>3
<1>6. QED
  BY <1>2, <1>3, <1>4, <1>5 DEF NetworkInit, NetworkInv

\* While the lists stay as they are and nothing becomes old, what was listed
\* or new still is.
LEMMA ListsAreKept ==
    ASSUME listed' = listed \/ listed'.vpcs = listed.vpcs, fresh \subseteq fresh'
    PROVE  \A v : HasVpc(v) => HasVpc(v)'
<1>1. listed'.vpcs = listed.vpcs
  OBVIOUS
<1>2. QED
  BY <1>1 DEF HasVpc

LEMMA ShortLists ==
    ASSUME NEW x, NEW y
    PROVE  /\ <<>> \in Seq({x}) /\ <<x>> \in Seq({x})
           /\ <<>> \in Seq({x, y}) /\ <<x, y>> \in Seq({x, y})
OBVIOUS

LEMMA NextNetworkInv == NetworkInv /\ [NetworkNext]_networkVars => NetworkInv'
<1> SUFFICES ASSUME NetworkInv, [NetworkNext]_networkVars PROVE NetworkInv'
  OBVIOUS
<1>1. /\ existing \subseteq Vpcs /\ fresh \subseteq Vpcs
      /\ vpcOf \in [Subnets -> existing \cup {None}]
      /\ stage \in 0..4
      /\ listed \in Lists
      /\ Len(listed.vpcs) <= Cardinality(Vpcs)
      /\ VpcsAreListed
      /\ SubnetsHaveVpcs
  BY DEF NetworkInv
<1>2. \A v \in Vpcs : v # None
  BY NetworkAssumption
<1>3. ASSUME listed' = listed, stage' = stage, fresh \subseteq fresh'
      PROVE  SubnetsHaveVpcs'
  <2>1. \A v : HasVpc(v) => HasVpc(v)'
    BY <1>3, ListsAreKept
  <2>2. QED
    BY <1>1, <1>3, <2>1 DEF SubnetsHaveVpcs
<1>4. ASSUME NEW v \in Vpcs, CreateVpc(v) PROVE NetworkInv'
  <2>1. /\ existing' = existing \cup {v}
        /\ fresh' = IF stage = 0 THEN {} ELSE fresh \cup {v}
        /\ vpcOf' = vpcOf /\ stage' = stage /\ listed' = listed
    BY <1>4 DEF CreateVpc
  <2>2. /\ vpcOf' \in [Subnets -> existing' \cup {None}]
        /\ existing' \subseteq Vpcs /\ fresh' \subseteq Vpcs /\ stage' \in 0..4
    BY <1>1, <2>1
  <2>3. CASE stage = 0
    BY <1>1, <2>1, <2>2, <2>3 DEF NetworkInv, VpcsAreListed, SubnetsHaveVpcs
  <2>4. CASE stage # 0
    <3>1. fresh \subseteq fresh' /\ v \in fresh'
      BY <2>1, <2>4
    <3>2. \A u : HasVpc(u) => HasVpc(u)'
      BY <2>1, <3>1, ListsAreKept
    <3>3. HasVpc(v)'
      BY <3>1 DEF HasVpc
    <3>4. VpcsAreListed'
      BY <1>1, <2>1, <3>2, <3>3 DEF VpcsAreListed
    <3>5. SubnetsHaveVpcs'
      BY <1>3, <2>1, <3>1
    <3>6. QED
      BY <1>1, <2>1, <2>2, <3>4, <3>5 DEF NetworkInv
  <2>5. QED
    BY <2>3, <2>4
<1>5. ASSUME NEW v \in Vpcs, DeleteVpc(v) PROVE NetworkInv'
  <2>1. /\ existing' = existing \ {v} /\ \A s \in Subnets : vpcOf[s] # v
        /\ vpcOf' = vpcOf /\ stage' = stage /\ listed' = listed /\ fresh' = fresh
    BY <1>5 DEF DeleteVpc
  <2>2. vpcOf' \in [Subnets -> existing' \cup {None}]
    BY <1>1, <2>1
  <2>3. \A u : HasVpc(u) => HasVpc(u)'
    BY <2>1, ListsAreKept
  <2>4. VpcsAreListed'
    BY <1>1, <2>1, <2>3 DEF VpcsAreListed
  <2>5. SubnetsHaveVpcs'
    BY <1>3, <2>1
  <2>6. QED
    BY <1>1, <2>1, <2>2, <2>4, <2>5 DEF NetworkInv
<1>6. ASSUME existing' = existing, listed' = listed, stage' = stage, fresh' = fresh,
             vpcOf' \in [Subnets -> existing \cup {None}]
      PROVE  NetworkInv'
  <2>1. \A u : HasVpc(u) => HasVpc(u)'
    BY <1>6, ListsAreKept
  <2>2. VpcsAreListed'
    BY <1>1, <1>6, <2>1 DEF VpcsAreListed
  <2>3. SubnetsHaveVpcs'
    BY <1>3, <1>6
  <2>4. QED
    BY <1>1, <1>6, <2>2, <2>3 DEF NetworkInv
<1>7. ASSUME NEW v \in Vpcs, NEW s \in Subnets, CreateSubnet(s, v) PROVE NetworkInv'
  <2>1. vpcOf' \in [Subnets -> existing \cup {None}]
    BY <1>1, <1>7 DEF CreateSubnet
  <2>2. QED
    BY <1>6, <1>7, <2>1 DEF CreateSubnet
<1>8. ASSUME NEW s \in Subnets, DeleteSubnet(s) PROVE NetworkInv'
  <2>1. vpcOf' \in [Subnets -> existing \cup {None}]
    BY <1>1, <1>8 DEF DeleteSubnet
  <2>2. QED
    BY <1>6, <1>8, <2>1 DEF DeleteSubnet
<1>9. CASE FetchVpcs
  <2>1. PICK list \in ListsOf(existing) : listed' = [NoLists EXCEPT !.vpcs = list]
    BY <1>9 DEF FetchVpcs
  <2>2. stage' = 1 /\ fresh' = {} /\ existing' = existing /\ vpcOf' = vpcOf
    BY <1>9 DEF FetchVpcs
  <2>3. /\ list \in Seq(existing) /\ Len(list) <= Cardinality(Vpcs)
        /\ \A v \in existing : \E i \in 1..Len(list) : list[i] = v
    BY <1>1, NetworkAssumption, ListsAreComplete
  <2>4. list \in Seq(Vpcs)
    BY <1>1, <2>3, WiderLists
  <2>5. listed' = [vpcs |-> list, subnets |-> <<>>, groups |-> <<>>, eips |-> <<>>]
    BY <2>1 DEF NoLists
  <2>6. listed'.vpcs = list
    BY <2>5
  <2>7. listed' \in Lists
    BY <2>4, <2>5 DEF Lists
  <2>8. VpcsAreListed'
    BY <2>2, <2>3, <2>6 DEF VpcsAreListed, HasVpc
  <2>9. SubnetsHaveVpcs'
    BY <2>2 DEF SubnetsHaveVpcs
  <2>10. QED
    BY <1>1, <2>2, <2>3, <2>6, <2>7, <2>8, <2>9 DEF NetworkInv
<1>10. CASE FetchSubnets
  <2>1. PICK list \in SubnetLists : listed' = [listed EXCEPT !.subnets = list]
    BY <1>10 DEF FetchSubnets
  <2>2. stage = 1 /\ stage' = 2 /\ existing' = existing /\ vpcOf' = vpcOf /\ fresh' = fresh
    BY <1>10 DEF FetchSubnets
  <2>3. /\ list \in Seq(Listed(Subnets, Vpcs))
        /\ \A j \in 1..Len(list) : list[j].vpc_id \in existing
    BY SubnetsOfList
  <2>4. listed' \in Lists /\ listed'.vpcs = listed.vpcs /\ listed'.subnets = list
    BY <1>1, <2>1, <2>3 DEF Lists
  <2>5. \A u : HasVpc(u) => HasVpc(u)'
    BY <2>2, <2>4, ListsAreKept
  <2>6. VpcsAreListed'
    BY <1>1, <2>2, <2>5 DEF VpcsAreListed
  <2>7. \A v \in existing : HasVpc(v)'
    BY <2>2, <2>6 DEF VpcsAreListed
  <2>8. SubnetsHaveVpcs'
    BY <2>3, <2>4, <2>7 DEF SubnetsHaveVpcs
  <2>9. QED
    BY <1>1, <2>2, <2>4, <2>6, <2>8 DEF NetworkInv
<1>11. ASSUME listed' \in Lists, listed'.vpcs = listed.vpcs, listed'.subnets = listed.subnets,
              stage >= 2, stage' >= 2, stage' \in 0..4,
              existing' = existing, vpcOf' = vpcOf, fresh' = fresh
       PROVE  NetworkInv'
  <2>1. \A u : HasVpc(u) => HasVpc(u)'
    BY <1>11, ListsAreKept
  <2>2. VpcsAreListed'
    <3>1. \A v \in existing : HasVpc(v)
      BY <1>1, <1>11 DEF VpcsAreListed
    <3>2. QED
      BY <1>11, <2>1, <3>1 DEF VpcsAreListed
  <2>3. SubnetsHaveVpcs'
    <3>1. \A j \in 1..Len(listed.subnets) : HasVpc(listed.subnets[j].vpc_id)
      BY <1>1, <1>11 DEF SubnetsHaveVpcs
    <3>2. QED
      BY <1>11, <2>1, <3>1 DEF SubnetsHaveVpcs
  <2>4. QED
    BY <1>1, <1>11, <2>2, <2>3 DEF NetworkInv
<1>12. CASE FetchSecurityGroups
  <2>1. PICK list \in {<<>>, <<"group">>} : listed' = [listed EXCEPT !.groups = list]
    BY <1>12 DEF FetchSecurityGroups
  <2>2. list \in Seq({"group"})
    BY ShortLists, Zenon
  <2>3. /\ listed' \in Lists
        /\ listed'.vpcs = listed.vpcs /\ listed'.subnets = listed.subnets
    BY <1>1, <2>1, <2>2 DEF Lists
  <2>4. /\ stage = 2 /\ stage' = 3 /\ existing' = existing /\ vpcOf' = vpcOf /\ fresh' = fresh
    BY <1>12 DEF FetchSecurityGroups
  <2>5. QED
    BY <1>11, <2>3, <2>4
<1>13. CASE FetchEips
  <2>1. /\ stage = 3 /\ stage' = 4 /\ existing' = existing /\ vpcOf' = vpcOf /\ fresh' = fresh
    BY <1>13 DEF FetchEips
  <2>2. stage >= 2 /\ stage' >= 2 /\ stage' \in 0..4
    BY <2>1
  <2>3. PICK list \in {<<>>, <<"eip 1", "eip 2">>} : listed' = [listed EXCEPT !.eips = list]
    BY <1>13 DEF FetchEips
  <2>4. list \in Seq({"eip 1", "eip 2"})
    BY ShortLists, Zenon
  <2>5. /\ listed' \in Lists
        /\ listed'.vpcs = listed.vpcs /\ listed'.subnets = listed.subnets
    BY <1>1, <2>3, <2>4 DEF Lists
  <2>6. QED
    BY <1>11, <2>1, <2>2, <2>5, Zenon
<1>14. CASE ReconcileNetwork
  <2>1. stage' = 0 /\ existing' = existing /\ vpcOf' = vpcOf /\ listed' = listed /\ fresh' = fresh
    BY <1>14 DEF ReconcileNetwork
  <2>2. VpcsAreListed' /\ SubnetsHaveVpcs'
    BY <2>1 DEF VpcsAreListed, SubnetsHaveVpcs
  <2>3. QED
    BY <1>1, <2>1, <2>2 DEF NetworkInv
<1>15. CASE UNCHANGED networkVars
  BY <1>1, <1>6, <1>15 DEF networkVars
<1>16. QED
  BY <1>4, <1>5, <1>7, <1>8, <1>9, <1>10, <1>12, <1>13, <1>14, <1>15 DEF NetworkNext, NetworkSync

-----------------------------------------------------------------------------
(* The theorems.                                                           *)

\* The invariant of the network is that of a behaviour.
LEMMA AlwaysNetworkInv == NetworkSpec => []NetworkInv
<1>1. NetworkInit => NetworkInv
  BY InitNetworkInv
<1>2. NetworkInv /\ [NetworkNext]_networkVars => NetworkInv'
  BY NextNetworkInv
<1>3. QED
  BY <1>1, <1>2, PTL DEF NetworkSpec

\* The lists as the payload takes them.
LEMMA ListsOfPayload ==
    ASSUME NetworkInv
    PROVE  /\ listed.vpcs \in Seq(Names) /\ listed.subnets \in Seq(Listed(Names, Vpcs))
           /\ listed.groups \in Seq(Names) /\ listed.eips \in Seq(Names)
<1>1. /\ listed.vpcs \in Seq(Vpcs) /\ listed.subnets \in Seq(Listed(Subnets, Vpcs))
      /\ listed.groups \in Seq({"group"}) /\ listed.eips \in Seq({"eip 1", "eip 2"})
  BY DEF NetworkInv, Lists
<1>2. /\ Vpcs \subseteq Names /\ {"group"} \subseteq Names /\ {"eip 1", "eip 2"} \subseteq Names
      /\ Subnets \subseteq Names
  BY DEF Names
<1>3. Listed(Subnets, Vpcs) \subseteq Listed(Names, Vpcs)
  BY <1>2 DEF Listed
<1>4. QED
  BY <1>1, <1>2, <1>3, WiderLists, Zenon

LEMMA NetworkInvIsTyped == NetworkInv => NetworkTypeOK
<1> SUFFICES ASSUME NetworkInv PROVE NetworkTypeOK
  OBVIOUS
<1>1. listed.vpcs \in Seq(Vpcs)
  BY DEF NetworkInv, Lists
<1>2. \A s \in Subnets : vpcOf[s] \in existing \cup {None}
  BY DEF NetworkInv
<1>3. QED
  BY <1>1, <1>2 DEF NetworkInv, NetworkTypeOK

LEMMA NetworkInvContains == NetworkInv => PayloadIsContained
<1> SUFFICES ASSUME NetworkInv PROVE PayloadIsContained
  OBVIOUS
<1>1. /\ listed.vpcs \in Seq(Names) /\ listed.subnets \in Seq(Listed(Names, Vpcs))
      /\ listed.groups \in Seq(Names) /\ listed.eips \in Seq(Names)
  BY ListsOfPayload
<1> DEFINE P == Payload
<1>0. P = HuaweiVpcReconcile(listed.vpcs, listed.subnets, listed.groups, listed.eips)
  BY DEF Payload
<1> HIDE DEF P
<1>2. WellFormed(P)
  BY <1>0, <1>1, WellFormedVpcPayload
<1>3. ASSUME NEW i \in 1..Len(P.items)
      PROVE  \/ Satisfied(P, i)
             \/ \E j \in Unmatched :
                   P.items[i] = Item("cmdb_ci_cloud_subnet", listed.subnets[j].id)
  <2> DEFINE vpcs == listed.vpcs
             subnets == listed.subnets
             groups == listed.groups
             eips == listed.eips
  <2>1. P = HuaweiVpcReconcile(vpcs, subnets, groups, eips)
    BY <1>0
  <2>2. /\ vpcs \in Seq(Names) /\ subnets \in Seq(Listed(Names, Vpcs))
        /\ groups \in Seq(Names) /\ eips \in Seq(Names)
    BY <1>1
  <2> HIDE DEF vpcs, subnets, groups, eips
  <2>3. RelatedOrUnmatched(P, vpcs, subnets, i)
    BY <2>1, <2>2, VpcPayloadIsSatisfied
  <2>4. QED
    BY <2>3, Zenon DEF RelatedOrUnmatched, Unmatched, vpcs, subnets
<1>4. OthersAreContained
  <2> DEFINE ids == IdsOf(listed.subnets)
             servers == [i \in 1..Len(ids) |-> [id |-> ids[i], flavor |-> None]]
  <2>1. ids \in Seq(Names)
    BY <1>1, IdsOfList
  <2> HIDE DEF ids
  <2>2. servers \in Seq([id : Names, flavor : {None}])
    <3>1. Len(ids) \in Nat /\ \A i \in 1..Len(ids) : ids[i] \in Names
      BY <2>1, SeqElements
    <3>2. servers \in [1..Len(ids) -> [id : Names, flavor : {None}]]
      BY <3>1
    <3> HIDE DEF servers
    <3>3. QED
      BY <3>1, <3>2, FunctionIsList, Zenon
  <2> HIDE DEF servers
  <2>3. /\ Complete(HuaweiEvsReconcile(ids)) /\ Complete(HuaweiElbReconcile(ids))
        /\ Complete(HuaweiRdsReconcile(ids))
    BY <2>1, HostedPayloadIsComplete
       DEF HuaweiEvsReconcile, HuaweiElbReconcile, HuaweiRdsReconcile,
           mapEvsToIRE, mapElbToIRE, mapRdsToIRE
  <2>4. Complete(HuaweiCceReconcile(ids)) /\ Complete(HuaweiObsReconcile(ids))
    BY <2>1, FreePayloadIsComplete DEF HuaweiCceReconcile, HuaweiObsReconcile, mapCceToIRE, mapObsToIRE
  <2>5. Complete(HuaweiEcsReconcile(servers, {}))
    BY <2>2, EcsPayloadIsComplete
  <2>6. QED
    BY <2>3, <2>4, <2>5 DEF OthersAreContained, ids, servers
<1>5. QED
  BY <1>2, <1>3, <1>4 DEF PayloadIsContained, P

LEMMA NetworkInvPutsSubnets == NetworkInv => SubnetsUnderTheirVpc
<1> SUFFICES ASSUME NetworkInv, stage = 4
             PROVE  /\ \A j \in Unmatched : listed.subnets[j].vpc_id \in fresh
                    /\ \A r \in Payload.relations : r.type = "Contains::Contained by" =>
                          \E j \in 1..Len(listed.subnets) :
                             /\ Payload.items[r.child] = Item("cmdb_ci_cloud_subnet", listed.subnets[j].id)
                             /\ Payload.items[r.parent] = Item("cmdb_ci_network", listed.subnets[j].vpc_id)
  BY DEF SubnetsUnderTheirVpc
<1>1. /\ listed.vpcs \in Seq(Names) /\ listed.subnets \in Seq(Listed(Names, Vpcs))
      /\ listed.groups \in Seq(Names) /\ listed.eips \in Seq(Names)
  BY ListsOfPayload
<1>2. ASSUME NEW j \in Unmatched PROVE listed.subnets[j].vpc_id \in fresh
  <2>1. j \in 1..Len(listed.subnets) /\ VpcIndex(listed.vpcs, listed.subnets[j].vpc_id) = 0
    BY DEF Unmatched, Matched
  <2>2. \A i \in 1..Len(listed.vpcs) : listed.vpcs[i] # listed.subnets[j].vpc_id
    BY <1>1, <2>1, IndexIsPlace
  <2>3. HasVpc(listed.subnets[j].vpc_id)
    BY <2>1 DEF NetworkInv, SubnetsHaveVpcs
  <2>4. QED
    BY <2>2, <2>3 DEF HasVpc
<1>3. ASSUME NEW r \in Payload.relations, r.type = "Contains::Contained by"
      PROVE  \E j \in 1..Len(listed.subnets) :
                /\ Payload.items[r.child] = Item("cmdb_ci_cloud_subnet", listed.subnets[j].id)
                /\ Payload.items[r.parent] = Item("cmdb_ci_network", listed.subnets[j].vpc_id)
  <2> DEFINE P == Payload
             vpcs == listed.vpcs
             subnets == listed.subnets
             groups == listed.groups
             eips == listed.eips
  <2>1. P = HuaweiVpcReconcile(vpcs, subnets, groups, eips)
    BY DEF Payload
  <2>2. /\ vpcs \in Seq(Names) /\ subnets \in Seq(Listed(Names, Vpcs))
        /\ groups \in Seq(Names) /\ eips \in Seq(Names)
    BY <1>1
  <2> HIDE DEF vpcs, subnets, groups, eips, P
  <2>3. r \in P.relations
    BY DEF P
  <2>4. ContainedByVpc(P, subnets, r)
    BY <1>3, <2>1, <2>2, <2>3, ContainmentIsByVpc
  <2>5. QED
    BY <2>4, Zenon DEF ContainedByVpc, P, subnets
<1>4. QED
  BY <1>2, <1>3

LEMMA NetworkInvMirrors == NetworkInv => MirrorOfPartsAgrees
<1> SUFFICES ASSUME NetworkInv, listed.vpcs # <<>> \/ listed.groups = <<>>
             PROVE  Payload = Combined(listed.vpcs, listed.subnets, listed.groups, listed.eips)
  BY DEF MirrorOfPartsAgrees
<1>1. /\ listed.vpcs \in Seq(Names) /\ listed.subnets \in Seq(Listed(Names, Vpcs))
      /\ listed.groups \in Seq(Names) /\ listed.eips \in Seq(Names)
  BY ListsOfPayload
<1>2. QED
  BY <1>1, MirrorIsThePayload DEF Payload

\* Whatever is created and deleted while the four lists are fetched, and
\* whichever of them are empty, the payload of the VPC orchestrator satisfies
\* the engine but for the subnets it reports as unmatched, and so do the
\* payloads of the other classes.
THEOREM PayloadsAreContained == NetworkSpec => []PayloadIsContained
<1>1. NetworkInv => PayloadIsContained
  BY NetworkInvContains
<1>2. QED
  BY <1>1, AlwaysNetworkInv, PTL

\* Every containment relation ties a subnet to the item of its own VPC, and
\* only a VPC created during the fetch leaves a subnet without one.
THEOREM SubnetsAreUnderTheirVpc == NetworkSpec => []SubnetsUnderTheirVpc
<1>1. NetworkInv => SubnetsUnderTheirVpc
  BY NetworkInvPutsSubnets
<1>2. QED
  BY <1>1, AlwaysNetworkInv, PTL

\* The class and the tested parts make the same payload of any four lists.
THEOREM MirrorOfPartsIsFaithful == NetworkSpec => []MirrorOfPartsAgrees
<1>1. NetworkInv => MirrorOfPartsAgrees
  BY NetworkInvMirrors
<1>2. QED
  BY <1>1, AlwaysNetworkInv, PTL

=============================================================================
