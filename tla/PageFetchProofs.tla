---------------------------- MODULE PageFetchProofs ----------------------------
(***************************************************************************)
(* Theorems about PageFetch, for every class, every set of resources, page *)
(* size and retry limit, and everything that may be created and deleted    *)
(* while the pages are read.                                               *)
(*                                                                         *)
(* For offsets the argument is one about ranks: a page holds the resources *)
(* with Skipped to Skipped + Limit - 1 others before them; a creation only *)
(* raises a rank and a deletion only lowers one.                           *)
(***************************************************************************)
EXTENDS PageFetch, FiniteSetTheorems, TLAPS

\* How many resources the service lists before a.
Below(a) == Cardinality({c \in cloud : c < a})

-----------------------------------------------------------------------------
(* Pages.                                                                  *)

LEMMA ServiceFacts ==
    ASSUME service \in Services
    PROVE  /\ service.paging \in {"page", "row", "marker", "none"}
           /\ service.retriesAny \in BOOLEAN
           /\ service.paging = "marker" => service.total = FALSE
<1>1. \/ service = HuaweiECSDiscovery \/ service = HuaweiVpcDiscovery
      \/ service = HuaweiEvsDiscovery \/ service = HuaweiElbDiscovery
      \/ service = HuaweiRdsDiscovery \/ service = HuaweiCceDiscovery
      \/ service = HuaweiObsDiscovery
  BY DEF Services
<1>2. CASE service = HuaweiECSDiscovery
  BY <1>2 DEF HuaweiECSDiscovery
<1>3. CASE service = HuaweiVpcDiscovery
  BY <1>3 DEF HuaweiVpcDiscovery
<1>4. CASE service = HuaweiEvsDiscovery
  BY <1>4 DEF HuaweiEvsDiscovery
<1>5. CASE service = HuaweiElbDiscovery
  BY <1>5 DEF HuaweiElbDiscovery
<1>6. CASE service = HuaweiRdsDiscovery
  BY <1>6 DEF HuaweiRdsDiscovery
<1>7. CASE service = HuaweiCceDiscovery
  BY <1>7 DEF HuaweiCceDiscovery
<1>8. CASE service = HuaweiObsDiscovery
  BY <1>8 DEF HuaweiObsDiscovery
<1>9. QED
  BY <1>1, <1>2, <1>3, <1>4, <1>5, <1>6, <1>7, <1>8

LEMMA PrefixFacts ==
    ASSUME NEW S, IsFiniteSet(S), NEW n \in Nat, NEW P \in Prefixes(S, n)
    PROVE  /\ P \subseteq S /\ IsFiniteSet(P)
           /\ Cardinality(P) \in Nat /\ Cardinality(S) \in Nat
           /\ Cardinality(P) <= n /\ Cardinality(P) <= Cardinality(S)
           /\ P # S => Cardinality(P) = n /\ n < Cardinality(S)
           /\ \A p \in P, q \in S \ P : p < q
<1>1. /\ P \in SUBSET S
      /\ Cardinality(P) = IF Cardinality(S) < n THEN Cardinality(S) ELSE n
      /\ \A p \in P, q \in S \ P : p < q
  BY DEF Prefixes
<1>2. /\ IsFiniteSet(P)
      /\ Cardinality(P) \in Nat /\ Cardinality(S) \in Nat
      /\ Cardinality(P) <= Cardinality(S)
      /\ Cardinality(P) = Cardinality(S) => P = S
  BY <1>1, FS_Subset, FS_CardinalityType
<1>3. QED
  BY <1>1, <1>2

\* The first n are those with fewer than n before them.
LEMMA PrefixRank ==
    ASSUME NEW S \in SUBSET Nat, IsFiniteSet(S), NEW n \in Nat,
           NEW P \in Prefixes(S, n), NEW i \in S
    PROVE  /\ Cardinality({c \in S : c < i}) \in Nat
           /\ i \in P <=> Cardinality({c \in S : c < i}) < n
<1> DEFINE B == {c \in S : c < i}
<1>1. /\ P \subseteq S /\ IsFiniteSet(P)
      /\ Cardinality(P) \in Nat /\ Cardinality(P) <= n
      /\ P # S => Cardinality(P) = n
      /\ \A p \in P, q \in S \ P : p < q
  BY PrefixFacts
<1>2. IsFiniteSet(B) /\ Cardinality(B) \in Nat
  BY FS_Subset, FS_CardinalityType
<1>3. CASE i \in P
  <2>1. B \subseteq P \ {i}
    <3>1. SUFFICES ASSUME NEW c \in B PROVE c \in P \ {i}
      BY Zenon
    <3>2. c \in Nat /\ i \in Nat /\ c \in S /\ c < i
      OBVIOUS
    <3>3. c \notin P => i < c
      BY <1>1, <1>3, <3>2
    <3>4. QED
      BY <3>2, <3>3
  <2>2. IsFiniteSet(P \ {i}) /\ Cardinality(P \ {i}) = Cardinality(P) - 1
    BY <1>1, <1>3, FS_RemoveElement
  <2>3. Cardinality(B) <= Cardinality(P \ {i})
    BY <2>1, <2>2, FS_Subset
  <2>4. QED
    BY <1>1, <1>2, <1>3, <2>2, <2>3
<1>4. CASE i \notin P
  <2>1. P \subseteq B
    BY <1>1, <1>4
  <2>2. Cardinality(P) <= Cardinality(B)
    BY <1>2, <2>1, FS_Subset
  <2>3. Cardinality(P) = n
    BY <1>1, <1>4
  <2>4. QED
    BY <1>1, <1>2, <1>4, <2>2, <2>3
<1>5. QED
  BY <1>2, <1>3, <1>4

LEMMA CloudFacts ==
    ASSUME TypeOK
    PROVE  /\ cloud \subseteq Nat /\ IsFiniteSet(cloud) /\ Cardinality(cloud) \in Nat
           /\ \A a \in Nat : Below(a) \in Nat
           /\ cursor \in Nat /\ Skipped \in Nat /\ Limit \in Nat /\ Limit > 0
<1>1. cloud \subseteq Nat /\ IsFiniteSet(cloud) /\ Cardinality(cloud) \in Nat
  BY ItemsAssumption, FS_Subset, FS_CardinalityType DEF TypeOK
<1>2. ASSUME NEW a \in Nat PROVE Below(a) \in Nat
  <2>1. {c \in cloud : c < a} \subseteq cloud
    OBVIOUS
  <2>2. QED
    BY <1>1, <2>1, FS_Subset, FS_CardinalityType DEF Below
<1>3. cursor \in Nat /\ Limit \in Nat /\ Limit > 0
  BY ItemsAssumption DEF TypeOK
<1>4. Skipped \in Nat
  BY <1>3 DEF Skipped
<1>5. QED
  BY <1>1, <1>2, <1>3, <1>4

\* A page holds resources that exist at the moment of its request.
LEMMA PageIsCurrent ==
    ASSUME TypeOK, NEW page \in Pages
    PROVE  page \subseteq cloud /\ IsFiniteSet(page) /\ Cardinality(page) \in Nat
<1>1. page \subseteq cloud
  BY DEF Pages, Prefixes, After
<1>2. QED
  BY <1>1, CloudFacts, FS_Subset, FS_CardinalityType

\* A page taken at an offset, by ranks; when it leaves something behind it,
\* it is full, and there is more than has been read.
LEMMA OffsetPage ==
    ASSUME TypeOK, ByOffset, NEW page \in Pages
    PROVE  /\ \A i \in cloud : i \in page <=> Skipped <= Below(i) /\ Below(i) < Skipped + Limit
           /\ Cardinality(page) >= Limit => Cardinality(page) = Limit
           /\ (\E i \in cloud : Below(i) >= Skipped + Limit) =>
                 Cardinality(page) = Limit /\ Skipped + Limit < Cardinality(cloud)
<1>1. PICK P \in Prefixes(cloud, Skipped + Limit), Q \in Prefixes(cloud, Skipped) : page = P \ Q
  BY DEF Pages, ByOffset
<1>2. /\ cloud \in SUBSET Nat /\ IsFiniteSet(cloud) /\ Cardinality(cloud) \in Nat
      /\ Skipped \in Nat /\ Limit \in Nat /\ Limit > 0 /\ Skipped + Limit \in Nat
  BY CloudFacts
<1>3. \A i \in cloud : /\ Below(i) \in Nat
                       /\ i \in P <=> Below(i) < Skipped + Limit
                       /\ i \in Q <=> Below(i) < Skipped
  BY <1>1, <1>2, PrefixRank DEF Below
<1>4. /\ P \subseteq cloud /\ IsFiniteSet(P) /\ Cardinality(P) \in Nat
      /\ Cardinality(P) <= Skipped + Limit
      /\ P # cloud => Cardinality(P) = Skipped + Limit /\ Skipped + Limit < Cardinality(cloud)
  BY <1>1, <1>2, PrefixFacts
<1>5. /\ Q \subseteq cloud /\ IsFiniteSet(Q) /\ Cardinality(Q) \in Nat
      /\ Q # cloud => Cardinality(Q) = Skipped
  BY <1>1, <1>2, PrefixFacts
<1>6. Q \subseteq P
  BY <1>2, <1>3, <1>5
<1>7. Cardinality(page) = Cardinality(P) - Cardinality(Q)
  <2>1. P \cap Q = Q
    BY <1>6
  <2>2. Cardinality(P \ Q) = Cardinality(P) - Cardinality(P \cap Q)
    BY <1>4, FS_Difference, Zenon
  <2>3. QED
    BY <1>1, <2>1, <2>2
<1>8. Cardinality(page) >= Limit => Cardinality(page) = Limit
  <2>1. CASE Q = cloud
    BY <1>2, <1>4, <1>5, <1>6, <1>7, <2>1
  <2>2. CASE Q # cloud
    BY <1>2, <1>4, <1>5, <1>7, <2>2
  <2>3. QED
    BY <2>1, <2>2
<1>9. ASSUME NEW i \in cloud, Below(i) >= Skipped + Limit
      PROVE  Cardinality(page) = Limit /\ Skipped + Limit < Cardinality(cloud)
  <2>1. P # cloud /\ Q # cloud
    BY <1>2, <1>3, <1>6, <1>4, <1>9
  <2>2. QED
    BY <1>2, <1>4, <1>5, <1>7, <2>1
<1>10. \A i \in cloud : i \in page <=> Skipped <= Below(i) /\ Below(i) < Skipped + Limit
  BY <1>1, <1>2, <1>3
<1>11. QED
  BY <1>8, <1>9, <1>10

-----------------------------------------------------------------------------
(* Type correctness.                                                       *)

LEMMA RetryType ==
    ASSUME TypeOK, NEW may \in BOOLEAN, Retry(may), phase = "fetching"
    PROVE  TypeOK'
BY ItemsAssumption DEF TypeOK, Retry, windowVars

LEMMA NextType == TypeOK /\ [Next]_vars => TypeOK'
<1> SUFFICES ASSUME TypeOK, [Next]_vars PROVE TypeOK'
  OBVIOUS
<1>1. ASSUME NEW i \in Items, Create(i) \/ Delete(i) PROVE TypeOK'
  BY <1>1 DEF TypeOK, Create, Delete, loopVars
<1>2. ASSUME NEW page \in Pages, NEW next \in NextMarkers(page), PageArrives(page, next)
      PROVE  TypeOK'
  <2>1. page \subseteq cloud /\ Cardinality(page) \in Nat
    BY PageIsCurrent
  <2>2. next \in Nat
    BY <2>1, ItemsAssumption DEF NextMarkers, TypeOK
  <2>3. Advanced(next) \in Nat
    BY <2>2, ItemsAssumption DEF Advanced, TypeOK
  <2>4. cursor' \in Nat /\ phase' \in {"fetching", "done", "failed"}
    BY <1>2, <2>3 DEF PageArrives, TypeOK
  <2>5. QED
    BY <1>2, <2>1, <2>4, ItemsAssumption DEF PageArrives, TypeOK, windowVars
<1>3. CASE TransientFailure
  BY <1>3, RetryType DEF TransientFailure
<1>4. CASE FirmFailure
  <2>1. service.retriesAny \in BOOLEAN
    BY ServiceFacts DEF TypeOK
  <2>2. QED
    BY <1>4, <2>1, RetryType DEF FirmFailure
<1>5. CASE UNCHANGED vars
  BY <1>5 DEF TypeOK, vars, loopVars, windowVars
<1>6. QED
  BY <1>1, <1>2, <1>3, <1>4, <1>5 DEF Next

LEMMA InitType == Init => TypeOK
<1> SUFFICES ASSUME Init PROVE TypeOK
  OBVIOUS
<1>1. 0 \in 0..MaxRetries /\ 0 \in Nat
  BY ItemsAssumption
<1>2. shrunk \in BOOLEAN /\ grown \in BOOLEAN
  BY DEF Init
<1>3. cursor \in Nat /\ total \in Nat /\ attempt \in 0..MaxRetries
  BY <1>1 DEF Init
<1>4. QED
  BY <1>2, <1>3 DEF Init, TypeOK

-----------------------------------------------------------------------------
(* What the loop has read at its next request.                              *)

\* By offset: all with fewer than Skipped before them, unless a deletion
\* lowered a rank; none with more, unless a creation raised one.
OffsetInv ==
    ByOffset =>
        /\ total = Skipped
        /\ ~shrunk => \A a \in always : a \in listed \/ Below(a) >= Skipped
        /\ ~grown => \A l \in listed \cap cloud : Below(l) < Skipped

\* By marker: all of what stayed up to the marker, and nothing beyond it.
MarkerInv ==
    service.paging = "marker" =>
        /\ \A i \in always : i <= cursor => i \in listed
        /\ \A l \in listed : l <= cursor

FetchInv ==
    /\ TypeOK
    /\ listed \subseteq ever
    /\ RepeatsOnlyIfGrown
    /\ phase = "done" => Complete \/ (ByOffset /\ shrunk)
    /\ phase = "fetching" =>
          /\ always \subseteq cloud /\ cloud \subseteq ever
          /\ service.paging = "none" => listed = {}
          /\ OffsetInv
          /\ MarkerInv

LEMMA InitFetchInv == Init => FetchInv
<1> SUFFICES ASSUME Init PROVE FetchInv
  OBVIOUS
<1>1. TypeOK
  BY InitType
<1>2. /\ \A a \in Nat : Below(a) \in Nat
      /\ always \subseteq Nat \ {0}
      /\ cursor = 0 /\ Limit \in Nat
  BY <1>1, CloudFacts, ItemsAssumption DEF Init
<1>3. Skipped = 0
  BY <1>2 DEF Skipped
<1>4. \A a \in always : Below(a) >= Skipped /\ ~(a <= cursor)
  BY <1>2, <1>3
<1>5. OffsetInv
  BY <1>3, <1>4 DEF OffsetInv, Init
<1>6. MarkerInv
  BY <1>4 DEF MarkerInv, Init
<1>7. QED
  BY <1>1, <1>5, <1>6 DEF FetchInv, RepeatsOnlyIfGrown, Init

LEMMA CreateKeepsInv ==
    ASSUME FetchInv, TypeOK', NEW i \in Items, Create(i)
    PROVE  FetchInv'
<1>1. /\ phase = "fetching" /\ always \subseteq cloud /\ cloud \subseteq ever
      /\ cloud' = cloud \cup {i} /\ ever' = ever \cup {i} /\ grown' = TRUE
      /\ UNCHANGED <<service, phase, cursor, attempt, listed, total, again, always, shrunk>>
  BY DEF Create, loopVars, FetchInv
<1>2. ByOffset' = ByOffset /\ Skipped' = Skipped
  BY <1>1 DEF ByOffset, Skipped
<1>3. ASSUME NEW a \in always PROVE Below(a) <= Below(a)' /\ Below(a) \in Nat /\ Below(a)' \in Nat
  <2>1. IsFiniteSet(cloud') /\ a \in Nat
    BY ItemsAssumption, FS_Subset DEF TypeOK, FetchInv
  <2>2. /\ {c \in cloud' : c < a} \subseteq cloud'
        /\ {c \in cloud : c < a} \subseteq {c \in cloud' : c < a}
    BY <1>1
  <2>3. IsFiniteSet({c \in cloud' : c < a})
    BY <2>1, <2>2, FS_Subset
  <2>4. /\ Cardinality({c \in cloud : c < a}) <= Cardinality({c \in cloud' : c < a})
        /\ IsFiniteSet({c \in cloud : c < a})
    BY <2>2, <2>3, FS_Subset
  <2>5. QED
    BY <2>3, <2>4, FS_CardinalityType DEF Below
<1>4. OffsetInv'
  <2>1. Skipped \in Nat
    BY CloudFacts DEF FetchInv
  <2>2. OffsetInv
    BY <1>1 DEF FetchInv
  <2>3. \A a \in always : Below(a) >= Skipped => Below(a)' >= Skipped
    BY <1>3, <2>1
  <2>4. QED
    BY <1>1, <1>2, <2>2, <2>3 DEF OffsetInv
<1>5. MarkerInv'
  BY <1>1 DEF FetchInv, MarkerInv
<1>6. QED
  BY <1>1, <1>2, <1>4, <1>5 DEF FetchInv, RepeatsOnlyIfGrown

LEMMA DeleteKeepsInv ==
    ASSUME FetchInv, TypeOK', NEW i \in Items, Delete(i)
    PROVE  FetchInv'
<1>1. /\ phase = "fetching" /\ always \subseteq cloud /\ cloud \subseteq ever
      /\ cloud' = cloud \ {i} /\ always' = always \ {i} /\ shrunk' = TRUE
      /\ UNCHANGED <<service, phase, cursor, attempt, listed, total, again, ever, grown>>
  BY DEF Delete, loopVars, FetchInv
<1>2. ByOffset' = ByOffset /\ Skipped' = Skipped
  BY <1>1 DEF ByOffset, Skipped
<1>3. ASSUME NEW l \in cloud' PROVE Below(l)' <= Below(l) /\ Below(l) \in Nat /\ Below(l)' \in Nat
  <2>1. IsFiniteSet(cloud)
    BY CloudFacts DEF FetchInv
  <2>2. /\ {c \in cloud : c < l} \subseteq cloud
        /\ {c \in cloud' : c < l} \subseteq {c \in cloud : c < l}
    BY <1>1
  <2>3. IsFiniteSet({c \in cloud : c < l})
    BY <2>1, <2>2, FS_Subset
  <2>4. /\ Cardinality({c \in cloud' : c < l}) <= Cardinality({c \in cloud : c < l})
        /\ IsFiniteSet({c \in cloud' : c < l})
    BY <2>2, <2>3, FS_Subset
  <2>5. QED
    BY <2>3, <2>4, FS_CardinalityType DEF Below
<1>4. OffsetInv'
  <2>1. Skipped \in Nat
    BY CloudFacts DEF FetchInv
  <2>2. OffsetInv
    BY <1>1 DEF FetchInv
  <2>3. \A l \in cloud' : Below(l) < Skipped => Below(l)' < Skipped
    BY <1>3, <2>1
  <2>4. QED
    BY <1>1, <1>2, <2>2, <2>3 DEF OffsetInv
<1>5. MarkerInv'
  BY <1>1 DEF FetchInv, MarkerInv
<1>6. QED
  BY <1>1, <1>2, <1>4, <1>5 DEF FetchInv, RepeatsOnlyIfGrown

\* What all three ways to page have in common.
LEMMA PageFacts ==
    ASSUME FetchInv, NEW page \in Pages, NEW next \in NextMarkers(page), PageArrives(page, next)
    PROVE  /\ TypeOK /\ phase = "fetching" /\ page \subseteq cloud /\ Cardinality(page) \in Nat
           /\ always \subseteq cloud /\ cloud \subseteq ever /\ cloud \subseteq Nat
           /\ listed' = listed \cup page /\ listed' \subseteq ever
           /\ again' = again \cup (listed \cap page)
           /\ total' = total + Cardinality(page)
           /\ UNCHANGED <<service, cloud, always, ever, shrunk, grown>>
           /\ LooksForMore(page, next) => phase' = "fetching" /\ cursor' = Advanced(next)
           /\ ~LooksForMore(page, next) => phase' = "done"
<1>1. page \subseteq cloud /\ Cardinality(page) \in Nat /\ cloud \subseteq Nat
  BY PageIsCurrent, CloudFacts DEF FetchInv
<1>2. QED
  BY <1>1 DEF FetchInv, PageArrives, windowVars

LEMMA PageByOffsetKeepsInv ==
    ASSUME FetchInv, TypeOK', ByOffset, NEW page \in Pages, NEW next \in NextMarkers(page),
           PageArrives(page, next)
    PROVE  FetchInv'
<1>1. /\ TypeOK /\ phase = "fetching" /\ page \subseteq cloud /\ Cardinality(page) \in Nat
      /\ always \subseteq cloud /\ cloud \subseteq ever /\ cloud \subseteq Nat
      /\ listed' = listed \cup page /\ listed' \subseteq ever
      /\ again' = again \cup (listed \cap page)
      /\ total' = total + Cardinality(page)
      /\ UNCHANGED <<service, cloud, always, ever, shrunk, grown>>
      /\ LooksForMore(page, next) => phase' = "fetching" /\ cursor' = Advanced(next)
      /\ ~LooksForMore(page, next) => phase' = "done"
  BY PageFacts
<1>2. /\ total = Skipped
      /\ ~shrunk => \A a \in always : a \in listed \/ Below(a) >= Skipped
      /\ ~grown => \A l \in listed \cap cloud : Below(l) < Skipped
  BY <1>1 DEF FetchInv, OffsetInv
<1>3. /\ \A i \in cloud : i \in page <=> Skipped <= Below(i) /\ Below(i) < Skipped + Limit
      /\ Cardinality(page) >= Limit => Cardinality(page) = Limit
      /\ (\E i \in cloud : Below(i) >= Skipped + Limit) =>
            Cardinality(page) = Limit /\ Skipped + Limit < Cardinality(cloud)
  BY <1>1, OffsetPage
<1>4. /\ cursor \in Nat /\ Skipped \in Nat /\ Limit \in Nat /\ Limit > 0
      /\ Cardinality(cloud) \in Nat
      /\ \A i \in cloud : Below(i) \in Nat
  BY <1>1, CloudFacts
<1>5. /\ service.paging # "none" /\ service.paging # "marker" /\ ByOffset'
      /\ \A i : Below(i)' = Below(i)
  BY <1>1 DEF ByOffset, Below
<1>6. RepeatsOnlyIfGrown'
  <2>1. ~grown => listed \cap page = {}
    BY <1>1, <1>2, <1>3, <1>4
  <2>2. QED
    BY <1>1, <1>5, <2>1 DEF FetchInv, RepeatsOnlyIfGrown
<1>7. CASE LooksForMore(page, next)
  <2>1. Cardinality(page) = Limit
    BY <1>3, <1>7 DEF LooksForMore
  <2>2. Skipped' = Skipped + Limit
    <3>1. CASE service.paging = "page"
      <4>1. cursor' = cursor + 1 /\ Skipped = cursor * Limit /\ Skipped' = (cursor + 1) * Limit
        BY <1>1, <1>7, <3>1 DEF Advanced, Skipped
      <4>2. (cursor + 1) * Limit = cursor * Limit + Limit
        BY <1>4
      <4>3. QED
        BY <4>1, <4>2
    <3>2. CASE service.paging = "row"
      BY <1>1, <1>7, <3>2 DEF Advanced, Skipped
    <3>3. QED
      BY <3>1, <3>2 DEF ByOffset
  <2>3. total' = Skipped'
    BY <1>1, <1>2, <2>1, <2>2
  <2>4. ~shrunk => \A a \in always : a \in listed' \/ Below(a) >= Skipped + Limit
    BY <1>1, <1>2, <1>3, <1>4
  <2>5. ~grown => \A l \in listed' \cap cloud : Below(l) < Skipped + Limit
    BY <1>1, <1>2, <1>3, <1>4
  <2>6. OffsetInv'
    BY <1>1, <1>5, <2>2, <2>3, <2>4, <2>5 DEF OffsetInv
  <2>7. MarkerInv'
    BY <1>1, <1>5 DEF MarkerInv
  <2>8. QED
    BY <1>1, <1>5, <1>6, <1>7, <2>6, <2>7 DEF FetchInv
<1>8. CASE ~LooksForMore(page, next)
  <2>1. ASSUME ~shrunk, NEW a \in always, a \notin listed, a \notin page PROVE FALSE
    <3>1. a \in cloud /\ Below(a) >= Skipped + Limit
      BY <1>1, <1>2, <1>3, <1>4, <2>1
    <3>2. Cardinality(page) = Limit /\ Skipped + Limit < Cardinality(cloud)
      BY <1>3, <3>1
    <3>3. LooksForMore(page, next)
      BY <1>2, <1>4, <1>5, <3>2 DEF LooksForMore
    <3>4. QED
      BY <1>8, <3>3
  <2>2. Complete' \/ shrunk'
    BY <1>1, <2>1 DEF Complete
  <2>3. QED
    BY <1>1, <1>5, <1>6, <1>8, <2>2 DEF FetchInv
<1>9. QED
  BY <1>7, <1>8

LEMMA PageByMarkerKeepsInv ==
    ASSUME FetchInv, TypeOK', service.paging = "marker",
           NEW page \in Pages, NEW next \in NextMarkers(page), PageArrives(page, next)
    PROVE  FetchInv'
<1>1. /\ TypeOK /\ phase = "fetching" /\ page \subseteq cloud /\ Cardinality(page) \in Nat
      /\ always \subseteq cloud /\ cloud \subseteq ever /\ cloud \subseteq Nat
      /\ listed' = listed \cup page /\ listed' \subseteq ever
      /\ again' = again \cup (listed \cap page)
      /\ UNCHANGED <<service, cloud, always, ever, shrunk, grown>>
      /\ LooksForMore(page, next) => phase' = "fetching" /\ cursor' = Advanced(next)
      /\ ~LooksForMore(page, next) => phase' = "done"
  BY PageFacts
<1>2. /\ IsFiniteSet(cloud) /\ cursor \in Nat /\ Limit \in Nat /\ Limit > 0
  BY <1>1, CloudFacts
<1>3. /\ \A i \in always : i <= cursor => i \in listed
      /\ \A l \in listed : l <= cursor
  BY <1>1 DEF FetchInv, MarkerInv
<1>4. page \in Prefixes(After(cursor), Limit)
  BY DEF Pages
<1>5. /\ page \subseteq After(cursor)
      /\ Cardinality(page) < Limit => page = After(cursor)
      /\ \A p \in page, q \in After(cursor) \ page : p < q
  <2>1. IsFiniteSet(After(cursor))
    BY <1>2, FS_Subset DEF After
  <2>2. QED
    BY <1>2, <1>4, <2>1, PrefixFacts
<1>6. \A i \in always : i \notin listed => i \in After(cursor)
  BY <1>1, <1>2, <1>3 DEF After
<1>7. listed \subseteq Nat /\ service'.paging = "marker"
  BY <1>1, ItemsAssumption DEF TypeOK
<1>8. RepeatsOnlyIfGrown'
  <2>1. listed \cap page = {}
    BY <1>1, <1>2, <1>3, <1>5, <1>7 DEF After
  <2>2. again' = again
    BY <1>1, <2>1
  <2>3. QED
    BY <1>1, <2>2 DEF FetchInv, RepeatsOnlyIfGrown, ByOffset
<1>9. CASE LooksForMore(page, next)
  <2>1. next # 0 /\ cursor' = next /\ phase' = "fetching"
    BY <1>1, <1>9 DEF LooksForMore, Advanced
  <2>2. next \in page /\ \A p \in page : p <= next
    BY <2>1 DEF NextMarkers
  <2>3. next \in Nat /\ cursor < next
    BY <1>1, <1>2, <1>5, <2>2 DEF After
  <2>4. ASSUME NEW i \in always, i <= next, i \notin listed, i \notin page PROVE FALSE
    <3>1. next < i
      BY <1>5, <1>6, <2>2, <2>4
    <3>2. i \in Nat
      BY <1>1
    <3>3. QED
      BY <2>3, <2>4, <3>1, <3>2
  <2>5. \A l \in listed' : l <= next
    BY <1>1, <1>2, <1>3, <1>7, <2>2, <2>3
  <2>6. MarkerInv'
    BY <1>1, <2>1, <2>4, <2>5 DEF MarkerInv
  <2>7. OffsetInv'
    BY <1>7 DEF OffsetInv, ByOffset
  <2>8. QED
    BY <1>1, <1>7, <1>8, <2>1, <2>6, <2>7 DEF FetchInv
<1>10. CASE ~LooksForMore(page, next)
  <2>1. After(cursor) \subseteq page
    <3>1. CASE Cardinality(page) < Limit
      BY <1>5, <3>1
    <3>2. CASE next = 0 /\ page # {}
      <4>1. \A i \in cloud, p \in page : i > p => i \in page
        BY <1>1, <3>2, ItemsAssumption DEF NextMarkers, TypeOK
      <4>2. PICK p \in page : TRUE
        BY <3>2
      <4>3. \A q \in After(cursor) \ page : q > p
        BY <1>1, <1>5, <4>2 DEF After
      <4>4. QED
        BY <4>1, <4>2, <4>3 DEF After
    <3>3. page = {} => Cardinality(page) < Limit
      BY <1>2, FS_EmptySet
    <3>4. Cardinality(page) < Limit \/ next = 0
      <4>1. service.total = FALSE
        BY <1>1, ServiceFacts DEF TypeOK
      <4>2. QED
        BY <1>1, <1>2, <1>10, <4>1 DEF LooksForMore
    <3>5. QED
      BY <3>1, <3>2, <3>3, <3>4
  <2>2. Complete'
    BY <1>1, <1>6, <2>1 DEF Complete
  <2>3. QED
    BY <1>1, <1>8, <1>10, <2>2 DEF FetchInv
<1>11. QED
  BY <1>9, <1>10

LEMMA PageOfAllKeepsInv ==
    ASSUME FetchInv, TypeOK', service.paging = "none",
           NEW page \in Pages, NEW next \in NextMarkers(page), PageArrives(page, next)
    PROVE  FetchInv'
<1>1. /\ TypeOK /\ phase = "fetching"
      /\ always \subseteq cloud /\ cloud \subseteq ever
      /\ listed' = listed \cup page /\ listed' \subseteq ever
      /\ again' = again \cup (listed \cap page)
      /\ UNCHANGED <<service, cloud, always, ever, shrunk, grown>>
      /\ ~LooksForMore(page, next) => phase' = "done"
  BY PageFacts
<1>2. listed = {} /\ page = cloud /\ ~LooksForMore(page, next)
  BY <1>1 DEF FetchInv, Pages, LooksForMore
<1>3. again' = again /\ phase' = "done" /\ Complete'
  BY <1>1, <1>2 DEF Complete
<1>4. QED
  BY <1>1, <1>3 DEF FetchInv, RepeatsOnlyIfGrown, ByOffset

LEMMA NextFetchInv == FetchInv /\ [Next]_vars => FetchInv'
<1> SUFFICES ASSUME FetchInv, [Next]_vars PROVE FetchInv'
  OBVIOUS
<1>0. TypeOK /\ TypeOK'
  BY NextType DEF FetchInv
<1>1. ASSUME NEW i \in Items, Create(i) \/ Delete(i) PROVE FetchInv'
  BY <1>0, <1>1, CreateKeepsInv, DeleteKeepsInv
<1>2. ASSUME NEW page \in Pages, NEW next \in NextMarkers(page), PageArrives(page, next)
      PROVE  FetchInv'
  <2>1. ByOffset \/ service.paging = "marker" \/ service.paging = "none"
    BY <1>0, ServiceFacts DEF TypeOK, ByOffset
  <2>2. QED
    BY <1>0, <1>2, <2>1, PageByOffsetKeepsInv, PageByMarkerKeepsInv, PageOfAllKeepsInv
<1>3. CASE TransientFailure \/ FirmFailure
  <2>1. /\ UNCHANGED <<service, cloud, cursor, listed, total, always, ever, shrunk, grown, again>>
        /\ phase = "fetching" /\ (phase' = "failed" \/ phase' = "fetching")
    BY <1>3 DEF TransientFailure, FirmFailure, Retry, windowVars
  <2>2. OffsetInv' = OffsetInv /\ MarkerInv' = MarkerInv
    BY <2>1 DEF OffsetInv, MarkerInv, Below, Skipped, ByOffset
  <2>3. QED
    BY <1>0, <2>1, <2>2 DEF FetchInv, RepeatsOnlyIfGrown, ByOffset
<1>4. CASE UNCHANGED vars
  <2>1. UNCHANGED <<service, cloud, phase, cursor, listed, total, always, ever, shrunk, grown, again>>
    BY <1>4 DEF vars, loopVars, windowVars
  <2>2. OffsetInv' = OffsetInv /\ MarkerInv' = MarkerInv
    BY <2>1 DEF OffsetInv, MarkerInv, Below, Skipped, ByOffset
  <2>3. QED
    BY <1>0, <2>1, <2>2 DEF FetchInv, RepeatsOnlyIfGrown, ByOffset, Complete
<1>5. QED
  BY <1>1, <1>2, <1>3, <1>4 DEF Next

LEMMA AlwaysFetchInv == Spec => []FetchInv
BY InitFetchInv, NextFetchInv, PTL DEF Spec

-----------------------------------------------------------------------------
(* A fetch comes back with nothing only if there was nothing to list.      *)

SomethingInv ==
    /\ phase = "fetching" /\ listed = {} => cursor = 0
    /\ phase = "done" /\ always # {} => listed # {}

LEMMA FirstPage ==
    ASSUME TypeOK, cursor = 0, NEW page \in Pages, page = {}
    PROVE  cloud = {}
<1>1. cloud \subseteq Nat \ {0} /\ IsFiniteSet(cloud) /\ Limit \in Nat /\ Limit > 0
  BY CloudFacts, ItemsAssumption DEF TypeOK
<1>2. \A P \in Prefixes(cloud, Limit) : P = {} => cloud = {}
  BY <1>1, PrefixFacts, FS_EmptySet
<1>3. CASE service.paging = "none"
  BY <1>3 DEF Pages
<1>4. CASE service.paging = "marker"
  <2>1. After(cursor) = cloud
    <3>1. \A i \in cloud : i > cursor
      BY <1>1
    <3>2. QED
      BY <3>1 DEF After
  <2>2. QED
    BY <1>2, <1>4, <2>1 DEF Pages
<1>5. CASE service.paging \in {"page", "row"}
  <2>1. Skipped = 0 /\ Skipped + Limit = Limit
    BY <1>1 DEF Skipped
  <2>2. PICK P \in Prefixes(cloud, Limit), Q \in Prefixes(cloud, 0) : page = P \ Q
    BY <1>5, <2>1 DEF Pages
  <2>3. Cardinality(Q) <= 0 /\ Cardinality(Q) \in Nat /\ IsFiniteSet(Q)
    BY <1>1, PrefixFacts
  <2>4. Q = {}
    BY <2>3, FS_EmptySet
  <2>5. QED
    BY <1>2, <2>2, <2>4
<1>6. QED
  BY <1>3, <1>4, <1>5, ServiceFacts DEF TypeOK

LEMMA NextSomething == FetchInv /\ SomethingInv /\ [Next]_vars => SomethingInv'
<1> SUFFICES ASSUME FetchInv, SomethingInv, [Next]_vars PROVE SomethingInv'
  OBVIOUS
<1>1. ASSUME NEW i \in Items, Create(i) \/ Delete(i) PROVE SomethingInv'
  BY <1>1 DEF Create, Delete, loopVars, SomethingInv
<1>2. ASSUME NEW page \in Pages, NEW next \in NextMarkers(page), PageArrives(page, next)
      PROVE  SomethingInv'
  <2>1. /\ TypeOK /\ phase = "fetching" /\ Cardinality(page) \in Nat
        /\ always \subseteq cloud /\ listed' = listed \cup page /\ UNCHANGED always
        /\ LooksForMore(page, next) => phase' = "fetching"
        /\ ~LooksForMore(page, next) => phase' = "done"
    BY <1>2, PageFacts
  <2>2. CASE page # {}
    BY <2>1, <2>2 DEF SomethingInv
  <2>3. CASE page = {} /\ listed # {}
    BY <2>1, <2>3 DEF SomethingInv
  <2>4. CASE page = {} /\ listed = {}
    <3>1. cloud = {}
      BY <2>1, <2>4, FirstPage DEF SomethingInv
    <3>2. ~LooksForMore(page, next)
      BY <2>1, <2>4, CloudFacts, FS_EmptySet DEF LooksForMore
    <3>3. QED
      BY <2>1, <3>1, <3>2 DEF SomethingInv
  <2>5. QED
    BY <2>2, <2>3, <2>4
<1>3. CASE TransientFailure \/ FirmFailure
  BY <1>3 DEF TransientFailure, FirmFailure, Retry, SomethingInv
<1>4. CASE UNCHANGED vars
  BY <1>4 DEF vars, loopVars, windowVars, SomethingInv
<1>5. QED
  BY <1>1, <1>2, <1>3, <1>4 DEF Next

LEMMA AlwaysSomethingInv == Spec => []SomethingInv
<1>1. Init => SomethingInv
  BY DEF Init, SomethingInv
<1>2. QED
  BY <1>1, AlwaysFetchInv, NextSomething, PTL DEF Spec

-----------------------------------------------------------------------------
(* Theorems.                                                               *)

\* The loop variables keep to their types; no page is requested more than
\* MaxRetries + 1 times in a row.
THEOREM FetchTypeCorrect == Spec => []TypeOK
BY InitType, NextType, PTL DEF Spec

\* A fetch that returns a list returns everything that was there throughout,
\* whatever is created, rejected and retried while the pages are read; a
\* deletion can make only a fetch by offset miss something, and no fetch come
\* back empty while something stays.
THEOREM FetchCompleteUnlessShrunk == Spec => []CompleteUnlessShrunk
<1>1. FetchInv /\ SomethingInv => CompleteUnlessShrunk
  BY DEF FetchInv, SomethingInv, CompleteUnlessShrunk, Complete
<1>2. QED
  BY <1>1, AlwaysFetchInv, AlwaysSomethingInv, PTL

\* No fetch lists a resource twice, unless it reads by offset and something
\* is created while it does.
THEOREM FetchRepeatsOnlyIfGrown == Spec => []RepeatsOnlyIfGrown
<1>1. FetchInv => RepeatsOnlyIfGrown
  BY DEF FetchInv
<1>2. QED
  BY <1>1, AlwaysFetchInv, PTL

=============================================================================
