------------------------------ MODULE PageFetch ------------------------------
(***************************************************************************)
(* One fetch of one resource type: the page loop and the retry loop of the *)
(* discovery classes, against a list service whose contents change while   *)
(* the pages are being read.                                               *)
(*                                                                         *)
(* Resources are numbered by their place in the order the service lists    *)
(* them in; one that is created may come anywhere in that order. A page is *)
(* taken at the moment of the request.                                     *)
(***************************************************************************)
EXTENDS Integers, FiniteSets

CONSTANTS
    Items,       \* resources that may exist, as places in list order
    Limit,       \* page_limit
    MaxRetries   \* max_retry_attempts

ASSUME ItemsAssumption ==
    /\ Items \subseteq Nat \ {0} /\ IsFiniteSet(Items)
    /\ Limit \in Nat \ {0}
    /\ MaxRetries \in Nat

\* How a discovery class reads its service. The offset of a page is a page
\* number ("page") or a row number ("row"); "marker" pages follow the last
\* item of the page before; "none" is everything in one response. The
\* response may carry the total count, and the retry loop may catch its own
\* "fetch failed" error.
Service == [paging : {"page", "row", "marker", "none"}, total : BOOLEAN, retriesAny : BOOLEAN]

HuaweiECSDiscovery == [paging |-> "page",   total |-> TRUE,  retriesAny |-> FALSE]
HuaweiVpcDiscovery == [paging |-> "marker", total |-> FALSE, retriesAny |-> FALSE]
HuaweiEvsDiscovery == [paging |-> "row",    total |-> FALSE, retriesAny |-> FALSE]
HuaweiElbDiscovery == [paging |-> "marker", total |-> FALSE, retriesAny |-> FALSE]
HuaweiRdsDiscovery == [paging |-> "row",    total |-> TRUE,  retriesAny |-> FALSE]
HuaweiCceDiscovery == [paging |-> "none",   total |-> FALSE, retriesAny |-> TRUE]
HuaweiObsDiscovery == [paging |-> "none",   total |-> FALSE, retriesAny |-> TRUE]

Services == {HuaweiECSDiscovery, HuaweiVpcDiscovery, HuaweiEvsDiscovery, HuaweiElbDiscovery,
             HuaweiRdsDiscovery, HuaweiCceDiscovery, HuaweiObsDiscovery}

VARIABLES
    service,   \* which class fetches (never changes)
    cloud,     \* what exists now
    phase,     \* "fetching", "done" or "failed" (an exception was thrown)
    cursor,    \* page index, row offset or marker of the next request
    attempt,   \* attempts already made for this page
    listed,    \* what the pages so far contained
    total,     \* the length of the list they were concatenated to
    always,    \* history: what existed all the time since the fetch began
    ever,      \* history: what existed at some time since it began
    shrunk,    \* history: something was deleted since it began
    grown,     \* history: something was created since it began
    again      \* history: what the pages listed more than once

loopVars == <<phase, cursor, attempt, listed, total, again>>
windowVars == <<service, cloud, always, ever, shrunk, grown>>
vars == <<loopVars, windowVars>>

Init ==
    /\ service \in Services
    /\ cloud \in SUBSET Items
    /\ phase = "fetching"
    /\ cursor = 0
    /\ attempt = 0
    /\ listed = {}
    /\ total = 0
    /\ always = cloud
    /\ ever = cloud
    /\ shrunk = FALSE
    /\ grown = FALSE
    /\ again = {}

-----------------------------------------------------------------------------
(* The list service.                                                       *)

Create(i) ==
    /\ phase = "fetching"
    /\ i \notin cloud
    /\ cloud' = cloud \cup {i}
    /\ ever' = ever \cup {i}
    /\ grown' = TRUE
    /\ UNCHANGED <<service, loopVars, always, shrunk>>

Delete(i) ==
    /\ phase = "fetching"
    /\ i \in cloud
    /\ cloud' = cloud \ {i}
    /\ always' = always \ {i}
    /\ shrunk' = TRUE
    /\ UNCHANGED <<service, loopVars, ever, grown>>

\* The first n of S, or all of it: a set of one set.
Prefixes(S, n) ==
    {P \in SUBSET S :
        /\ Cardinality(P) = IF Cardinality(S) < n THEN Cardinality(S) ELSE n
        /\ \A p \in P, q \in S \ P : p < q}

After(m) == {i \in cloud : i > m}

\* The rows before the next page.
Skipped == IF service.paging = "page" THEN cursor * Limit ELSE cursor

\* What the service may answer a request with.
Pages ==
    CASE service.paging = "none"   -> {cloud}
      [] service.paging = "marker" -> Prefixes(After(cursor), Limit)
      [] OTHER -> {P \ Q : P \in Prefixes(cloud, Skipped + Limit), Q \in Prefixes(cloud, Skipped)}

\* next_marker: the last item of a page that others follow; a service may
\* echo it for the last page as well. 0 stands for null.
NextMarkers(page) ==
    IF page = {} THEN {0}
    ELSE {m \in page : \A i \in page : i <= m}
         \cup {z \in {0} : \A i \in cloud, p \in page : i > p => i \in page}

-----------------------------------------------------------------------------
(* The page loop.                                                          *)

\* Mutant: a page that is just full ends the fetch, too.
LooksForMoreThanFull(page, next) ==
    /\ service.paging # "none"
    /\ Cardinality(page) > Limit
    /\ service.paging = "marker" => next # 0
    /\ service.total => total + Cardinality(page) < Cardinality(cloud)

\* _shouldFetchNextPage
LooksForMore(page, next) ==
    /\ service.paging # "none"
    /\ Cardinality(page) >= Limit
    /\ service.paging = "marker" => next # 0
    /\ service.total => total + Cardinality(page) < Cardinality(cloud)

Advanced(next) ==
    CASE service.paging = "marker" -> next
      [] service.paging = "page"   -> cursor + 1
      [] OTHER             -> cursor + Limit

\* Mutant: after a retry the same page is requested once more.
PageArrivesTwice(page, next) ==
    /\ phase = "fetching"
    /\ listed' = listed \cup page
    /\ again' = again \cup (listed \cap page)
    /\ total' = total + Cardinality(page)
    /\ attempt' = 0
    /\ IF LooksForMore(page, next)
       THEN /\ cursor' = IF attempt > 0 THEN cursor ELSE Advanced(next)
            /\ UNCHANGED phase
       ELSE phase' = "done" /\ UNCHANGED cursor
    /\ UNCHANGED windowVars

\* Status 200.
PageArrives(page, next) ==
    /\ phase = "fetching"
    /\ listed' = listed \cup page
    /\ again' = again \cup (listed \cap page)
    /\ total' = total + Cardinality(page)
    /\ attempt' = 0
    /\ IF LooksForMore(page, next)
       THEN cursor' = Advanced(next) /\ UNCHANGED phase
       ELSE phase' = "done" /\ UNCHANGED cursor
    /\ UNCHANGED windowVars

\* Mutant: one attempt too many.
RetryOnceMore(may) ==
    /\ IF may /\ attempt <= MaxRetries
       THEN attempt' = attempt + 1 /\ UNCHANGED phase
       ELSE phase' = "failed" /\ UNCHANGED attempt
    /\ UNCHANGED <<cursor, listed, total, again, windowVars>>

\* Mutant: the attempts start anew instead of running out.
RetryForEver(may) ==
    /\ IF may
       THEN attempt' = (attempt + 1) % (MaxRetries + 1) /\ UNCHANGED phase
       ELSE phase' = "failed" /\ UNCHANGED attempt
    /\ UNCHANGED <<cursor, listed, total, again, windowVars>>

\* _shouldRetry: try the same page again, or give up with an exception.
Retry(may) ==
    /\ IF may /\ attempt < MaxRetries
       THEN attempt' = attempt + 1 /\ UNCHANGED phase
       ELSE phase' = "failed" /\ UNCHANGED attempt
    /\ UNCHANGED <<cursor, listed, total, again, windowVars>>

\* Status 429, 500, 502, 503 or 504.
TransientFailure ==
    /\ phase = "fetching"
    /\ Retry(TRUE)

\* Any other status, no connection, a body that does not parse.
FirmFailure ==
    /\ phase = "fetching"
    /\ Retry(service.retriesAny)

Next ==
    \/ \E i \in Items : Create(i) \/ Delete(i)
    \/ \E page \in Pages : \E next \in NextMarkers(page) : PageArrives(page, next)
    \/ TransientFailure
    \/ FirmFailure

\* The service answers every request in some way.
Answered ==
    \/ \E page \in Pages : \E next \in NextMarkers(page) : PageArrives(page, next)
    \/ TransientFailure
    \/ FirmFailure

Spec == Init /\ [][Next]_vars
FairSpec == Spec /\ WF_vars(Answered)

-----------------------------------------------------------------------------
(* Properties.                                                             *)

TypeOK ==
    /\ service \in Services
    /\ cloud \subseteq Items /\ always \subseteq Items /\ ever \subseteq Items
    /\ phase \in {"fetching", "done", "failed"}
    /\ cursor \in Nat
    /\ attempt \in 0..MaxRetries
    /\ listed \subseteq Items /\ again \subseteq Items
    /\ total \in Nat
    /\ shrunk \in BOOLEAN /\ grown \in BOOLEAN

ByOffset == service.paging \in {"page", "row"}

\* Everything that was there throughout, nothing that never was.
Complete == always \subseteq listed /\ listed \subseteq ever

\* A fetch that returns a list, rather than throwing, returns a complete one,
\* however the service's contents changed between the pages: the sync takes
\* what is not listed for gone.
FetchIsComplete == phase = "done" => Complete

\* ... which holds of every class unless its pages are offsets and something
\* was deleted while they were read: creations only push later items to
\* later pages, and retries lose nothing. Even then the list holds nothing
\* that never existed, and it is empty only if nothing existed throughout.
CompleteUnlessShrunk ==
    phase = "done" =>
        /\ listed \subseteq ever
        /\ always # {} => listed # {}
        /\ always \subseteq listed \/ (ByOffset /\ shrunk)

\* No resource is listed twice unless the pages are offsets and something was
\* created while they were read; a retried page is not appended twice.
RepeatsOnlyIfGrown == again # {} => ByOffset /\ grown

\* The page loop and the retry loop end: with a list or with an exception.
FetchEnds == <>(phase # "fetching")

=============================================================================
