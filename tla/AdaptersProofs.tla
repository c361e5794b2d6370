---------------------------- MODULE AdaptersProofs ----------------------------
(***************************************************************************)
(* Theorems about TokenFetch, DiskFields and ProvisionScript, for any      *)
(* number of runs, pages, retries, clocks, volumes, servers and calls, and *)
(* about Adapters, in which they rest beside AlarmEvents and NetworkFetch. *)
(***************************************************************************)
EXTENDS Adapters, AlarmEventsProofs, NetworkFetchProofs

-----------------------------------------------------------------------------
(* The password-authenticated fetch.                                       *)

TokenTyped ==
    /\ time \in 0..MaxClock
    /\ refusing \in BOOLEAN
    /\ cache \in Tokens \cup {NoToken}
    /\ doing \in [Users -> {"idle", "authenticating", "paging"}]
    /\ token \in [Users -> Tokens \cup {NoToken}]
    /\ pages \in [Users -> Seq(1..LastPage)]
    /\ attempt \in [Users -> 0..maxRetries]
    /\ reauthed \in [Users -> BOOLEAN]

\* The pages of a run are the first ones; more are to come while it runs.
PagesInv(u) ==
    /\ \A i \in 1..Len(pages[u]) : pages[u][i] = i
    /\ doing[u] # "idle" => Len(pages[u]) < LastPage
    /\ doing[u] = "paging" => token[u] # NoToken

TokenInv == TokenTyped /\ \A u \in Users : PagesInv(u)

LEMMA Bounds ==
    /\ LastPage \in Nat /\ LastPage > 0 /\ Lifetime \in Nat /\ maxRetries \in Nat
    /\ MaxClock \in Nat /\ Skew \in Nat /\ Drift \in Nat /\ Drift <= Skew
    /\ NoToken \notin Nat
BY TokenAssumption

LEMMA InitTokenInv == TokenInit => TokenInv
<1> SUFFICES ASSUME TokenInit PROVE TokenInv
  OBVIOUS
<1>1. TokenTyped
  <2>1. <<>> \in Seq(1..LastPage) /\ 0 \in 0..maxRetries /\ 0 \in 0..MaxClock
    BY Bounds
  <2>2. QED
    BY <2>1 DEF TokenInit, TokenTyped
<1>2. ASSUME NEW u \in Users PROVE PagesInv(u)
  <2>1. pages[u] = <<>> /\ doing[u] = "idle"
    BY DEF TokenInit
  <2>2. QED
    BY <2>1 DEF PagesInv
<1>3. QED
  BY <1>1, <1>2 DEF TokenInv

\* A run's step disturbs no other run; the cache is not part of the invariant
\* but for its type.
LEMMA RunStep ==
    ASSUME TokenInv, NEW u \in Users, TokenTyped', PagesInv(u)',
           \A v \in Users : v # u => /\ doing'[v] = doing[v] /\ token'[v] = token[v]
                                     /\ pages'[v] = pages[v]
    PROVE  TokenInv'
<1>1. ASSUME NEW v \in Users PROVE PagesInv(v)'
  <2>1. CASE v # u
    BY <2>1 DEF TokenInv, PagesInv
  <2>2. QED
    BY <2>1
<1>2. QED
  BY <1>1 DEF TokenInv

LEMMA StartKeepsInv ==
    ASSUME TokenInv, NEW u \in Users, GetIAMToken(u)
    PROVE  TokenInv'
<1>0. TokenTyped /\ LastPage \in Nat /\ LastPage > 0 /\ 0 \in 0..maxRetries
  BY Bounds DEF TokenInv
<1>1. /\ pages' = [pages EXCEPT ![u] = <<>>]
      /\ attempt' = [attempt EXCEPT ![u] = 0] /\ reauthed' = [reauthed EXCEPT ![u] = FALSE]
      /\ UNCHANGED <<time, refusing, cache>>
  BY DEF GetIAMToken
<1>2. \/ /\ cache # NoToken /\ token' = [token EXCEPT ![u] = cache]
         /\ doing' = [doing EXCEPT ![u] = "paging"]
      \/ /\ token' = [token EXCEPT ![u] = NoToken]
         /\ doing' = [doing EXCEPT ![u] = "authenticating"]
  BY DEF GetIAMToken, IsTokenValid
<1>3. TokenTyped'
  <2>1. <<>> \in Seq(1..LastPage)
    OBVIOUS
  <2>2. pages' \in [Users -> Seq(1..LastPage)]
    BY <1>0, <1>1, <2>1 DEF TokenTyped
  <2>3. token' \in [Users -> Tokens \cup {NoToken}]
        /\ doing' \in [Users -> {"idle", "authenticating", "paging"}]
    BY <1>0, <1>2 DEF TokenTyped
  <2>4. QED
    BY <1>0, <1>1, <2>2, <2>3 DEF TokenTyped
<1>4. pages'[u] = <<>> /\ (doing'[u] = "paging" => token'[u] # NoToken)
  BY <1>0, <1>1, <1>2 DEF TokenTyped
<1>5. PagesInv(u)'
  BY <1>0, <1>4 DEF PagesInv
<1>6. QED
  BY <1>0, <1>1, <1>2, <1>3, <1>5, RunStep DEF TokenTyped

LEMMA ResponseKeepsInv ==
    ASSUME TokenInv, NEW u \in Users, Respond(u)
    PROVE  TokenInv'
<1>0. TokenTyped /\ PagesInv(u) /\ LastPage \in Nat /\ LastPage > 0 /\ 0 \in 0..maxRetries
  BY Bounds DEF TokenInv
<1>1. CASE PageReturned(u)
  <2>1. /\ pages' = [pages EXCEPT ![u] = Append(pages[u], Len(pages[u]) + 1)]
        /\ attempt' = [attempt EXCEPT ![u] = 0]
        /\ IF Len(pages[u]) + 1 = LastPage
             THEN doing' = [doing EXCEPT ![u] = "idle"]
             ELSE UNCHANGED doing
        /\ UNCHANGED <<time, refusing, cache, token, reauthed>>
        /\ doing[u] = "paging"
    BY <1>1 DEF PageReturned, Ends
  <2>2. /\ pages[u] \in Seq(1..LastPage) /\ Len(pages[u]) \in Nat
        /\ Len(pages[u]) + 1 \in 1..LastPage
    <3>1. pages[u] \in Seq(1..LastPage)
      BY <1>0 DEF TokenTyped
    <3>2. Len(pages[u]) \in Nat /\ Len(pages[u]) < LastPage
      BY <1>0, <2>1, <3>1 DEF PagesInv
    <3>3. QED
      BY <1>0, <3>1, <3>2
  <2>3. /\ Append(pages[u], Len(pages[u]) + 1) \in Seq(1..LastPage)
        /\ Len(Append(pages[u], Len(pages[u]) + 1)) = Len(pages[u]) + 1
        /\ \A i \in 1..(Len(pages[u]) + 1) : Append(pages[u], Len(pages[u]) + 1)[i] = i
    BY <1>0, <2>2 DEF PagesInv
  <2>4. pages'[u] = Append(pages[u], Len(pages[u]) + 1)
    BY <1>0, <2>1 DEF TokenTyped
  <2>5. TokenTyped'
    <3>1. pages' \in [Users -> Seq(1..LastPage)]
      BY <1>0, <2>1, <2>3 DEF TokenTyped
    <3>2. attempt' \in [Users -> 0..maxRetries]
      BY <1>0, <2>1 DEF TokenTyped
    <3>3. QED
      BY <1>0, <2>1, <3>1, <3>2 DEF TokenTyped
  <2>6. PagesInv(u)'
    <3>1. Len(pages'[u]) = Len(pages[u]) + 1 /\ \A i \in 1..Len(pages'[u]) : pages'[u][i] = i
      BY <2>3, <2>4
    <3>2. CASE Len(pages[u]) + 1 = LastPage
      BY <1>0, <2>1, <3>1, <3>2 DEF TokenTyped, PagesInv
    <3>3. CASE Len(pages[u]) + 1 # LastPage
      BY <1>0, <2>1, <2>2, <3>1, <3>3 DEF PagesInv
    <3>4. QED
      BY <3>2, <3>3
  <2>7. QED
    BY <1>0, <2>1, <2>5, <2>6, RunStep DEF TokenTyped
<1>2. CASE Authenticated(u)
  <2>1. time + Lifetime \in Tokens /\ time + Lifetime # NoToken
    <3>1. time \in 0..MaxClock
      BY <1>0 DEF TokenTyped
    <3>2. time + Lifetime \in Nat /\ time + Lifetime \in 0..(MaxClock + Lifetime)
      BY <3>1, Bounds
    <3>3. QED
      BY <3>2, Bounds DEF Tokens
  <2>2. TokenTyped'
    BY <1>0, <1>2, <2>1 DEF TokenTyped, Authenticated
  <2>3. PagesInv(u)'
    BY <1>0, <1>2, <2>1 DEF TokenTyped, PagesInv, Authenticated
  <2>4. QED
    BY <1>0, <1>2, <2>2, <2>3, RunStep DEF TokenTyped, Authenticated
<1>3. CASE AuthenticationFails(u) \/ PageFails(u)
  <2>1. TokenTyped' /\ PagesInv(u)'
    BY <1>0, <1>3 DEF TokenTyped, PagesInv, AuthenticationFails, PageFails, Ends
  <2>2. QED
    BY <1>0, <1>3, <2>1, RunStep DEF TokenTyped, AuthenticationFails, PageFails, Ends
<1>4. CASE RetryLater(u)
  <2>1. attempt' \in [Users -> 0..maxRetries]
    <3>1. attempt[u] \in 0..maxRetries /\ attempt[u] < maxRetries
      BY <1>0, <1>4 DEF TokenTyped, RetryLater
    <3>2. attempt[u] + 1 \in 0..maxRetries
      BY <3>1, Bounds
    <3>3. QED
      BY <1>0, <1>4, <3>2 DEF TokenTyped, RetryLater
  <2>2. TokenTyped' /\ PagesInv(u)'
    BY <1>0, <1>4, <2>1 DEF TokenTyped, PagesInv, RetryLater
  <2>3. QED
    BY <1>0, <1>4, <2>2, RunStep DEF TokenTyped, RetryLater
<1>5. CASE Unauthorized(u)
  <2>1. TokenTyped'
    BY <1>0, <1>5 DEF TokenTyped, Unauthorized, Ends
  <2>2. PagesInv(u)'
    BY <1>0, <1>5 DEF TokenTyped, PagesInv, Unauthorized, Ends
  <2>3. QED
    BY <1>0, <1>5, <2>1, <2>2, RunStep DEF TokenTyped, Unauthorized, Ends
<1>6. QED
  BY <1>1, <1>2, <1>3, <1>4, <1>5 DEF Respond

LEMMA NextTokenInv == TokenInv /\ [TokenNext]_tokenVars => TokenInv'
<1> SUFFICES ASSUME TokenInv, [TokenNext]_tokenVars PROVE TokenInv'
  OBVIOUS
<1>1. CASE Pass \/ SwitchRefusing
  <2>1. /\ time' \in 0..MaxClock /\ refusing' \in BOOLEAN
        /\ UNCHANGED <<cache, doing, token, pages, attempt, reauthed>>
    <3>1. time \in 0..MaxClock /\ refusing \in BOOLEAN
      BY DEF TokenInv, TokenTyped
    <3>2. CASE Pass
      BY <3>1, <3>2, Bounds DEF Pass, runState
    <3>3. CASE SwitchRefusing
      BY <3>1, <3>3 DEF SwitchRefusing, runState
    <3>4. QED
      BY <1>1, <3>2, <3>3
  <2>2. QED
    BY <2>1 DEF TokenInv, TokenTyped, PagesInv
<1>2. CASE UNCHANGED tokenVars
  BY <1>2 DEF tokenVars, runState, TokenInv, TokenTyped, PagesInv
<1>3. QED
  BY <1>1, <1>2, StartKeepsInv, ResponseKeepsInv DEF TokenNext

LEMMA AlwaysTokenInv == TokenSpec => []TokenInv
BY InitTokenInv, NextTokenInv, PTL DEF TokenSpec

\* Runs and the cache they share keep to their types.
THEOREM TokenTypeCorrect == TokenSpec => []TokenTypeOK
<1>1. TokenInv => TokenTypeOK
  BY DEF TokenInv, TokenTyped, PagesInv, TokenTypeOK
<1>2. QED
  BY <1>1, AlwaysTokenInv, PTL

\* Retries, expired tokens and re-authentication neither skip a page nor
\* append one twice.
THEOREM PagesStayInOrder == TokenSpec => []PagesInOrder
<1>1. TokenInv => PagesInOrder
  BY DEF TokenInv, PagesInv, PagesInOrder
<1>2. QED
  BY <1>1, AlwaysTokenInv, PTL

\* While the clocks differ by no more than the skew, no run takes a token
\* from the cache that has expired at the service.
THEOREM CachedTokensAreCurrent == TokenSpec => CachedTokenIsCurrent
<1> DEFINE Current ==
      \A u \in Users : (doing[u] = "idle" /\ doing'[u] = "paging") => time < token'[u]
<1>1. TokenInv /\ [TokenNext]_tokenVars => [Current]_tokenVars
  <2> SUFFICES ASSUME TokenInv, TokenNext, NEW u \in Users,
                      doing[u] = "idle", doing'[u] = "paging"
               PROVE  time < token'[u]
    OBVIOUS
  <2>1. TokenTyped
    BY DEF TokenInv
  <2>2. GetIAMToken(u)
    BY <2>1 DEF TokenNext, TokenTyped, Pass, SwitchRefusing, runState, GetIAMToken, Respond,
                Authenticated, AuthenticationFails, RetryLater, PageReturned, PageFails,
                Unauthorized, Ends
  <2>3. IsTokenValid(cache) /\ token'[u] = cache
    BY <2>1, <2>2 DEF GetIAMToken, TokenTyped
  <2>4. cache \in Nat /\ time \in Nat
    <3>1. time \in 0..MaxClock /\ cache # NoToken
      BY <2>1, <2>3 DEF TokenTyped, IsTokenValid
    <3>2. cache \in Tokens
      BY <2>1, <3>1 DEF TokenTyped
    <3>3. QED
      BY <3>1, <3>2, Bounds DEF Tokens
  <2>5. QED
    BY <2>3, <2>4, Bounds DEF IsTokenValid
<1>2. QED
  BY <1>1, AlwaysTokenInv, PTL DEF TokenSpec, CachedTokenIsCurrent

-----------------------------------------------------------------------------
(* The disk fields of the server CIs.                                      *)

\* What DiskTypeOK says, as sets of functions.
DiskInv ==
    /\ attachments \in [Volumes -> Seq(Servers)]
    /\ serverCis \subseteq Servers
    /\ disks \in [Servers -> Sums \cup {NoDisks}]
    /\ \A s \in Servers : disks[s] # NoDisks => s \in serverCis
    /\ sums \in [Writers -> UNION {[X -> Sums] : X \in SUBSET Servers}]

LEMMA InitDiskInv == DiskInit => DiskInv
<1> SUFFICES ASSUME DiskInit PROVE DiskInv
  OBVIOUS
<1>1. <<>> \in Seq(Servers)
  OBVIOUS
<1>2. <<>> \in [{} -> Sums]
  OBVIOUS
<1>3. <<>> \in UNION {[X -> Sums] : X \in SUBSET Servers}
  BY <1>2
<1>4. QED
  BY <1>1, <1>3 DEF DiskInit, DiskInv

\* What a sync has fetched is the sum of volumes, for some of the servers.
LEMMA AggregatesAreSums == AggregateDisksByServer \in UNION {[X -> Sums] : X \in SUBSET Servers}
<1> DEFINE X == {x \in Servers : AttachedTo(x) # {}}
<1>1. \A s \in X : AttachedTo(s) \in (SUBSET Volumes) \ {{}}
  BY DEF AttachedTo
<1>2. \A s \in X : Aggregated(AttachedTo(s)) \in Sums
  BY <1>1 DEF Sums
<1>3. AggregateDisksByServer = [s \in X |-> Aggregated(AttachedTo(s))]
  BY DEF AggregateDisksByServer
<1>4. AggregateDisksByServer \in [X -> Sums]
  <2> HIDE DEF X
  <2>1. QED
    BY <1>2, <1>3
<1>5. X \in SUBSET Servers
  OBVIOUS
<1>6. QED
  BY <1>4, <1>5

\* Writing one server's fields takes it off the list.
LEMMA WriteKeepsDiskInv ==
    ASSUME DiskInv, NEW w \in Writers, NEW s \in Servers, UpdateEcsDiskFields(w, s)
    PROVE  DiskInv'
<1>1. PICK X \in SUBSET Servers : sums[w] \in [X -> Sums]
  BY DEF DiskInv
<1>2. s \in X /\ sums[w][s] \in Sums
  BY <1>1 DEF UpdateEcsDiskFields
<1>3. [x \in X \ {s} |-> sums[w][x]] \in [X \ {s} -> Sums]
  BY <1>1
<1>4. [x \in X \ {s} |-> sums[w][x]] \in UNION {[Y -> Sums] : Y \in SUBSET Servers}
  BY <1>3
<1>5. sums' = [sums EXCEPT ![w] = [x \in X \ {s} |-> sums[w][x]]]
  BY <1>1 DEF UpdateEcsDiskFields, Written, DiskInv
<1>6. sums' \in [Writers -> UNION {[Y -> Sums] : Y \in SUBSET Servers}]
  BY <1>4, <1>5 DEF DiskInv
<1>7. /\ disks' \in [Servers -> Sums \cup {NoDisks}]
      /\ \A x \in Servers : disks'[x] # NoDisks => x \in serverCis
  BY <1>2 DEF UpdateEcsDiskFields, DiskInv
<1>8. QED
  BY <1>6, <1>7 DEF UpdateEcsDiskFields, DiskInv, Sums, Aggregated

LEMMA NextDiskInv == DiskInv /\ [DiskNext]_diskVars => DiskInv'
<1> SUFFICES ASSUME DiskInv, [DiskNext]_diskVars PROVE DiskInv'
  OBVIOUS
<1> USE DEF DiskInv
<1>1. CASE \E v \in Volumes : Detach(v) \/ \E s \in Servers : Attach(v, s)
  <2>1. attachments' \in [Volumes -> Seq(Servers)]
    <3>1. PICK v \in Volumes : Detach(v) \/ \E s \in Servers : Attach(v, s)
      BY <1>1
    <3>2. attachments[v] \in Seq(Servers)
      OBVIOUS
    <3>3. CASE Detach(v)
      <4>1. Tail(attachments[v]) \in Seq(Servers)
        BY <3>2, <3>3, HeadTailProperties DEF Detach
      <4>2. QED
        BY <3>3, <4>1 DEF Detach
    <3>4. CASE \E s \in Servers : Attach(v, s)
      <4>1. PICK s \in Servers : Attach(v, s)
        BY <3>4
      <4>2. Append(attachments[v], s) \in Seq(Servers)
        BY <3>2
      <4>3. QED
        BY <4>1, <4>2 DEF Attach
    <3>5. QED
      BY <3>1, <3>3, <3>4
  <2>2. UNCHANGED <<serverCis, disks, sums>>
    BY <1>1 DEF Attach, Detach
  <2>3. QED
    BY <2>1, <2>2
<1>2. CASE \E s \in Servers : CreateServerCi(s)
  BY <1>2 DEF CreateServerCi
<1>3. ASSUME NEW w \in Writers, VolumesFetched(w)
      PROVE  DiskInv'
  BY <1>3, AggregatesAreSums DEF VolumesFetched
<1>4. ASSUME NEW w \in Writers, UpdateThrows(w)
      PROVE  DiskInv'
  <2>1. <<>> \in [{} -> Sums]
    OBVIOUS
  <2>2. <<>> \in UNION {[X -> Sums] : X \in SUBSET Servers}
    BY <2>1
  <2>3. QED
    BY <1>4, <2>2 DEF UpdateThrows
<1>5. CASE UNCHANGED diskVars
  BY <1>5 DEF diskVars
<1>6. QED
  BY <1>1, <1>2, <1>3, <1>4, <1>5, WriteKeepsDiskInv DEF DiskNext, Write

\* The fields of a server are never anything but the sum of some volumes, and
\* only a server that has a CI has any.
THEOREM DiskTypeCorrect == DiskSpec => []DiskTypeOK
<1>1. DiskInv => DiskTypeOK
  <2> SUFFICES ASSUME DiskInv PROVE DiskTypeOK
    OBVIOUS
  <2>1. \A w \in Writers : \A s \in DOMAIN sums[w] : s \in Servers /\ sums[w][s] \in Sums
    BY DEF DiskInv
  <2>2. QED
    BY <2>1 DEF DiskInv, DiskTypeOK
<1>2. QED
  BY <1>1, InitDiskInv, NextDiskInv, PTL DEF DiskSpec

-----------------------------------------------------------------------------
(* The provisioning script.                                                *)

\* The keys of the rows the script creates.
Keys == {script[i].row : i \in 1..Len(script)}

\* No row twice; what the runner has passed is there, and what it is about to
\* insert is not.
ProvisionInv ==
    /\ script \in Seq(Call)
    /\ next \in 0..(Len(script) + 1)
    /\ missing \in BOOLEAN
    /\ missing => Running /\ ~Exists(script[next])
    /\ rows \in Seq(Keys)
    /\ IsInjective(rows)
    /\ \A i \in 1..Len(script) : i < next \/ finished => Exists(script[i])

\* A script without a call does nothing; nor does one that has not begun.
LEMMA RestsProvisionInv ==
    ASSUME script \in Seq(Call), next = 0, missing = FALSE, rows = <<>>, finished = FALSE
    PROVE  ProvisionInv
<1>1. Len(script) \in Nat
  OBVIOUS
<1>2. IsInjective(rows) /\ rows \in Seq(Keys)
  BY DEF IsInjective
<1>3. \A i \in 1..Len(script) : ~(i < next \/ finished)
  BY <1>1
<1>4. missing \in BOOLEAN /\ ~missing
  OBVIOUS
<1>5. next \in 0..(Len(script) + 1)
  BY <1>1
<1>6. QED
  BY <1>2, <1>3, <1>4, <1>5 DEF ProvisionInv

LEMMA InitProvisionInv == ProvisionInit => ProvisionInv
BY RestsProvisionInv, ScriptsAssumption DEF ProvisionInit

\* Inserting a row that is not there.
LEMMA InsertKeepsInv ==
    ASSUME ProvisionInv, Insert
    PROVE  ProvisionInv'
<1> DEFINE key == script[next].row
<1>1. /\ rows' = Append(rows, key)
      /\ missing' = FALSE /\ next' = next + 1 /\ UNCHANGED <<script, finished>>
  BY DEF Insert
<1>2. /\ Len(script) \in Nat /\ next \in 1..Len(script) /\ key \in Keys
      /\ \A i \in 1..Len(rows) : rows[i] # key
  BY DEF Insert, ProvisionInv, Running, Exists, Contains, Keys
<1>3. rows \in Seq(Keys) /\ Keys' = Keys
  BY <1>1 DEF ProvisionInv, Keys
<1> HIDE DEF key
<1>4. /\ rows' \in Seq(Keys)
      /\ Len(rows') = Len(rows) + 1
      /\ \A i \in 1..Len(rows) : rows'[i] = rows[i]
      /\ rows'[Len(rows) + 1] = key
  BY <1>1, <1>2, <1>3, AppendProperties
<1>5. Len(rows) \in Nat /\ DOMAIN rows = 1..Len(rows) /\ DOMAIN rows' = 1..(Len(rows) + 1)
  BY <1>3, <1>4
<1>6. IsInjective(rows')
  <2> SUFFICES ASSUME NEW i \in 1..(Len(rows) + 1), NEW j \in 1..(Len(rows) + 1),
                      rows'[i] = rows'[j]
               PROVE  i = j
    BY <1>5 DEF IsInjective
  <2>1. CASE i \in 1..Len(rows) /\ j \in 1..Len(rows)
    BY <1>4, <1>5, <2>1 DEF ProvisionInv, IsInjective
  <2>2. CASE i = Len(rows) + 1 \/ j = Len(rows) + 1
    BY <1>2, <1>4, <1>5, <2>2
  <2>3. QED
    BY <1>5, <2>1, <2>2
<1>7. \A i \in 1..Len(script) : i < next' \/ finished => Contains(rows', script[i].row)
  <2> SUFFICES ASSUME NEW i \in 1..Len(script), i < next + 1 \/ finished
               PROVE  \E j \in 1..(Len(rows) + 1) : rows'[j] = script[i].row
    BY <1>1, <1>4 DEF Contains
  <2>1. CASE i = next
    BY <1>4, <1>5, <2>1 DEF key
  <2>2. CASE i # next
    <3>1. \E j \in 1..Len(rows) : rows[j] = script[i].row
      BY <1>2, <2>2 DEF ProvisionInv, Exists, Contains
    <3>2. QED
      BY <1>4, <1>5, <3>1
  <2>3. QED
    BY <2>1, <2>2
<1>8. next' \in 0..(Len(script) + 1)
  BY <1>1, <1>2
<1>9. QED
  BY <1>1, <1>3, <1>4, <1>6, <1>7, <1>8 DEF ProvisionInv, Exists

LEMMA NextProvisionInv == ProvisionInv /\ [ProvisionNext]_provisionVars => ProvisionInv'
<1> SUFFICES ASSUME ProvisionInv, [ProvisionNext]_provisionVars PROVE ProvisionInv'
  OBVIOUS
<1>0. Len(script) \in Nat
  BY DEF ProvisionInv
<1>1. CASE Run \/ AlreadyExists \/ NotFound \/ Done \/ Dies
  <2>1. UNCHANGED <<script, rows>> /\ missing' \in BOOLEAN
    BY <1>1 DEF ProvisionInv, Run, AlreadyExists, NotFound, Done, Dies
  <2>2. next' \in 0..(Len(script) + 1)
    BY <1>0, <1>1 DEF ProvisionInv, Run, AlreadyExists, NotFound, Done, Dies, Running
  <2>3. missing' => (Running /\ ~Exists(script[next]))'
    <3>1. CASE NotFound
      BY <3>1 DEF NotFound, Running, Exists
    <3>2. CASE Run \/ AlreadyExists \/ Dies \/ Done
      <4>1. next \in 1..Len(script) => next # 0 /\ ~(next > Len(script))
        BY <1>0
      <4>2. QED
        BY <3>2, <4>1 DEF ProvisionInv, Run, AlreadyExists, Done, Dies, Running
    <3>3. QED
      BY <1>1, <3>1, <3>2
  <2>4. ASSUME NEW i \in 1..Len(script), i < next' \/ finished'
        PROVE  Exists(script[i])
    <3>1. CASE Run \/ NotFound \/ Dies
      BY <1>0, <2>4, <3>1 DEF ProvisionInv, Run, NotFound, Dies
    <3>2. CASE AlreadyExists
      BY <1>0, <2>4, <3>2 DEF ProvisionInv, AlreadyExists, Running
    <3>3. CASE Done
      BY <1>0, <2>4, <3>3 DEF ProvisionInv, Done
    <3>4. QED
      BY <1>1, <3>1, <3>2, <3>3
  <2>5. QED
    BY <2>1, <2>2, <2>3, <2>4 DEF ProvisionInv, Keys, Exists
<1>2. CASE UNCHANGED provisionVars
  BY <1>2 DEF provisionVars, ProvisionInv, Keys, Running, Exists
<1>3. QED
  BY <1>1, <1>2, InsertKeepsInv DEF ProvisionNext

LEMMA AlwaysProvisionInv == ProvisionSpec => []ProvisionInv
BY InitProvisionInv, NextProvisionInv, PTL DEF ProvisionSpec

\* The rows are the script's.
LEMMA ProvisionInvIsTyped == ProvisionInv => ProvisionTypeOK
<1> SUFFICES ASSUME ProvisionInv PROVE ProvisionTypeOK
  OBVIOUS
<1>1. ToSet(rows) \subseteq Keys
  BY DEF ProvisionInv, ToSet
<1>2. QED
  BY <1>1 DEF ProvisionInv, ProvisionTypeOK, Keys

\* Wherever runs die, no row is inserted twice, and once a run has reached its
\* end every row is there.
THEOREM ScriptIsSafeToReRun == ProvisionSpec => []SafeToReRun
<1>1. ProvisionInv => SafeToReRun
  BY DEF ProvisionInv, SafeToReRun, Exists
<1>2. QED
  BY <1>1, AlwaysProvisionInv, PTL

\* What puts tables first: the order of the script, which no step changes.
OrderInv == ProvisionInv /\ TablesFirst(script)

LEMMA NextOrderInv == OrderInv /\ [ProvisionNext]_provisionVars => OrderInv'
<1>1. [ProvisionNext]_provisionVars => UNCHANGED script
  BY DEF ProvisionNext, Run, AlreadyExists, NotFound, Insert, Done, Dies, provisionVars
<1>2. QED
  BY <1>1, NextProvisionInv DEF OrderInv, TablesFirst, Precedes

LEMMA OrderInvOrders == OrderInv => ReferencesExist
<1> SUFFICES ASSUME OrderInv, missing PROVE ReferencesExist
  BY DEF ReferencesExist
<1>1. next \in 1..Len(script) /\ Len(script) \in Nat
  BY DEF OrderInv, ProvisionInv, Running
<1>2. ASSUME NEW key, Precedes(script, next, key)
      PROVE  Contains(rows, key)
  <2>1. PICK j \in 1..(next - 1) : script[j].row = key
    BY <1>2 DEF Precedes
  <2>2. j \in 1..Len(script) /\ j < next
    BY <1>1
  <2>3. QED
    BY <2>1, <2>2 DEF OrderInv, ProvisionInv, Exists
<1>3. QED
  BY <1>1, <1>2 DEF OrderInv, TablesFirst, ReferencesExist

\* In a script whose tables come first, no row is ever inserted before the
\* table it belongs to or refers to: not after any number of runs that died,
\* either.
THEOREM TablesComeFirst ==
    ASSUME \A s \in Scripts : TablesFirst(s)
    PROVE  ProvisionSpec => []ReferencesExist
<1>1. ProvisionInit => OrderInv
  BY InitProvisionInv DEF ProvisionInit, OrderInv
<1>2. QED
  BY <1>1, NextOrderInv, OrderInvOrders, PTL DEF ProvisionSpec

-----------------------------------------------------------------------------
(* The five components side by side.                                       *)

\* Every behaviour is one of each component.
LEMMA PartsBehave == Spec => DiskSpec /\ AlarmSpec /\ TokenSpec /\ NetworkSpec
<1>1. Init => DiskInit /\ AlarmInit /\ TokenInit /\ NetworkInit
  BY DEF Init
<1>2. [Next]_vars => /\ [DiskNext]_diskVars /\ [AlarmNext]_alarmVars
                     /\ [TokenNext]_tokenVars /\ [NetworkNext]_networkVars
  BY DEF Next, vars
<1>3. QED
  BY <1>1, <1>2, PTL DEF Spec, DiskSpec, AlarmSpec, TokenSpec, NetworkSpec

\* The script of a component that rests has no calls.
LEMMA RestingScript ==
    ASSUME Init, part # "tables"
    PROVE  ProvisionInv /\ TablesFirst(script)
<1>1. script = <<>> /\ next = 0 /\ missing = FALSE /\ rows = <<>> /\ finished = FALSE
  BY DEF Init
<1>2. script \in Seq(Call)
  BY <1>1
<1>3. \A i \in 1..Len(script) : FALSE
  <2>1. Len(script) = 0
    BY <1>1
  <2>2. QED
    BY <2>1
<1>4. TablesFirst(script)
  BY <1>3, Zenon DEF TablesFirst
<1>5. QED
  BY <1>1, <1>2, <1>4, RestsProvisionInv

LEMMA ScriptStep == [Next]_vars => [ProvisionNext]_provisionVars
BY DEF Next, vars

LEMMA ScriptBehaves == Spec => []ProvisionInv
<1>1. Init => ProvisionInv
  BY InitProvisionInv, RestingScript DEF Init
<1>2. QED
  BY <1>1, ScriptStep, NextProvisionInv, PTL DEF Spec

\* Every component keeps its types.
THEOREM AdaptersTypeCorrect == Spec => []AdaptersTypeOK
<1>1. Spec => []DiskTypeOK /\ []AlarmTypeOK /\ []TokenTypeOK
  BY PartsBehave, DiskTypeCorrect, AlarmTypeCorrect, TokenTypeCorrect, PTL
<1>2. NetworkInv => NetworkTypeOK
  BY NetworkInvIsTyped
<1>3. ProvisionInv => ProvisionTypeOK
  BY ProvisionInvIsTyped
<1>4. DiskTypeOK /\ AlarmTypeOK /\ TokenTypeOK /\ NetworkTypeOK /\ ProvisionTypeOK => AdaptersTypeOK
  BY DEF AdaptersTypeOK
<1>5. QED
  BY <1>1, <1>2, <1>3, <1>4, PartsBehave, AlwaysNetworkInv, ScriptBehaves, PTL

\* What is proved of each component holds of them side by side, as the run
\* checks them.
THEOREM AdaptersAreSafe ==
    Spec => /\ []AcknowledgedIsRecorded /\ []EventsTellTheState
            /\ []MirrorAgrees /\ []DuplicatesAreRedeliveries
            /\ []PagesInOrder /\ CachedTokenIsCurrent
            /\ []PayloadIsContained /\ []SubnetsUnderTheirVpc /\ []MirrorOfPartsAgrees
            /\ []SafeToReRun
<1>1. Spec => /\ []AcknowledgedIsRecorded /\ []EventsTellTheState
              /\ []MirrorAgrees /\ []DuplicatesAreRedeliveries
  BY PartsBehave, NothingIsLost, LatestRowTellsTheState, MirrorIsFaithful,
     OnlyRedeliveriesAreDuplicates, PTL
<1>2. Spec => []PagesInOrder /\ CachedTokenIsCurrent
  BY PartsBehave, PagesStayInOrder, CachedTokensAreCurrent, PTL
<1>3. Spec => []PayloadIsContained /\ []SubnetsUnderTheirVpc /\ []MirrorOfPartsAgrees
  BY PartsBehave, PayloadsAreContained, SubnetsAreUnderTheirVpc, MirrorOfPartsIsFaithful, PTL
<1>4. ProvisionInv => SafeToReRun
  BY DEF ProvisionInv, SafeToReRun, Exists
<1>5. QED
  BY <1>1, <1>2, <1>3, <1>4, ScriptBehaves, PTL

\* And so is the order of what the script provisions.
THEOREM AdaptersProvisionInOrder ==
    ASSUME \A s \in Scripts : TablesFirst(s)
    PROVE  Spec => []ReferencesExist
<1>1. ASSUME Init PROVE OrderInv
  <2>1. part = "tables" => ProvisionInv /\ TablesFirst(script)
    BY <1>1, InitProvisionInv DEF Init, ProvisionInit
  <2>2. QED
    BY <1>1, <2>1, RestingScript DEF OrderInv
<1>2. Init => OrderInv
  BY <1>1
<1>3. QED
  BY <1>2, ScriptStep, NextOrderInv, OrderInvOrders, PTL DEF Spec

=============================================================================
