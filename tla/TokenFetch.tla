------------------------------ MODULE TokenFetch ------------------------------
(***************************************************************************)
(* The password-authenticated fetch (lib/huaweiEcsOrchestrator.js with     *)
(* lib/iamTokenCache.js): runs share one cached IAM token, take it if it   *)
(* looks valid, authenticate otherwise, and once more when the service     *)
(* refuses the token in the middle of the pages. A token is known by the   *)
(* time it expires; the program's clock is behind the service's by Drift.  *)
(***************************************************************************)
EXTENDS Naturals, Sequences

CONSTANTS
    Users,      \* runs that may overlap
    LastPage,   \* pages of the list
    maxRetries,
    Lifetime,   \* of a token
    Skew,       \* DEFAULT_SKEW_SECONDS
    Drift,
    MaxClock,   \* bound
    NoToken

ASSUME TokenAssumption ==
    /\ {LastPage, Lifetime} \subseteq Nat \ {0}
    /\ {maxRetries, Skew, Drift, MaxClock} \subseteq Nat
    /\ Drift <= Skew   \* "to absorb clock drift"
    /\ NoToken \notin Nat

Tokens == 0..(MaxClock + Lifetime)

VARIABLES
    time,     \* at the service
    refusing, \* it refuses every token: the user lost the permission
    cache,
    doing,    \* each run: "idle", "authenticating", "paging"
    token,
    pages,    \* the pages it has appended, in order
    attempt,
    reauthed

runState == <<doing, token, pages, attempt, reauthed>>
tokenVars == <<time, refusing, cache, runState>>

TokenInit ==
    /\ time = 0
    /\ refusing = FALSE
    /\ cache = NoToken
    /\ doing = [u \in Users |-> "idle"]
    /\ token = [u \in Users |-> NoToken]
    /\ pages = [u \in Users |-> <<>>]
    /\ attempt = [u \in Users |-> 0]
    /\ reauthed = [u \in Users |-> FALSE]

Pass ==
    /\ time < MaxClock
    /\ time' = time + 1
    /\ UNCHANGED <<refusing, cache, runState>>

SwitchRefusing ==
    /\ refusing' = ~refusing
    /\ UNCHANGED <<time, cache, runState>>

Good(t) == ~refusing /\ t # NoToken /\ time < t

-----------------------------------------------------------------------------
\* Mutant: valid to the last second.
IsTokenValidToTheEnd(t) == t # NoToken /\ time < t + Drift

\* isTokenValid at the program's clock, time - Drift.
IsTokenValid(t) == t # NoToken /\ time + Skew < t + Drift

\* getIAMToken; the run starts.
GetIAMToken(u) ==
    /\ doing[u] = "idle"
    /\ pages' = [pages EXCEPT ![u] = <<>>]
    /\ attempt' = [attempt EXCEPT ![u] = 0]
    /\ reauthed' = [reauthed EXCEPT ![u] = FALSE]
    /\ \/ /\ IsTokenValid(cache)
          /\ token' = [token EXCEPT ![u] = cache]
          /\ doing' = [doing EXCEPT ![u] = "paging"]
       \/ /\ ~IsTokenValid(cache)
          /\ token' = [token EXCEPT ![u] = NoToken]
          /\ doing' = [doing EXCEPT ![u] = "authenticating"]
    /\ UNCHANGED <<time, refusing, cache>>

\* allServers is returned, whole or not.
Ends(u) == doing' = [doing EXCEPT ![u] = "idle"]

\* 201: the page that was refused is fetched once more, or the first one.
Authenticated(u) ==
    /\ doing[u] = "authenticating"
    /\ cache' = time + Lifetime
    /\ token' = [token EXCEPT ![u] = time + Lifetime]
    /\ doing' = [doing EXCEPT ![u] = "paging"]
    /\ attempt' = [attempt EXCEPT ![u] = 0]
    /\ UNCHANGED <<time, refusing, pages, reauthed>>

\* null: there is no list, or it ends with the pages read before.
AuthenticationFails(u) ==
    /\ doing[u] = "authenticating"
    /\ Ends(u)
    /\ UNCHANGED <<time, refusing, cache, token, pages, attempt, reauthed>>

\* Mutant: one attempt more.
RetryOnceMore(u) ==
    /\ doing[u] # "idle"
    /\ attempt[u] <= maxRetries
    /\ attempt' = [attempt EXCEPT ![u] = @ + 1]
    /\ UNCHANGED <<time, refusing, cache, doing, token, pages, reauthed>>

\* 429 and 5xx, in both loops.
RetryLater(u) ==
    /\ doing[u] # "idle"
    /\ attempt[u] < maxRetries
    /\ attempt' = [attempt EXCEPT ![u] = @ + 1]
    /\ UNCHANGED <<time, refusing, cache, doing, token, pages, reauthed>>

PageReturned(u) ==
    /\ doing[u] = "paging"
    /\ Good(token[u])
    /\ pages' = [pages EXCEPT ![u] = Append(@, Len(@) + 1)]
    /\ attempt' = [attempt EXCEPT ![u] = 0]
    /\ IF Len(pages[u]) + 1 = LastPage THEN Ends(u) ELSE UNCHANGED doing
    /\ UNCHANGED <<time, refusing, cache, token, reauthed>>

\* Another status, or the retries are used up: "give up with what we have".
PageFails(u) ==
    /\ doing[u] = "paging"
    /\ Ends(u)
    /\ UNCHANGED <<time, refusing, cache, token, pages, attempt, reauthed>>

\* Mutant: authenticates for ever.
UnauthorizedAgain(u) ==
    /\ doing[u] = "paging"
    /\ ~Good(token[u])
    /\ cache' = NoToken
    /\ doing' = [doing EXCEPT ![u] = "authenticating"]
    /\ attempt' = [attempt EXCEPT ![u] = 0]
    /\ reauthed' = [reauthed EXCEPT ![u] = TRUE]
    /\ UNCHANGED <<time, refusing, token, pages>>

\* Mutant: the loop goes on with the next page.
UnauthorizedNextPage(u) ==
    /\ doing[u] = "paging"
    /\ ~Good(token[u])
    /\ ~reauthed[u]
    /\ cache' = NoToken
    /\ doing' = [doing EXCEPT ![u] = "authenticating"]
    /\ attempt' = [attempt EXCEPT ![u] = 0]
    /\ reauthed' = [reauthed EXCEPT ![u] = TRUE]
    /\ pages' = [pages EXCEPT ![u] = Append(@, Len(@) + 2)]
    /\ UNCHANGED <<time, refusing, token>>

\* 401: once per run the token is forgotten - whoever has cached it - and a
\* new one is asked for; the second 401 gives up.
Unauthorized(u) ==
    /\ doing[u] = "paging"
    /\ ~Good(token[u])
    /\ \/ /\ reauthed[u]
          /\ Ends(u)
          /\ UNCHANGED <<cache, attempt, reauthed>>
       \/ /\ ~reauthed[u]
          /\ cache' = NoToken
          /\ doing' = [doing EXCEPT ![u] = "authenticating"]
          /\ attempt' = [attempt EXCEPT ![u] = 0]
          /\ reauthed' = [reauthed EXCEPT ![u] = TRUE]
    /\ UNCHANGED <<time, refusing, token, pages>>

Respond(u) ==
    \/ Authenticated(u) \/ AuthenticationFails(u) \/ RetryLater(u)
    \/ PageReturned(u) \/ PageFails(u) \/ Unauthorized(u)

TokenNext ==
    \/ Pass \/ SwitchRefusing
    \/ \E u \in Users : GetIAMToken(u) \/ Respond(u)

TokenSpec == TokenInit /\ [][TokenNext]_tokenVars

\* Every request is answered; nobody has to start a run.
TokenFairness == \A u \in Users : WF_tokenVars(Respond(u))

-----------------------------------------------------------------------------
(* Properties.                                                             *)

TokenTypeOK ==
    /\ time \in 0..MaxClock /\ refusing \in BOOLEAN
    /\ cache \in Tokens \cup {NoToken}
    /\ \A u \in Users :
          /\ token[u] \in Tokens \cup {NoToken}
          /\ doing[u] = "paging" => token[u] # NoToken
          /\ attempt[u] \in 0..maxRetries
          /\ pages[u] \in Seq(1..LastPage)

\* "Treat the token as expired 5 min early to absorb clock drift": a token
\* from the cache has not expired at the service when the run takes it,
\* although the program's clock is behind.
CachedTokenIsCurrent ==
    [][\A u \in Users :
          (doing[u] = "idle" /\ doing'[u] = "paging") => time < token'[u]]_tokenVars

\* Retries and the re-authentication neither skip a page nor append one
\* twice: a run that ends early ends with the first pages of the list.
PagesInOrder == \A u \in Users : \A i \in 1..Len(pages[u]) : pages[u][i] = i

\* "On a 401 mid-run, clears the cache, re-authenticates once, and retries
\* the SAME page": a run does not authenticate for ever, and ends.
RunEnds == \A u \in Users : []<>(doing[u] = "idle")

=============================================================================
