--------------------------- MODULE SyncStatePlanner ---------------------------
(***************************************************************************)
(* The plan one run makes from what it saw and from the rows it read       *)
(* (lib/syncStatePlanner.js). A table is a function from row identifiers   *)
(* (sys_ids) to rows; several rows may carry the same native key, because  *)
(* nothing below the application enforces the composite key.               *)
(***************************************************************************)
EXTENDS ResourceLifecycle

CONSTANTS
    Keys,     \* native keys of one (account, region, resource_type)
    RowIds,   \* sys_ids of sync-state rows
    NoRow     \* a sys_id no row has been given yet

Row == [key : Keys, status : Status, miss : 0..MissCap]

ASSUME NoRowAssumption == NoRow \notin Row \cup Lifecycle

Table == [RowIds -> Row \cup {NoRow}]

RowsOf(t) == {r \in RowIds : t[r] # NoRow}

RowsFor(t, k) == {r \in RowsOf(t) : t[r].key = k}

KeysOf(t) == {t[r].key : r \in RowsOf(t)}

FreshRow(k) == [key |-> k, status |-> "active", miss |-> 0]

\* existingByKey keeps the last row of each key in the order of the query,
\* which is not specified: any of the key's rows may be the one it keeps.
RowIndexes(t) ==
    {index \in [KeysOf(t) -> RowIds] : \A k \in KeysOf(t) : index[k] \in RowsFor(t, k)}

\* Mutant: the query for existing rows leaves the retired ones out.
ToInsertIgnoringRetired(seen, t) ==
    seen \ {t[r].key : r \in {q \in RowsOf(t) : t[q].status # "retired"}}

ToInsert(seen, t) == seen \ KeysOf(t)

\* Mutant: a retired row is never brought back.
ToRefreshUnlessRetired(seen, t, index) ==
    {r \in {index[k] : k \in seen \cap KeysOf(t)} : t[r].status # "retired"}

ToRefresh(seen, t, index) == {index[k] : k \in seen \cap KeysOf(t)}

\* The planned state of a row that was not seen.
Transition(t, r) ==
    LET next == ComputeNextState(t[r], FALSE)
    IN  [row         |-> r,
         status      |-> next.status,
         miss        |-> next.miss,
         justRetired |-> next.status = "retired" /\ t[r].status # "retired"]

\* Mutant: rows of resources that were seen are transitioned, too.
ToTransitionOfAll(seen, t) == {Transition(t, r) : r \in RowsOf(t)}

\* Mutant: only active rows count misses.
ToTransitionOfActive(seen, t) ==
    {Transition(t, r) : r \in {q \in RowsOf(t) : t[q].key \notin seen /\ t[q].status = "active"}}

ToTransition(seen, t) == {Transition(t, r) : r \in {q \in RowsOf(t) : t[q].key \notin seen}}

Transitions == [row : RowIds, status : Status, miss : 0..MissCap, justRetired : BOOLEAN]

=============================================================================
