---------------------------- MODULE ProvisionScript ----------------------------
(***************************************************************************)
(* The background script that provisions the tables: a fixed list of calls *)
(* of createTableIfMissing, createFieldIfMissing and createChoiceIfMissing,*)
(* each of which looks for its row and inserts it when there is none. The  *)
(* script may die anywhere and is "safe to re-run". Which scripts there    *)
(* are is Provisioning.                                                    *)
(***************************************************************************)
EXTENDS Naturals, SequencesExt

CONSTANT Scripts \* the scripts the renderer makes

\* A call: the key of the row it creates, which begins with the kind of row
\* and its table, and the table a field refers to, if any.
Call == [row : Seq(STRING), ref : STRING]

ASSUME ScriptsAssumption == Scripts \subseteq Seq(Call)

VARIABLES
    script,   \* the rendered calls, in order
    next,     \* the call the runner is at, 0: it does not run
    missing,  \* it looked and found nothing: it is about to insert
    rows,     \* sys_db_object, sys_dictionary and sys_choice, in insertion order
    finished  \* a run has printed "done"

provisionVars == <<script, next, missing, rows, finished>>

ProvisionInit ==
    /\ script \in Scripts
    /\ next = 0
    /\ missing = FALSE
    /\ rows = <<>>
    /\ finished = FALSE

Run ==
    /\ next = 0
    /\ next' = 1
    /\ UNCHANGED <<script, missing, rows, finished>>

Running == next \in 1..Len(script)

\* The query at the head of each helper: the row's own key.
Exists(call) == Contains(rows, call.row)

\* createTableIfMissing, createFieldIfMissing, createChoiceIfMissing: a row
\* that exists is left alone.
AlreadyExists ==
    /\ Running /\ ~missing
    /\ Exists(script[next])
    /\ next' = next + 1
    /\ UNCHANGED <<script, missing, rows, finished>>

\* Mutant: a choice is inserted without a look.
NotFoundOrChoice ==
    /\ Running /\ ~missing
    /\ Exists(script[next]) => script[next].row[1] = "choice"
    /\ missing' = TRUE
    /\ UNCHANGED <<script, next, rows, finished>>

NotFound ==
    /\ Running /\ ~missing
    /\ ~Exists(script[next])
    /\ missing' = TRUE
    /\ UNCHANGED <<script, next, rows, finished>>

Insert ==
    /\ missing
    /\ rows' = Append(rows, script[next].row)
    /\ missing' = FALSE
    /\ next' = next + 1
    /\ UNCHANGED <<script, finished>>

Done ==
    /\ next > Len(script)
    /\ next' = 0
    /\ finished' = TRUE
    /\ UNCHANGED <<script, missing, rows>>

\* Mutant: a helper's exception is logged and the script goes on.
DiesAndGoesOn ==
    /\ Running
    /\ next' = next + 1
    /\ missing' = FALSE
    /\ UNCHANGED <<script, rows, finished>>

\* An insert throws ("sys_scope not found", a cross-scope restriction), or
\* the background script is cancelled.
Dies ==
    /\ Running
    /\ next' = 0
    /\ missing' = FALSE
    /\ UNCHANGED <<script, rows, finished>>

ProvisionNext == Run \/ AlreadyExists \/ NotFound \/ Insert \/ Done \/ Dies

ProvisionSpec == ProvisionInit /\ [][ProvisionNext]_provisionVars

-----------------------------------------------------------------------------
(* Properties.                                                             *)

\* In the script itself, a field or a choice comes after its table, and a
\* reference after the table it refers to.
Precedes(s, i, key) == \E j \in 1..(i - 1) : s[j].row = key
TablesFirst(s) ==
    \A i \in 1..Len(s) :
        /\ s[i].row[1] # "table" => Precedes(s, i, <<"table", s[i].row[2]>>)
        /\ s[i].ref # "" => Precedes(s, i, <<"table", s[i].ref>>)

ProvisionTypeOK ==
    /\ next \in 0..(Len(script) + 1)
    /\ missing => Running
    /\ ToSet(rows) \subseteq {script[i].row : i \in 1..Len(script)}

\* "A table with a reference field to another table must be provisioned
\* after the table it references", in whatever order the directory lists the
\* schemas and wherever earlier runs died: the columns of a table follow the
\* table, and the tables they refer to are there.
ReferencesExist ==
    missing =>
        LET call == script[next]
        IN /\ call.row[1] # "table" => Contains(rows, <<"table", call.row[2]>>)
           /\ call.ref # "" => Contains(rows, <<"table", call.ref>>)

\* "Idempotent: safe to re-run": no row is ever there twice, and after a run
\* that reached its end everything is there, the runs that died before it
\* notwithstanding.
SafeToReRun ==
    /\ IsInjective(rows)
    /\ finished => \A i \in 1..Len(script) : Contains(rows, script[i].row)

=============================================================================
