----------------------------- MODULE DayTwoAction -----------------------------
(***************************************************************************)
(* Day-2 actions on ECS instances (HcConnectorEcsLifecycleAction.js): a    *)
(* request starts an asynchronous job at Huawei Cloud, looks at the job    *)
(* once and writes one HC Day-2 Action Log row; checkers - the scheduled   *)
(* poller, or checkJobStatus() from a background script - look at the jobs *)
(* again and update the rows.                                              *)
(*                                                                         *)
(* Start, stop, reboot, resize, attach and detach follow the same steps    *)
(* and differ in the request only, so one request action stands for all.   *)
(***************************************************************************)
EXTENDS Naturals

CONSTANTS
    Requests,    \* button presses; a request's job, if it gets one, is its own
    Cis,         \* managed cmdb_ci_vm_instance records
    Checkers,    \* threads that run checkJobStatus
    Pollers,     \* those of them that the scheduled job starts
    NoRow,       \* no action log row
    Nothing,     \* nothing in hand
    RowsRetire,  \* the sync may retire (and revive) a CI's sync-state row
    Faults       \* of "exception" (a call throws) and "crash"

JobStatus == {"running", "success", "fail"}
LogStatus == {"requested", "running", "success", "fail"}
LogRow == [status : LogStatus, job : BOOLEAN]

ASSUME DayTwoAssumption ==
    /\ NoRow \notin LogRow
    /\ Nothing \notin Requests
    /\ Pollers \subseteq Checkers
    /\ RowsRetire \in BOOLEAN
    /\ Faults \subseteq {"exception", "crash"}

VARIABLES
    managed,  \* the CIs with a sync-state row that is not retired
    target,   \* each request's CI
    stage,    \* "new", "accepted", "observed", "over"
    job,      \* each request's job at Huawei Cloud: "none" or its status
    saw,      \* the status its one look at the job found ("none": no answer)
    log,      \* its action log row
    todo,     \* each checker: the rows of its query it has not reached
    looked,   \* each checker: the request whose job it looked at, or Nothing
    found     \* each checker: the status it found

requestVars == <<target, stage, saw>>
checkerVars == <<todo, looked, found>>
vars == <<managed, requestVars, job, log, checkerVars>>

Init ==
    /\ managed = Cis
    /\ target \in [Requests -> Cis]
    /\ stage = [r \in Requests |-> "new"]
    /\ job = [r \in Requests |-> "none"]
    /\ saw = [r \in Requests |-> "none"]
    /\ log = [r \in Requests |-> NoRow]
    /\ todo = [c \in Checkers |-> {}]
    /\ looked = [c \in Checkers |-> Nothing]
    /\ found = [c \in Checkers |-> "none"]

-----------------------------------------------------------------------------
(* The environment: the sync's rows and Huawei Cloud's jobs.               *)

RetireRow(i) ==
    /\ RowsRetire
    /\ i \in managed
    /\ managed' = managed \ {i}
    /\ UNCHANGED <<requestVars, job, log, checkerVars>>

ReviveRow(i) ==
    /\ i \notin managed
    /\ managed' = managed \cup {i}
    /\ UNCHANGED <<requestVars, job, log, checkerVars>>

JobEnds(r) ==
    /\ job[r] = "running"
    /\ \E end \in {"success", "fail"} : job' = [job EXCEPT ![r] = end]
    /\ UNCHANGED <<managed, requestVars, log, checkerVars>>

-----------------------------------------------------------------------------
(* A request: performAction, performResize, performAttach, performDetach.  *)

\* Every check starts here: the CI's sync-state row must not be retired.
ResolveContext(r) == target[r] \in managed

InsertLog(r, status, hasJob) ==
    log' = [log EXCEPT ![r] = [status |-> status, job |-> hasJob]]

\* Not managed by this connector: an exception before anything is sent.
NotManaged(r) ==
    /\ stage[r] = "new"
    /\ ~ResolveContext(r)
    /\ stage' = [stage EXCEPT ![r] = "over"]
    /\ UNCHANGED <<managed, target, saw, job, log, checkerVars>>

\* No flavor or volume id, or no credentials: an exception as well, later.
Refused(r) ==
    /\ stage[r] = "new"
    /\ ResolveContext(r)
    /\ stage' = [stage EXCEPT ![r] = "over"]
    /\ UNCHANGED <<managed, target, saw, job, log, checkerVars>>

\* A 2xx answer with a job id.
Accepted(r) ==
    /\ stage[r] = "new"
    /\ ResolveContext(r)
    /\ stage' = [stage EXCEPT ![r] = "accepted"]
    /\ job' = [job EXCEPT ![r] = "running"]
    /\ UNCHANGED <<managed, target, saw, log, checkerVars>>

\* What Huawei Cloud did with a request whose answer names no job: a gateway's
\* 504, a body that does not parse and no answer at all do not tell whether
\* the request went through.
MayHaveStarted(r) ==
    \E started \in {"none", "running"} : job' = [job EXCEPT ![r] = started]

\* A 2xx answer in which _extractJobId finds no job id.
AcceptedWithoutJob(r) ==
    /\ stage[r] = "new"
    /\ ResolveContext(r)
    /\ stage' = [stage EXCEPT ![r] = "over"]
    /\ MayHaveStarted(r)
    /\ InsertLog(r, "requested", FALSE)
    /\ UNCHANGED <<managed, target, saw, checkerVars>>

\* Any answer that is not a 2xx: a refusal and a gateway's 504 alike.
Rejected(r) ==
    /\ stage[r] = "new"
    /\ ResolveContext(r)
    /\ stage' = [stage EXCEPT ![r] = "over"]
    /\ MayHaveStarted(r)
    /\ InsertLog(r, "fail", FALSE)
    /\ UNCHANGED <<managed, target, saw, checkerVars>>

\* execute() throws, or _insertActionLog does after one of the two answers
\* above: nobody catches it here, and there is no row.
Unanswered(r) ==
    /\ "exception" \in Faults
    /\ stage[r] = "new"
    /\ ResolveContext(r)
    /\ stage' = [stage EXCEPT ![r] = "over"]
    /\ MayHaveStarted(r)
    /\ UNCHANGED <<managed, target, saw, log, checkerVars>>

\* _fetchJobStatus: what it is now, or no answer.
FirstLook(r) ==
    /\ stage[r] = "accepted"
    /\ saw' \in {[saw EXCEPT ![r] = job[r]], saw}
    /\ stage' = [stage EXCEPT ![r] = "observed"]
    /\ UNCHANGED <<managed, target, job, log, checkerVars>>

\* Mutant: the status is logged as it was found.
LoggedAsFound(r) ==
    /\ stage[r] = "observed"
    /\ InsertLog(r, saw[r], TRUE)
    /\ stage' = [stage EXCEPT ![r] = "over"]
    /\ UNCHANGED <<managed, target, saw, job, checkerVars>>

\* Mutant: a job that did not answer is a job that is done.
LoggedUnlessRunning(r) ==
    /\ stage[r] = "observed"
    /\ InsertLog(r, IF saw[r] = "none" THEN "success" ELSE saw[r], TRUE)
    /\ stage' = [stage EXCEPT ![r] = "over"]
    /\ UNCHANGED <<managed, target, saw, job, checkerVars>>

Logged(r) ==
    /\ stage[r] = "observed"
    /\ InsertLog(r, IF saw[r] = "none" THEN "running" ELSE saw[r], TRUE)
    /\ stage' = [stage EXCEPT ![r] = "over"]
    /\ UNCHANGED <<managed, target, saw, job, checkerVars>>

\* _insertActionLog throws: the request has a job and no row.
LogThrows(r) ==
    /\ "exception" \in Faults
    /\ stage[r] = "observed"
    /\ stage' = [stage EXCEPT ![r] = "over"]
    /\ UNCHANGED <<managed, target, saw, job, log, checkerVars>>

\* The session or the node goes away between two steps.
RequestLost(r) ==
    /\ "crash" \in Faults
    /\ stage[r] \in {"accepted", "observed"}
    /\ stage' = [stage EXCEPT ![r] = "over"]
    /\ UNCHANGED <<managed, target, saw, job, log, checkerVars>>

Perform(r) ==
    \/ NotManaged(r) \/ Refused(r)
    \/ Accepted(r) \/ AcceptedWithoutJob(r) \/ Rejected(r) \/ Unanswered(r)
    \/ FirstLook(r) \/ Logged(r) \/ LogThrows(r) \/ RequestLost(r)

-----------------------------------------------------------------------------
(* A checker.                                                              *)

Pending(r) == log[r] # NoRow /\ log[r].job /\ log[r].status \in {"requested", "running"}

Free(c) == todo[c] = {} /\ looked[c] = Nothing

\* Mutant: only rows nobody has looked at are pending.
StartPollOfRequested(c) ==
    /\ Free(c)
    /\ \E r \in Requests : Pending(r)
    /\ todo' = [todo EXCEPT ![c] = {r \in Requests : Pending(r) /\ log[r].status = "requested"}]
    /\ UNCHANGED <<managed, requestVars, job, log, looked, found>>

\* pollPendingActionLogs: one query, then row after row. (A query that finds
\* nothing changes nothing.)
StartPoll(c) ==
    /\ Free(c)
    /\ \E r \in Requests : Pending(r)
    /\ todo' = [todo EXCEPT ![c] = {r \in Requests : Pending(r)}]
    /\ UNCHANGED <<managed, requestVars, job, log, looked, found>>

\* Somebody checks one job, finished or not.
StartCheck(c, r) ==
    /\ Free(c)
    /\ log[r] # NoRow /\ log[r].job
    /\ todo' = [todo EXCEPT ![c] = {r}]
    /\ UNCHANGED <<managed, requestVars, job, log, looked, found>>

\* checkJobStatus throws; the poller logs it and takes the next row.
CheckRefused(c, r) ==
    /\ looked[c] = Nothing
    /\ r \in todo[c]
    /\ ~ResolveContext(r)
    /\ todo' = [todo EXCEPT ![c] = @ \ {r}]
    /\ UNCHANGED <<managed, requestVars, job, log, looked, found>>

\* Mutant: no answer is taken for a status that is not final.
CheckUnansweredIsRunning(c, r) ==
    /\ looked[c] = Nothing
    /\ r \in todo[c]
    /\ ResolveContext(r)
    /\ todo' = [todo EXCEPT ![c] = @ \ {r}]
    /\ log' = [log EXCEPT ![r].status = "running"]
    /\ UNCHANGED <<managed, requestVars, job, looked, found>>

\* The status request fails: the row is left as it is.
CheckUnanswered(c, r) ==
    /\ looked[c] = Nothing
    /\ r \in todo[c]
    /\ ResolveContext(r)
    /\ todo' = [todo EXCEPT ![c] = @ \ {r}]
    /\ UNCHANGED <<managed, requestVars, job, log, looked, found>>

Look(c, r) ==
    /\ looked[c] = Nothing
    /\ r \in todo[c]
    /\ ResolveContext(r)
    /\ todo' = [todo EXCEPT ![c] = @ \ {r}]
    /\ looked' = [looked EXCEPT ![c] = r]
    /\ found' = [found EXCEPT ![c] = job[r]]
    /\ UNCHANGED <<managed, requestVars, job, log>>

\* _updateActionLogByJobId: whatever the row says by now.
Update(c, r) ==
    /\ looked[c] = r
    /\ log' = [log EXCEPT ![r].status = found[c]]
    /\ looked' = [looked EXCEPT ![c] = Nothing]
    /\ found' = [found EXCEPT ![c] = "none"]
    /\ UNCHANGED <<managed, requestVars, job, todo>>

\* ... and when that throws, the poller goes on with its next row.
UpdateThrows(c, r) ==
    /\ "exception" \in Faults
    /\ looked[c] = r
    /\ looked' = [looked EXCEPT ![c] = Nothing]
    /\ found' = [found EXCEPT ![c] = "none"]
    /\ UNCHANGED <<managed, requestVars, job, log, todo>>

\* The checker's thread dies; the job runs again later.
CheckerLost(c) ==
    /\ "crash" \in Faults
    /\ ~Free(c)
    /\ todo' = [todo EXCEPT ![c] = {}]
    /\ looked' = [looked EXCEPT ![c] = Nothing]
    /\ found' = [found EXCEPT ![c] = "none"]
    /\ UNCHANGED <<managed, requestVars, job, log>>

Check(c) ==
    \/ StartPoll(c)
    \/ \E r \in Requests :
          \/ StartCheck(c, r)
          \/ CheckRefused(c, r) \/ CheckUnanswered(c, r)
          \/ Look(c, r) \/ Update(c, r) \/ UpdateThrows(c, r)
    \/ CheckerLost(c)

Next ==
    \/ \E i \in Cis : RetireRow(i) \/ ReviveRow(i)
    \/ \E r \in Requests : JobEnds(r) \/ Perform(r)
    \/ \E c \in Checkers : Check(c)

Spec == Init /\ [][Next]_vars

-----------------------------------------------------------------------------
(* Fairness. Jobs end; the poller runs every two minutes and gets through   *)
(* its rows; a status request that is made again and again is answered now  *)
(* and then. Nobody is obliged to press a button or to check by hand.       *)

Fairness ==
    /\ \A r \in Requests :
          /\ WF_vars(JobEnds(r))
          /\ WF_vars(FirstLook(r))
          /\ WF_vars(Logged(r))
    /\ \A c \in Pollers :
          /\ SF_vars(StartPoll(c))
          /\ \A r \in Requests :
                /\ WF_vars(CheckRefused(c, r))
                /\ SF_vars(Look(c, r))
                /\ SF_vars(Update(c, r))

FairSpec == Spec /\ Fairness

-----------------------------------------------------------------------------
(* Properties.                                                             *)

TypeOK ==
    /\ managed \subseteq Cis
    /\ target \in [Requests -> Cis]
    /\ stage \in [Requests -> {"new", "accepted", "observed", "over"}]
    /\ job \in [Requests -> JobStatus \cup {"none"}]
    /\ saw \in [Requests -> JobStatus \cup {"none"}]
    /\ log \in [Requests -> LogRow \cup {NoRow}]
    /\ todo \in [Checkers -> SUBSET Requests]
    /\ looked \in [Checkers -> Requests \cup {Nothing}]
    /\ found \in [Checkers -> JobStatus \cup {"none"}]

\* The row of a request with a job reports the job's outcome.
Resolved(r) == log[r] # NoRow /\ log[r].job /\ log[r].status \in {"success", "fail"}

\* A row never reports an outcome its job does not have: success or failure
\* of a job in the log is final at Huawei Cloud, whoever wrote it and however
\* old the answer was that it was written from.
LogIsTrue ==
    \A r \in Requests : Resolved(r) => log[r].status = job[r]

\* "a later re-check - whether ad hoc or from pollPendingActionLogs() - keeps
\* that row's status current": an outcome once logged is taken back only by a
\* checker that still holds the "running" it read before the job ended.
OutcomeStays ==
    [][\A r \in Requests :
          Resolved(r) =>
            \/ log'[r] = log[r]
            \/ \E c \in Checkers :
                  looked[c] = r /\ found[c] = "running" /\ looked'[c] = Nothing]_vars

\* "eventually resolves a job's log row to 'success'/'fail' even if nobody
\* ever comes back to manually check it".
EveryRowResolves ==
    \A r \in Requests : Pending(r) ~> ~Pending(r)

\* ... which the poller does for as long as the CI stays managed, and then
\* for good.
ManagedRowResolves ==
    \A r \in Requests :
        (<>[](target[r] \in managed) /\ <>(log[r] # NoRow /\ log[r].job))
            => <>[]Resolved(r)

=============================================================================
