----------------------------- MODULE DayTwoProofs -----------------------------
(***************************************************************************)
(* Theorems about DayTwoAction and, below them, about DayTwoButtons, for   *)
(* every number of requests, CIs, buttons and overlapping checkers, and    *)
(* whatever answers are lost and threads die.                              *)
(***************************************************************************)
EXTENDS DayTwoButtons, TLAPS

Final == {"success", "fail"}

\* A logged request with a job, which a checker may look at.
Checkable(r) == log[r] # NoRow /\ log[r].job

-----------------------------------------------------------------------------
(* The inductive invariant: an outcome somebody holds in hand - the         *)
(* request's own first look, a checker's look, the log - is the outcome the *)
(* job has, and a job that is somebody's business exists.                   *)

RequestInv(r) ==
    /\ stage[r] = "new" => job[r] = "none"
    /\ stage[r] # "over" => log[r] = NoRow
    /\ stage[r] \in {"accepted", "observed"} => job[r] # "none"
    /\ saw[r] \in Final => saw[r] = job[r]
    /\ Checkable(r) => job[r] # "none"
    /\ Resolved(r) => log[r].status = job[r]

CheckerInv(c) ==
    /\ \A r \in todo[c] : Checkable(r)
    /\ looked[c] # Nothing =>
          /\ Checkable(looked[c])
          /\ found[c] \in JobStatus
          /\ found[c] \in Final => found[c] = job[looked[c]]

LogInv ==
    /\ TypeOK
    /\ \A r \in Requests : RequestInv(r)
    /\ \A c \in Checkers : CheckerInv(c)

LEMMA InitLogInv == Init => LogInv
BY DEF Init, LogInv, TypeOK, RequestInv, CheckerInv, Checkable, Resolved, Final,
       JobStatus, LogRow, LogStatus

-----------------------------------------------------------------------------
(* Steps of the environment.                                               *)

LEMMA ManagedSteps ==
    ASSUME LogInv, NEW i \in Cis, RetireRow(i) \/ ReviveRow(i)
    PROVE  LogInv'
BY DEF LogInv, TypeOK, RequestInv, CheckerInv, Checkable, Resolved,
       RetireRow, ReviveRow, requestVars, checkerVars

\* A job that ends was running: nobody holds an outcome of it yet.
LEMMA JobEndsKeepsInv ==
    ASSUME LogInv, NEW q \in Requests, JobEnds(q)
    PROVE  LogInv'
<1>1. /\ job[q] = "running" /\ job'[q] \in Final
      /\ \A r \in Requests : r # q => job'[r] = job[r]
      /\ job' \in [Requests -> JobStatus \cup {"none"}]
  BY DEF LogInv, TypeOK, JobEnds, Final, JobStatus
<1>2. UNCHANGED <<managed, target, stage, saw, log, todo, looked, found>>
  BY DEF JobEnds, requestVars, checkerVars
<1>3. TypeOK'
  BY <1>1, <1>2 DEF LogInv, TypeOK
<1>4. ASSUME NEW r \in Requests PROVE RequestInv(r)'
  <2>1. CASE r = q
    BY <1>1, <1>2, <2>1 DEF LogInv, TypeOK, RequestInv, Checkable, Resolved, Final
  <2>2. CASE r # q
    BY <1>1, <1>2, <2>2 DEF LogInv, RequestInv, Checkable, Resolved
  <2>3. QED
    BY <2>1, <2>2
<1>5. ASSUME NEW c \in Checkers PROVE CheckerInv(c)'
  BY <1>1, <1>2 DEF LogInv, TypeOK, CheckerInv, Checkable, Final
<1>6. QED
  BY <1>3, <1>4, <1>5 DEF LogInv

-----------------------------------------------------------------------------
(* Steps of a request.                                                     *)

\* What a step of request q leaves alone, and what it must establish.
LEMMA RequestStep ==
    ASSUME LogInv, NEW q \in Requests,
           UNCHANGED <<managed, target, todo, looked, found>>,
           TypeOK',
           \A r \in Requests : r # q => /\ stage'[r] = stage[r] /\ job'[r] = job[r]
                                        /\ saw'[r] = saw[r] /\ log'[r] = log[r],
           RequestInv(q)',
           Checkable(q) => log'[q] = log[q] /\ job'[q] = job[q]
    PROVE  LogInv'
<1>1. ASSUME NEW r \in Requests PROVE RequestInv(r)'
  <2>1. CASE r # q
    BY <2>1 DEF LogInv, RequestInv, Checkable, Resolved
  <2>2. QED
    BY <2>1
<1>2. ASSUME NEW r \in Requests, Checkable(r)
      PROVE  Checkable(r)' /\ job'[r] = job[r]
  BY <1>2 DEF Checkable
<1>3. ASSUME NEW c \in Checkers PROVE CheckerInv(c)'
  BY <1>2 DEF LogInv, TypeOK, CheckerInv
<1>4. QED
  BY <1>1, <1>3 DEF LogInv

LEMMA PerformKeepsInv ==
    ASSUME LogInv, NEW q \in Requests, Perform(q)
    PROVE  LogInv'
<1> USE DEF requestVars, checkerVars
<1>0. TypeOK /\ RequestInv(q)
  BY DEF LogInv
<1>1. CASE NotManaged(q) \/ Refused(q)
  <2>1. TypeOK' /\ RequestInv(q)'
    BY <1>0, <1>1 DEF TypeOK, NotManaged, Refused, RequestInv, Checkable, Resolved
  <2>2. QED
    BY <1>0, <1>1, <2>1, RequestStep DEF NotManaged, Refused, TypeOK
<1>2. CASE Accepted(q)
  <2>1. TypeOK' /\ RequestInv(q)'
    BY <1>0, <1>2 DEF TypeOK, Accepted, RequestInv, Checkable, Resolved, Final, JobStatus
  <2>2. ~Checkable(q)
    BY <1>0, <1>2 DEF Accepted, RequestInv, Checkable
  <2>3. QED
    BY <1>0, <1>2, <2>1, <2>2, RequestStep DEF Accepted, TypeOK
<1>3. CASE AcceptedWithoutJob(q) \/ Rejected(q)
  <2>1. \E st \in LogStatus : log' = [log EXCEPT ![q] = [status |-> st, job |-> FALSE]]
    BY <1>3 DEF AcceptedWithoutJob, Rejected, InsertLog, LogStatus
  <2>2. /\ stage[q] = "new" /\ stage' = [stage EXCEPT ![q] = "over"]
        /\ UNCHANGED <<managed, target, saw, todo, looked, found>>
        /\ MayHaveStarted(q)
    BY <1>3 DEF AcceptedWithoutJob, Rejected
  <2>3. log' \in [Requests -> LogRow \cup {NoRow}] /\ log'[q].job = FALSE
    BY <1>0, <2>1 DEF TypeOK, LogRow
  <2>4. /\ \A r \in Requests : r # q => job'[r] = job[r]
        /\ job' \in [Requests -> JobStatus \cup {"none"}]
    BY <1>0, <2>2 DEF TypeOK, MayHaveStarted, JobStatus
  <2>5. TypeOK'
    BY <1>0, <2>2, <2>3, <2>4 DEF TypeOK
  <2>6. ~Checkable(q) /\ saw[q] \notin Final
    BY <1>0, <2>2 DEF RequestInv, Checkable, Final
  <2>7. RequestInv(q)'
    BY <1>0, <2>2, <2>3, <2>6 DEF TypeOK, RequestInv, Checkable, Resolved
  <2>8. QED
    BY <1>0, <2>1, <2>2, <2>4, <2>5, <2>6, <2>7, RequestStep DEF TypeOK
<1>4. CASE Unanswered(q)
  <2>1. /\ \A r \in Requests : r # q => job'[r] = job[r]
        /\ job' \in [Requests -> JobStatus \cup {"none"}]
    BY <1>0, <1>4 DEF TypeOK, Unanswered, MayHaveStarted, JobStatus
  <2>2. ~Checkable(q) /\ log[q] = NoRow
    BY <1>0, <1>4 DEF Unanswered, RequestInv, Checkable
  <2>3. TypeOK' /\ RequestInv(q)'
    BY <1>0, <1>4, <2>1, <2>2 DEF TypeOK, Unanswered, RequestInv, Checkable, Resolved, Final
  <2>4. QED
    BY <1>0, <1>4, <2>1, <2>2, <2>3, RequestStep DEF Unanswered, TypeOK
<1>5. CASE FirstLook(q)
  <2>1. saw'[q] = job[q] \/ saw'[q] = saw[q]
    BY <1>0, <1>5 DEF TypeOK, FirstLook
  <2>2. saw' \in [Requests -> JobStatus \cup {"none"}]
        /\ \A r \in Requests : r # q => saw'[r] = saw[r]
    BY <1>0, <1>5 DEF TypeOK, FirstLook
  <2>3. TypeOK' /\ RequestInv(q)'
    BY <1>0, <1>5, <2>1, <2>2 DEF TypeOK, FirstLook, RequestInv, Checkable, Resolved, Final
  <2>4. QED
    BY <1>0, <1>5, <2>2, <2>3, RequestStep DEF FirstLook, TypeOK
<1>6. CASE Logged(q)
  <2> DEFINE st == IF saw[q] = "none" THEN "running" ELSE saw[q]
  <2>1. log' = [log EXCEPT ![q] = [status |-> st, job |-> TRUE]]
    BY <1>6 DEF Logged, InsertLog
  <2>2. st \in LogStatus /\ (st \in Final => st = job[q])
    BY <1>0 DEF TypeOK, JobStatus, LogStatus, RequestInv, Final
  <2>3. log' \in [Requests -> LogRow \cup {NoRow}]
        /\ log'[q].status = st
        /\ \A r \in Requests : r # q => log'[r] = log[r]
    BY <1>0, <2>1, <2>2 DEF TypeOK, LogRow
  <2>4. TypeOK' /\ RequestInv(q)'
    BY <1>0, <1>6, <2>2, <2>3 DEF TypeOK, Logged, RequestInv, Checkable, Resolved, Final
  <2>5. ~Checkable(q)
    BY <1>0, <1>6 DEF Logged, RequestInv, Checkable
  <2>6. QED
    BY <1>0, <1>6, <2>3, <2>4, <2>5, RequestStep DEF Logged, TypeOK
<1>7. CASE LogThrows(q) \/ RequestLost(q)
  <2>1. TypeOK' /\ RequestInv(q)'
    BY <1>0, <1>7 DEF TypeOK, LogThrows, RequestLost, RequestInv, Checkable, Resolved
  <2>2. QED
    BY <1>0, <1>7, <2>1, RequestStep DEF LogThrows, RequestLost, TypeOK
<1>8. QED
  BY <1>1, <1>2, <1>3, <1>4, <1>5, <1>6, <1>7 DEF Perform

-----------------------------------------------------------------------------
(* Steps of a checker.                                                     *)

\* A step of checker d that writes no row.
LEMMA CheckerStep ==
    ASSUME LogInv, NEW d \in Checkers,
           UNCHANGED <<managed, target, stage, job, saw, log>>,
           TypeOK', CheckerInv(d)',
           \A c \in Checkers : c # d => /\ todo'[c] = todo[c] /\ looked'[c] = looked[c]
                                        /\ found'[c] = found[c]
    PROVE  LogInv'
<1>1. ASSUME NEW r \in Requests PROVE RequestInv(r)'
  BY DEF LogInv, RequestInv, Checkable, Resolved
<1>2. ASSUME NEW c \in Checkers PROVE CheckerInv(c)'
  <2>1. CASE c # d
    BY <2>1 DEF LogInv, CheckerInv, Checkable
  <2>2. QED
    BY <2>1
<1>3. QED
  BY <1>1, <1>2 DEF LogInv

\* A write: the outcome found, if it is one, is the job's for good, so it
\* does not matter how old it is or who wrote the row meanwhile.
LEMMA UpdateKeepsInv ==
    ASSUME LogInv, NEW d \in Checkers, NEW q \in Requests, Update(d, q)
    PROVE  LogInv'
<1>0. /\ TypeOK /\ RequestInv(q) /\ CheckerInv(d) /\ looked[d] = q /\ q # Nothing
  BY DayTwoAssumption DEF LogInv, Update
<1>1. /\ Checkable(q) /\ found[d] \in JobStatus
      /\ found[d] \in Final => found[d] = job[q]
  BY <1>0 DEF CheckerInv
<1>2. UNCHANGED <<managed, target, stage, saw, job, todo>>
  BY DEF Update, requestVars
<1>3. log[q] \in LogRow
  BY <1>0, <1>1 DEF TypeOK, Checkable
<1>4. log' = [log EXCEPT ![q] = [status |-> found[d], job |-> log[q].job]]
  <2>1. [log[q] EXCEPT !.status = found[d]] = [status |-> found[d], job |-> log[q].job]
    BY <1>3 DEF LogRow
  <2>2. log' = [log EXCEPT ![q] = [log[q] EXCEPT !.status = found[d]]]
    BY DEF Update
  <2>3. QED
    BY <2>1, <2>2
<1>5. [status |-> found[d], job |-> log[q].job] \in LogRow
  BY <1>1, <1>3 DEF LogRow, JobStatus, LogStatus
<1>6. /\ log' \in [Requests -> LogRow \cup {NoRow}]
      /\ log'[q] \in LogRow
      /\ log'[q].status = found[d] /\ log'[q].job = log[q].job
      /\ \A r \in Requests : r # q => log'[r] = log[r]
  BY <1>0, <1>4, <1>5 DEF TypeOK
<1>7. \A r \in Requests : Checkable(r) => Checkable(r)'
  <2>1. Checkable(q)'
    BY <1>1, <1>6, DayTwoAssumption DEF Checkable
  <2>2. QED
    BY <1>6, <2>1 DEF Checkable
<1>8. /\ looked' = [looked EXCEPT ![d] = Nothing]
      /\ found' = [found EXCEPT ![d] = "none"]
  BY DEF Update
<1>9. TypeOK'
  BY <1>0, <1>2, <1>6, <1>8 DEF TypeOK
<1>10. ASSUME NEW r \in Requests PROVE RequestInv(r)'
  <2>1. CASE r = q
    <3>1. stage[q] = "over" /\ job[q] # "none"
      BY <1>0, <1>1 DEF TypeOK, RequestInv, Checkable
    <3>2. QED
      BY <1>0, <1>1, <1>2, <1>6, <2>1, <3>1 DEF RequestInv, Resolved, Final
  <2>2. CASE r # q
    BY <1>2, <1>6, <2>2 DEF LogInv, RequestInv, Checkable, Resolved
  <2>3. QED
    BY <2>1, <2>2
<1>11. ASSUME NEW c \in Checkers PROVE CheckerInv(c)'
  <2>1. /\ \A r \in todo[c] : Checkable(r) /\ r \in Requests
        /\ looked[c] # Nothing => looked[c] \in Requests
    BY <1>0 DEF LogInv, TypeOK, CheckerInv
  <2>2. CASE c = d
    BY <1>0, <1>2, <1>7, <1>8, <2>1, <2>2 DEF TypeOK, CheckerInv
  <2>3. CASE c # d
    BY <1>0, <1>2, <1>7, <1>8, <2>1, <2>3 DEF LogInv, TypeOK, CheckerInv
  <2>4. QED
    BY <2>2, <2>3
<1>12. QED
  BY <1>9, <1>10, <1>11 DEF LogInv

LEMMA CheckKeepsInv ==
    ASSUME LogInv, NEW d \in Checkers, Check(d)
    PROVE  LogInv'
<1> USE DEF requestVars, checkerVars
<1>0. TypeOK /\ CheckerInv(d) /\ \A r \in Requests : RequestInv(r)
  BY DEF LogInv
<1>1. CASE StartPoll(d)
  <2>1. TypeOK'
    BY <1>0, <1>1 DEF TypeOK, StartPoll
  <2>2. CheckerInv(d)'
    BY <1>0, <1>1 DEF TypeOK, StartPoll, CheckerInv, Checkable, Free, Pending
  <2>3. QED
    BY <1>0, <1>1, <2>1, <2>2, CheckerStep DEF StartPoll, TypeOK
<1>2. ASSUME NEW r \in Requests, StartCheck(d, r)
      PROVE  LogInv'
  <2>1. TypeOK'
    BY <1>0, <1>2 DEF TypeOK, StartCheck
  <2>2. CheckerInv(d)'
    BY <1>0, <1>2 DEF TypeOK, StartCheck, CheckerInv, Checkable, Free
  <2>3. QED
    BY <1>0, <1>2, <2>1, <2>2, CheckerStep DEF StartCheck, TypeOK
<1>3. ASSUME NEW r \in Requests, CheckRefused(d, r) \/ CheckUnanswered(d, r)
      PROVE  LogInv'
  <2>1. /\ looked[d] = Nothing /\ todo' = [todo EXCEPT ![d] = @ \ {r}]
        /\ UNCHANGED <<managed, target, stage, job, saw, log, looked, found>>
    BY <1>3 DEF CheckRefused, CheckUnanswered
  <2>2. TypeOK'
    BY <1>0, <2>1 DEF TypeOK
  <2>3. CheckerInv(d)'
    BY <1>0, <2>1 DEF TypeOK, CheckerInv, Checkable
  <2>4. QED
    BY <1>0, <2>1, <2>2, <2>3, CheckerStep DEF TypeOK
<1>4. ASSUME NEW r \in Requests, Look(d, r)
      PROVE  LogInv'
  <2>1. Checkable(r) /\ job[r] \in JobStatus
    BY <1>0, <1>4 DEF TypeOK, CheckerInv, RequestInv, Look
  <2>2. TypeOK'
    BY <1>0, <1>4 DEF TypeOK, Look
  <2>3. CheckerInv(d)'
    BY <1>0, <1>4, <2>1 DEF TypeOK, CheckerInv, Checkable, Look
  <2>4. QED
    BY <1>0, <1>4, <2>2, <2>3, CheckerStep DEF TypeOK, Look
<1>5. ASSUME NEW r \in Requests, Update(d, r)
      PROVE  LogInv'
  BY <1>5, UpdateKeepsInv
<1>6. ASSUME NEW r \in Requests, UpdateThrows(d, r)
      PROVE  LogInv'
  <2>1. TypeOK' /\ CheckerInv(d)'
    BY <1>0, <1>6 DEF TypeOK, UpdateThrows, CheckerInv, Checkable
  <2>2. QED
    BY <1>0, <1>6, <2>1, CheckerStep DEF TypeOK, UpdateThrows
<1>7. CASE CheckerLost(d)
  <2>1. TypeOK' /\ CheckerInv(d)'
    BY <1>0, <1>7 DEF TypeOK, CheckerLost, CheckerInv
  <2>2. QED
    BY <1>0, <1>7, <2>1, CheckerStep DEF TypeOK, CheckerLost
<1>8. QED
  BY <1>1, <1>2, <1>3, <1>4, <1>5, <1>6, <1>7 DEF Check

-----------------------------------------------------------------------------
LEMMA NextLogInv == LogInv /\ [Next]_vars => LogInv'
<1> SUFFICES ASSUME LogInv, [Next]_vars PROVE LogInv'
  OBVIOUS
<1>1. CASE Next
  BY <1>1, ManagedSteps, JobEndsKeepsInv, PerformKeepsInv, CheckKeepsInv DEF Next
<1>2. CASE UNCHANGED vars
  BY <1>2 DEF LogInv, TypeOK, RequestInv, CheckerInv, Checkable, Resolved,
              vars, requestVars, checkerVars
<1>3. QED
  BY <1>1, <1>2

LEMMA AlwaysLogInv == Spec => []LogInv
BY InitLogInv, NextLogInv, PTL DEF Spec

\* Requests and checkers keep to their types, however they interleave.
THEOREM DayTwoTypeCorrect == Spec => []TypeOK
<1>1. LogInv => TypeOK
  BY DEF LogInv
<1>2. QED
  BY <1>1, AlwaysLogInv, PTL

\* The action log never reports an outcome that the job does not have, with
\* any number of overlapping checkers that write from outdated answers.
THEOREM LogStaysTrue == Spec => []LogIsTrue
<1>1. LogInv => LogIsTrue
  BY DEF LogInv, RequestInv, LogIsTrue
<1>2. QED
  BY <1>1, AlwaysLogInv, PTL

\* A request writes its row once, when there is none.
LEMMA PerformKeepsOutcomes ==
    ASSUME LogInv, NEW q \in Requests, Perform(q), NEW r \in Requests, Resolved(r)
    PROVE  log'[r] = log[r]
<1>1. r = q => stage[q] = "over"
  BY DEF LogInv, TypeOK, RequestInv, Resolved
<1>2. CASE AcceptedWithoutJob(q) \/ Rejected(q) \/ Logged(q)
  <2>1. stage[q] # "over" /\ \E row : log' = [log EXCEPT ![q] = row]
    BY <1>2 DEF AcceptedWithoutJob, Rejected, Logged, InsertLog
  <2>2. QED
    BY <1>1, <2>1 DEF LogInv, TypeOK
<1>3. CASE ~(AcceptedWithoutJob(q) \/ Rejected(q) \/ Logged(q))
  BY <1>3 DEF Perform, NotManaged, Refused, Accepted, Unanswered, FirstLook, LogThrows, RequestLost
<1>4. QED
  BY <1>2, <1>3

\* A checker writes back what the log says already, unless it holds an answer
\* from before the job ended.
LEMMA UpdateKeepsOutcomes ==
    ASSUME LogInv, NEW c \in Checkers, NEW q \in Requests, Update(c, q),
           NEW r \in Requests, Resolved(r)
    PROVE  \/ log'[r] = log[r]
           \/ looked[c] = r /\ found[c] = "running" /\ looked'[c] = Nothing
<1>1. /\ looked[c] = q /\ q # Nothing /\ looked'[c] = Nothing
      /\ log' = [log EXCEPT ![q] = [log[q] EXCEPT !.status = found[c]]]
  BY DayTwoAssumption DEF LogInv, TypeOK, Update
<1>2. CASE r # q
  BY <1>1, <1>2 DEF LogInv, TypeOK
<1>3. CASE r = q /\ found[c] \in Final
  <2>1. log[q] \in LogRow /\ found[c] = log[q].status
    BY <1>1, <1>3 DEF LogInv, TypeOK, CheckerInv, RequestInv, Resolved
  <2>2. [log[q] EXCEPT !.status = found[c]] = log[q]
    BY <2>1 DEF LogRow
  <2>3. QED
    BY <1>1, <1>3, <2>2 DEF LogInv, TypeOK
<1>4. CASE r = q /\ found[c] = "running"
  BY <1>1, <1>4
<1>5. QED
  BY <1>1, <1>2, <1>3, <1>4 DEF LogInv, CheckerInv, JobStatus, Final

\* An outcome in the log is taken back by nothing but the late write of a
\* checker that looked before the job ended, however many there are.
THEOREM OutcomesStay == Spec => OutcomeStays
<1> DEFINE Kept == \A r \in Requests :
                      Resolved(r) =>
                        \/ log'[r] = log[r]
                        \/ \E c \in Checkers :
                              looked[c] = r /\ found[c] = "running" /\ looked'[c] = Nothing
<1>1. LogInv /\ [Next]_vars => [Kept]_vars
  <2> SUFFICES ASSUME LogInv, Next, NEW r \in Requests, Resolved(r)
               PROVE  \/ log'[r] = log[r]
                      \/ \E c \in Checkers :
                            looked[c] = r /\ found[c] = "running" /\ looked'[c] = Nothing
    OBVIOUS
  <2>1. CASE \E i \in Cis : RetireRow(i) \/ ReviveRow(i)
    BY <2>1 DEF RetireRow, ReviveRow
  <2>2. CASE \E q \in Requests : JobEnds(q)
    BY <2>2 DEF JobEnds
  <2>3. CASE \E q \in Requests : Perform(q)
    BY <2>3, PerformKeepsOutcomes
  <2>4. CASE \E c \in Checkers : \E q \in Requests : Update(c, q)
    BY <2>4, UpdateKeepsOutcomes
  <2>5. CASE \E c \in Checkers : Check(c) /\ ~\E q \in Requests : Update(c, q)
    BY <2>5 DEF Check, StartPoll, StartCheck, CheckRefused, CheckUnanswered, Look, UpdateThrows,
                CheckerLost
  <2>6. QED
    BY <2>1, <2>2, <2>3, <2>4, <2>5 DEF Next
<1>2. QED
  BY <1>1, AlwaysLogInv, PTL DEF Spec, OutcomeStays

-----------------------------------------------------------------------------
(* The buttons: what one says stays true, however late it is shown.        *)

\* A job that ended before its row was written: no checker holds an earlier
\* answer of it, so nobody will take the outcome back.
Settled(r, outcome) ==
    /\ job[r] = outcome
    /\ Checkable(r) /\ log[r].status = outcome
    /\ \A c \in Checkers : looked[c] = r => found[c] = outcome

\* A row that names no job: no checker ever reaches it.
WithoutJob(r, status) == log[r] # NoRow /\ ~log[r].job /\ log[r].status = status

\* What has been said, shown or not, and what makes it stay true.
TrueFor(r, says) ==
    /\ says # "none" => stage[r] = "over"
    /\ says = "succeeded" => Settled(r, "success")
    /\ says = "failed" =>
          log[r] = NoRow \/ WithoutJob(r, "fail") \/ Settled(r, "fail")
    /\ says = "not yet confirmed" => Checkable(r)
    /\ says = "requested" => WithoutJob(r, "requested")

ButtonInv ==
    /\ LogInv
    /\ answer \in [Requests -> Messages \cup {"none"}]
    /\ told \in [Requests -> Messages \cup {"none"}]
    /\ \A r \in Requests : TrueFor(r, told[r]) /\ TrueFor(r, answer[r])

LEMMA InitButtonInv == ButtonInit => ButtonInv
BY InitLogInv DEF ButtonInit, Init, ButtonInv, TrueFor

-----------------------------------------------------------------------------
\* What is true of a request stays true in every step of DayTwoAction.

LEMMA OverStays ==
    ASSUME LogInv, Next, NEW r \in Requests, stage[r] = "over"
    PROVE  stage'[r] = "over"
<1>1. CASE \E i \in Cis : RetireRow(i) \/ ReviveRow(i)
  BY <1>1 DEF RetireRow, ReviveRow, requestVars
<1>2. CASE \E q \in Requests : JobEnds(q)
  BY <1>2 DEF JobEnds, requestVars
<1>3. CASE \E q \in Requests : Perform(q)
  BY <1>3 DEF LogInv, TypeOK, Perform, NotManaged, Refused, Accepted, AcceptedWithoutJob,
              Rejected, Unanswered, FirstLook, Logged, LogThrows, RequestLost
<1>4. CASE \E c \in Checkers : Check(c)
  BY <1>4 DEF Check, StartPoll, StartCheck, CheckRefused, CheckUnanswered, Look,
              Update, UpdateThrows, CheckerLost, requestVars
<1>5. QED
  BY <1>1, <1>2, <1>3, <1>4 DEF Next

\* A request that is over does not touch its row, its job or the checkers.
LEMMA OverIsIdle ==
    ASSUME LogInv, NEW q \in Requests, Perform(q), NEW r \in Requests, stage[r] = "over"
    PROVE  log'[r] = log[r] /\ job'[r] = job[r] /\ UNCHANGED <<looked, found>>
<1>1. stage[q] # "over"
  BY DEF Perform, NotManaged, Refused, Accepted, AcceptedWithoutJob, Rejected,
         Unanswered, FirstLook, Logged, LogThrows, RequestLost
<1>2. r # q
  BY <1>1
<1>3. UNCHANGED <<looked, found>>
  BY DEF Perform, NotManaged, Refused, Accepted, AcceptedWithoutJob, Rejected,
         Unanswered, FirstLook, Logged, LogThrows, RequestLost, checkerVars
<1>4. UNCHANGED log \/ \E row : log' = [log EXCEPT ![q] = row]
  BY DEF Perform, NotManaged, Refused, Accepted, AcceptedWithoutJob, Rejected,
         Unanswered, FirstLook, Logged, LogThrows, RequestLost, InsertLog
<1>5. UNCHANGED job \/ \E status : job' = [job EXCEPT ![q] = status]
  BY DEF Perform, NotManaged, Refused, Accepted, AcceptedWithoutJob, Rejected,
         Unanswered, FirstLook, Logged, LogThrows, RequestLost, MayHaveStarted
<1>6. QED
  BY <1>2, <1>3, <1>4, <1>5 DEF LogInv, TypeOK

\* The row of another request, or of this one with the status it found.
LEMMA UpdateEffect ==
    ASSUME LogInv, NEW c \in Checkers, NEW q \in Requests, Update(c, q)
    PROVE  /\ looked[c] = q
           /\ UNCHANGED job
           /\ looked' = [looked EXCEPT ![c] = Nothing]
           /\ found' = [found EXCEPT ![c] = "none"]
           /\ \A r \in Requests : r # q => log'[r] = log[r]
           /\ Checkable(q) /\ Checkable(q)'
           /\ log'[q].status = found[c]
<1>1. looked[c] = q /\ q # Nothing
  BY DayTwoAssumption DEF Update
<1>2. Checkable(q) /\ log[q] \in LogRow /\ found[c] \in JobStatus
  BY <1>1 DEF LogInv, TypeOK, CheckerInv, Checkable
<1>3. [log[q] EXCEPT !.status = found[c]] = [status |-> found[c], job |-> log[q].job]
  BY <1>2 DEF LogRow
<1>4. log' = [log EXCEPT ![q] = [log[q] EXCEPT !.status = found[c]]]
  BY DEF Update
<1>5. log' = [log EXCEPT ![q] = [status |-> found[c], job |-> log[q].job]]
  BY <1>3, <1>4
<1>6. [status |-> found[c], job |-> log[q].job] \in LogRow
  BY <1>2 DEF LogRow, JobStatus, LogStatus
<1>7. log'[q] = [status |-> found[c], job |-> log[q].job]
      /\ \A r \in Requests : r # q => log'[r] = log[r]
  BY <1>5 DEF LogInv, TypeOK
<1>8. log'[q] \in LogRow /\ log'[q].job = log[q].job
  BY <1>6, <1>7
<1>9. Checkable(q)'
  BY <1>2, <1>8, DayTwoAssumption DEF Checkable
<1>10. QED
  BY <1>1, <1>2, <1>7, <1>9 DEF Update

LEMMA CheckableStays ==
    ASSUME LogInv, Next, NEW r \in Requests, stage[r] = "over", Checkable(r)
    PROVE  Checkable(r)'
<1>1. CASE \E i \in Cis : RetireRow(i) \/ ReviveRow(i)
  BY <1>1 DEF RetireRow, ReviveRow, Checkable
<1>2. CASE \E q \in Requests : JobEnds(q)
  BY <1>2 DEF JobEnds, Checkable
<1>3. CASE \E q \in Requests : Perform(q)
  BY <1>3, OverIsIdle DEF Checkable
<1>4. CASE \E c \in Checkers : \E q \in Requests : Update(c, q)
  BY <1>4, UpdateEffect DEF Checkable
<1>5. CASE \E c \in Checkers : Check(c) /\ ~\E q \in Requests : Update(c, q)
  BY <1>5 DEF Check, StartPoll, StartCheck, CheckRefused, CheckUnanswered, Look, UpdateThrows,
              CheckerLost, Checkable
<1>6. QED
  BY <1>1, <1>2, <1>3, <1>4, <1>5 DEF Next

LEMMA SettledStays ==
    ASSUME LogInv, Next, NEW r \in Requests, stage[r] = "over",
           NEW outcome \in Final, Settled(r, outcome)
    PROVE  Settled(r, outcome)'
<1>1. CASE \E i \in Cis : RetireRow(i) \/ ReviveRow(i)
  BY <1>1 DEF RetireRow, ReviveRow, checkerVars, Settled, Checkable
<1>2. CASE \E q \in Requests : JobEnds(q)
  BY <1>2 DEF LogInv, TypeOK, JobEnds, checkerVars, Settled, Checkable, Final
<1>3. CASE \E q \in Requests : Perform(q)
  BY <1>3, OverIsIdle DEF Settled, Checkable
<1>4. ASSUME NEW c \in Checkers, NEW q \in Requests, Update(c, q)
      PROVE  Settled(r, outcome)'
  <2>1. \A d \in Checkers : looked'[d] = r => found'[d] = outcome
    BY <1>4, UpdateEffect, DayTwoAssumption DEF LogInv, TypeOK, Settled
  <2>2. QED
    BY <1>4, <2>1, UpdateEffect DEF Settled, Checkable
<1>5. ASSUME NEW c \in Checkers, NEW q \in Requests, Look(c, q)
      PROVE  Settled(r, outcome)'
  BY <1>5 DEF LogInv, TypeOK, Look, Settled, Checkable
<1>6. CASE \E c \in Checkers : Check(c) /\ ~\E q \in Requests : Update(c, q) \/ Look(c, q)
  BY <1>6, DayTwoAssumption DEF LogInv, TypeOK, Check, StartPoll, StartCheck, CheckRefused,
                                CheckUnanswered, UpdateThrows, CheckerLost, Settled, Checkable
<1>7. QED
  BY <1>1, <1>2, <1>3, <1>4, <1>5, <1>6 DEF Next

LEMMA WithoutJobStays ==
    ASSUME LogInv, Next, NEW r \in Requests, stage[r] = "over", ~Checkable(r)
    PROVE  log'[r] = log[r]
<1>1. CASE \E i \in Cis : RetireRow(i) \/ ReviveRow(i)
  BY <1>1 DEF RetireRow, ReviveRow
<1>2. CASE \E q \in Requests : JobEnds(q)
  BY <1>2 DEF JobEnds
<1>3. CASE \E q \in Requests : Perform(q)
  BY <1>3, OverIsIdle
<1>4. CASE \E c \in Checkers : \E q \in Requests : Update(c, q)
  BY <1>4, UpdateEffect
<1>5. CASE \E c \in Checkers : Check(c) /\ ~\E q \in Requests : Update(c, q)
  BY <1>5 DEF Check, StartPoll, StartCheck, CheckRefused, CheckUnanswered, Look, UpdateThrows,
              CheckerLost
<1>6. QED
  BY <1>1, <1>2, <1>3, <1>4, <1>5 DEF Next

\* TrueFor in the next state, of what was said in this one.
StillTrue(r, says) ==
    /\ says # "none" => stage'[r] = "over"
    /\ says = "succeeded" => Settled(r, "success")'
    /\ says = "failed" =>
          log'[r] = NoRow \/ WithoutJob(r, "fail")' \/ Settled(r, "fail")'
    /\ says = "not yet confirmed" => Checkable(r)'
    /\ says = "requested" => WithoutJob(r, "requested")'

LEMMA TrueStays ==
    ASSUME LogInv, Next, NEW r \in Requests, NEW says, TrueFor(r, says)
    PROVE  StillTrue(r, says)
<1>1. says # "none" => stage[r] = "over" /\ stage'[r] = "over"
  BY OverStays DEF TrueFor
<1>2. CASE says = "succeeded"
  BY <1>1, <1>2, SettledStays DEF TrueFor, StillTrue, Final
<1>3. CASE says = "failed"
  <2>1. CASE Settled(r, "fail")
    BY <1>1, <1>3, <2>1, SettledStays DEF StillTrue, Final
  <2>2. CASE log[r] = NoRow \/ WithoutJob(r, "fail")
    BY <1>1, <1>3, <2>2, WithoutJobStays DEF StillTrue, WithoutJob, Checkable
  <2>3. QED
    BY <1>3, <2>1, <2>2 DEF TrueFor
<1>4. CASE says = "not yet confirmed"
  BY <1>1, <1>4, CheckableStays DEF TrueFor, StillTrue
<1>5. CASE says = "requested"
  BY <1>1, <1>5, WithoutJobStays DEF TrueFor, StillTrue, WithoutJob, Checkable
<1>6. QED
  BY <1>1, <1>2, <1>3, <1>4, <1>5 DEF StillTrue

-----------------------------------------------------------------------------
\* What a request says when it ends is true then.

LEMMA PressIsTrue ==
    ASSUME LogInv, NEW r \in Requests, NEW m, LogInv', Next,
           \/ m = "failed" /\ Throws(r)
           \/ m = "requested" /\ AcceptedWithoutJob(r)
           \/ m = OutcomeMessage(saw[r]) /\ Logged(r)
    PROVE  StillTrue(r, m) /\ m \in Messages
<1>0. stage'[r] = "over"
  BY DEF LogInv, TypeOK, Throws, NotManaged, Refused, Rejected, Unanswered, LogThrows,
         AcceptedWithoutJob, Logged
<1>1. CASE m = "failed" /\ Throws(r) /\ ~Rejected(r)
  <2>1. log'[r] = NoRow
    BY <1>1 DEF LogInv, RequestInv, Throws, NotManaged, Refused, Unanswered, LogThrows
  <2>2. QED
    BY <1>0, <1>1, <2>1 DEF StillTrue, Messages
<1>2. CASE m = "failed" /\ Rejected(r)
  <2>1. log'[r] = [status |-> "fail", job |-> FALSE]
    BY <1>2 DEF LogInv, TypeOK, Rejected, InsertLog
  <2>2. WithoutJob(r, "fail")'
    <3>1. log'[r] \in LogRow
      BY <2>1 DEF LogRow, LogStatus
    <3>2. log'[r] # NoRow
      BY <3>1, DayTwoAssumption
    <3>3. log'[r].job = FALSE
      BY <2>1
    <3>4. QED
      BY <2>1, <3>2, <3>3 DEF WithoutJob
  <2>3. QED
    BY <1>0, <1>2, <2>2 DEF StillTrue, Messages
<1>3. CASE m = "requested" /\ AcceptedWithoutJob(r)
  <2>1. log'[r] = [status |-> "requested", job |-> FALSE]
    BY <1>3 DEF LogInv, TypeOK, AcceptedWithoutJob, InsertLog
  <2>2. WithoutJob(r, "requested")'
    <3>1. log'[r] \in LogRow
      BY <2>1 DEF LogRow, LogStatus
    <3>2. log'[r] # NoRow
      BY <3>1, DayTwoAssumption
    <3>3. log'[r].job = FALSE
      BY <2>1
    <3>4. QED
      BY <2>1, <3>2, <3>3 DEF WithoutJob
  <2>3. QED
    BY <1>0, <1>3, <2>2 DEF StillTrue, Messages
<1>4. CASE m = OutcomeMessage(saw[r]) /\ Logged(r)
  <2>1. PICK st \in LogStatus :
          /\ log' = [log EXCEPT ![r] = [status |-> st, job |-> TRUE]]
          /\ st = IF saw[r] = "none" THEN "running" ELSE saw[r]
    BY <1>4 DEF LogInv, TypeOK, JobStatus, LogStatus, Logged, InsertLog
  <2>2. log'[r] \in LogRow /\ log'[r].status = st /\ log'[r].job
    BY <2>1 DEF LogInv, TypeOK, LogRow
  <2>3. Checkable(r)'
    BY <2>2, DayTwoAssumption DEF Checkable
  <2>4. \A c \in Checkers : looked[c] # r
    <3>1. ~Checkable(r)
      BY <1>4 DEF LogInv, RequestInv, Logged, Checkable
    <3>2. QED
      BY <3>1, DayTwoAssumption DEF LogInv, CheckerInv
  <2>5. UNCHANGED <<job, looked>>
    BY <1>4 DEF Logged, checkerVars
  <2>6. st \in Final => job[r] = st
    BY <2>1 DEF LogInv, RequestInv, Final
  <2>7. st \in Final => Settled(r, st)'
    BY <2>2, <2>3, <2>4, <2>5, <2>6 DEF Settled
  <2>8. /\ m \in Messages
        /\ m = "succeeded" => st = "success"
        /\ m = "failed" => st = "fail"
        /\ m # "requested"
    BY <1>4, <2>1 DEF OutcomeMessage, Messages
  <2>9. QED
    BY <1>0, <2>3, <2>7, <2>8 DEF StillTrue, Final
<1>5. QED
  BY <1>1, <1>2, <1>3, <1>4

LEMMA EndsKeepsInv ==
    ASSUME ButtonInv, LogInv', Next, NEW q \in Requests, NEW m \in Messages,
           Ends(q, m), StillTrue(q, m)
    PROVE  ButtonInv'
<1>1. /\ answer' \in [Requests -> Messages \cup {"none"}]
      /\ told' \in [Requests -> Messages \cup {"none"}]
      /\ \A r \in Requests : /\ answer'[r] = answer[r] \/ (r = q /\ answer'[r] = m)
                             /\ told'[r] = told[r] \/ (r = q /\ told'[r] = m)
  BY DEF ButtonInv, Ends
<1>2. \A r \in Requests : StillTrue(r, told[r]) /\ StillTrue(r, answer[r])
  BY TrueStays DEF ButtonInv
<1>3. \A r \in Requests : StillTrue(r, told'[r]) /\ StillTrue(r, answer'[r])
  BY <1>1, <1>2
<1>4. \A r \in Requests : TrueFor(r, told[r])' /\ TrueFor(r, answer[r])'
  BY <1>3 DEF TrueFor, StillTrue
<1>5. QED
  BY <1>1, <1>4 DEF ButtonInv

LEMMA SilentKeepsInv ==
    ASSUME ButtonInv, LogInv', Next, UNCHANGED buttonVars
    PROVE  ButtonInv'
<1>1. \A r \in Requests : StillTrue(r, told[r]) /\ StillTrue(r, answer[r])
  BY TrueStays DEF ButtonInv
<1>2. \A r \in Requests : TrueFor(r, told[r])' /\ TrueFor(r, answer[r])'
  BY <1>1 DEF TrueFor, StillTrue, buttonVars
<1>3. QED
  BY <1>2 DEF ButtonInv, buttonVars

LEMMA ShowKeepsInv ==
    ASSUME ButtonInv, NEW q \in Requests, ShowAnswer(q)
    PROVE  ButtonInv'
<1>1. LogInv'
  BY NextLogInv DEF ButtonInv, ShowAnswer
<1>2. /\ answer' \in [Requests -> Messages \cup {"none"}]
      /\ told' \in [Requests -> Messages \cup {"none"}]
      /\ \A r \in Requests : /\ answer'[r] \in {answer[r], "none"}
                             /\ told'[r] \in {told[r], answer[r]}
  BY DEF ButtonInv, ShowAnswer
<1>3. \A r \in Requests : TrueFor(r, told'[r]) /\ TrueFor(r, answer'[r])
  BY <1>2 DEF ButtonInv, TrueFor
<1>4. \A r \in Requests : TrueFor(r, told[r])' /\ TrueFor(r, answer[r])'
  BY <1>3 DEF ShowAnswer, vars, requestVars, checkerVars, TrueFor, Settled, WithoutJob,
              Checkable
<1>5. QED
  BY <1>1, <1>2, <1>4 DEF ButtonInv

LEMMA NextButtonInv == ButtonInv /\ [ButtonNext]_<<vars, buttonVars>> => ButtonInv'
<1> SUFFICES ASSUME ButtonInv, [ButtonNext]_<<vars, buttonVars>> PROVE ButtonInv'
  OBVIOUS
<1>1. ASSUME NEW r \in Requests, Press(r)
      PROVE  ButtonInv'
  <2>1. Next /\ LogInv'
    BY <1>1, NextLogInv DEF Press, Throws, Perform, Next, ButtonInv
  <2>2. PICK m : /\ Ends(r, m)
                 /\ \/ m = "failed" /\ Throws(r)
                    \/ m = "requested" /\ AcceptedWithoutJob(r)
                    \/ m = OutcomeMessage(saw[r]) /\ Logged(r)
    BY <1>1 DEF Press
  <2>3. StillTrue(r, m) /\ m \in Messages
    BY <2>1, <2>2, PressIsTrue DEF ButtonInv
  <2>4. QED
    BY <2>1, <2>2, <2>3, EndsKeepsInv
<1>2. ASSUME NEW r \in Requests, ShowAnswer(r)
      PROVE  ButtonInv'
  BY <1>2, ShowKeepsInv
<1>3. CASE Next /\ UNCHANGED buttonVars
  BY <1>3, NextLogInv, SilentKeepsInv DEF ButtonInv
<1>4. CASE UNCHANGED <<vars, buttonVars>>
  <2>1. LogInv'
    BY <1>4, NextLogInv DEF ButtonInv
  <2>2. QED
    BY <1>4, <2>1 DEF vars, requestVars, checkerVars, buttonVars, ButtonInv, TrueFor,
                      Settled, WithoutJob, Checkable
<1>5. ButtonNext => \/ Next /\ UNCHANGED buttonVars
                    \/ \E r \in Requests : Press(r) \/ ShowAnswer(r)
  BY DEF ButtonNext, Silent, Next, Perform
<1>6. QED
  BY <1>1, <1>2, <1>3, <1>4, <1>5

LEMMA AlwaysButtonInv == ButtonSpec => []ButtonInv
BY InitButtonInv, NextButtonInv, PTL DEF ButtonSpec

\* Requests, checkers and what the buttons say keep to their types.
THEOREM ButtonsTypeCorrect == ButtonSpec => []ButtonTypeOK
<1>1. ButtonInv => ButtonTypeOK
  BY DEF ButtonInv, LogInv, ButtonTypeOK
<1>2. QED
  BY <1>1, AlwaysButtonInv, PTL

\* What a button says agrees with the job and with the log when it is shown
\* and ever after, however many checkers update the row meanwhile and however
\* late the callback runs. It does not say that what failed was not done: of
\* an answer 5xx or a lost one a job may be under way.
THEOREM ButtonsTellTheTruth == ButtonSpec => []ButtonTellsTruth
<1>1. ASSUME ButtonInv, NEW r \in Requests, NEW says, TrueFor(r, says)
      PROVE  /\ says = "succeeded" => job[r] = "success" /\ Resolved(r)
             /\ says = "failed" /\ log[r] # NoRow =>
                   log[r].status = "fail" /\ (log[r].job => job[r] = "fail")
             /\ says = "not yet confirmed" =>
                   job[r] # "none" /\ log[r] # NoRow /\ log[r].job
             /\ says = "requested" =>
                   log[r] # NoRow /\ ~log[r].job /\ log[r].status = "requested"
  <2>1. Checkable(r) => job[r] # "none"
    BY <1>1 DEF ButtonInv, LogInv, RequestInv
  <2>2. CASE says = "succeeded"
    BY <1>1, <2>2 DEF TrueFor, Settled, Checkable, Resolved
  <2>3. CASE says = "failed"
    BY <1>1, <2>3 DEF TrueFor, Settled, WithoutJob
  <2>4. CASE says = "not yet confirmed"
    BY <1>1, <2>1, <2>4 DEF TrueFor, Checkable
  <2>5. CASE says = "requested"
    BY <1>1, <2>5 DEF TrueFor, WithoutJob
  <2>6. QED
    BY <2>2, <2>3, <2>4, <2>5
<1>2. ButtonInv => ButtonTellsTruth
  BY <1>1 DEF ButtonInv, ButtonTellsTruth
<1>3. QED
  BY <1>2, AlwaysButtonInv, PTL

=============================================================================
