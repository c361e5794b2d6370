----------------------------- MODULE DayTwoButtons -----------------------------
(***************************************************************************)
(* The six buttons on cmdb_ci_vm_instance and what each tells its user.    *)
(*                                                                         *)
(* Start, Stop and Reboot are server-side UI actions: the message is set   *)
(* in the transaction that performs the request. Resize, Attach and Detach *)
(* prompt on the client and go through HcConnectorEcsLifecycleAjax, whose  *)
(* answer a callback shows some time later, or never. The steps of a       *)
(* request are those of DayTwoAction; each that ends one says something.   *)
(***************************************************************************)
EXTENDS DayTwoAction

CONSTANT Button  \* the button each request was made with

hc_vm_instance_start  == [name |-> "start", ajax |-> FALSE]
hc_vm_instance_stop   == [name |-> "stop", ajax |-> FALSE]
hc_vm_instance_reboot == [name |-> "reboot", ajax |-> FALSE]
hc_vm_instance_resize == [name |-> "resize", ajax |-> TRUE]
hc_vm_instance_attach_volume == [name |-> "attach", ajax |-> TRUE]
hc_vm_instance_detach_volume == [name |-> "detach", ajax |-> TRUE]

Buttons == {hc_vm_instance_start, hc_vm_instance_stop, hc_vm_instance_reboot,
            hc_vm_instance_resize, hc_vm_instance_attach_volume,
            hc_vm_instance_detach_volume}

ASSUME ButtonsAssumption == Button \in [Requests -> Buttons]

\* "failed" is one message, whatever was thrown; its reason is the exception's
\* text.
Messages == {"succeeded", "not yet confirmed", "requested", "failed"}

VARIABLES
    answer,  \* what HcConnectorEcsLifecycleAjax answered and nobody has shown
    told     \* the message of each request's button

buttonVars == <<answer, told>>

ButtonInit ==
    /\ Init
    /\ answer = [r \in Requests |-> "none"]
    /\ told = [r \in Requests |-> "none"]

\* performX returned or threw: a server-side UI action says so at once, the
\* Ajax processor sends it to the client.
Ends(r, message) ==
    IF Button[r].ajax
      THEN answer' = [answer EXCEPT ![r] = message] /\ UNCHANGED told
      ELSE told' = [told EXCEPT ![r] = message] /\ UNCHANGED answer

\* Mutant: a job that has not failed is a job that is done.
OutcomeMessageUnlessFailed(status) ==
    IF status = "fail" THEN "failed" ELSE "succeeded"

OutcomeMessage(status) ==
    CASE status = "success" -> "succeeded"
      [] status = "fail" -> "failed"
      [] OTHER -> "not yet confirmed"

\* performX throws: the catch shows "failed" with the exception's text.
Throws(r) ==
    \/ NotManaged(r) \/ Refused(r) \/ Rejected(r) \/ Unanswered(r) \/ LogThrows(r)

\* What ends a request, and what it says.
Press(r) ==
    \/ Throws(r) /\ Ends(r, "failed")
    \/ AcceptedWithoutJob(r) /\ Ends(r, "requested")
    \/ Logged(r) /\ Ends(r, OutcomeMessage(saw[r]))

\* ... and what does not end it or says nothing.
Silent(r) == (Accepted(r) \/ FirstLook(r) \/ RequestLost(r)) /\ UNCHANGED buttonVars

\* The callback of getXMLAnswer.
ShowAnswer(r) ==
    /\ answer[r] # "none"
    /\ told' = [told EXCEPT ![r] = answer[r]]
    /\ answer' = [answer EXCEPT ![r] = "none"]
    /\ UNCHANGED vars

ButtonNext ==
    \/ \E i \in Cis : (RetireRow(i) \/ ReviveRow(i)) /\ UNCHANGED buttonVars
    \/ \E r \in Requests :
          \/ JobEnds(r) /\ UNCHANGED buttonVars
          \/ Press(r) \/ Silent(r) \/ ShowAnswer(r)
    \/ \E c \in Checkers : Check(c) /\ UNCHANGED buttonVars

ButtonSpec == ButtonInit /\ [][ButtonNext]_<<vars, buttonVars>>
FairButtonSpec == ButtonSpec /\ Fairness

-----------------------------------------------------------------------------
(* Properties.                                                             *)

ButtonTypeOK ==
    /\ TypeOK
    /\ answer \in [Requests -> Messages \cup {"none"}]
    /\ told \in [Requests -> Messages \cup {"none"}]

\* Whatever a button says, however late the callback says it, still agrees
\* with the job and with the action log, which overlapping checkers go on
\* updating: a success is one and its row says so; a failure never has a row
\* that says otherwise, and if the row knows the job the job has failed; what
\* is not yet confirmed has a row by which the poller will confirm it, and
\* what is only requested has one that nobody will ever touch again.
ButtonTellsTruth ==
    \A r \in Requests : \A says \in {told[r], answer[r]} :
        /\ says = "succeeded" => job[r] = "success" /\ Resolved(r)
        /\ says = "failed" /\ log[r] # NoRow =>
              log[r].status = "fail" /\ (log[r].job => job[r] = "fail")
        /\ says = "not yet confirmed" =>
              job[r] # "none" /\ log[r] # NoRow /\ log[r].job
        /\ says = "requested" =>
              log[r] # NoRow /\ ~log[r].job /\ log[r].status = "requested"

=============================================================================
