----------------------------- MODULE AlarmEvents -----------------------------
(***************************************************************************)
(* Alarms on their way to em_event: Cloud Eye changes an alarm's state,    *)
(* SMN posts the notification to the webhook until it gets a 2xx answer or *)
(* gives up, in any order and again when an answer is lost, and the        *)
(* webhook inserts an em_event for every delivery it accepts. SMN sends    *)
(* notifications once its subscription has been confirmed.                 *)
(***************************************************************************)
EXTENDS EventMapping, FiniteSets

CONSTANTS
    Alarms,     \* alarm ids
    Shapes,     \* what the notifications of an alarm look like
    MaxChanges  \* bound: state changes of alarms in all

TimeOf(shape, at) == IF shape.form = "none" THEN Absent ELSE [form |-> shape.form, at |-> at]

ASSUME AlarmsAssumption ==
    /\ Alarms \subseteq Ids
    /\ MaxChanges \in Nat
    /\ \A shape \in Shapes :
       /\ shape.form \in {"millis", "iso", "text", "none"}
       /\ [alarm_id |-> CHOOSE a \in Alarms : TRUE, status |-> "ok", level |-> shape.level,
           resourceId |-> shape.resourceId, resourceName |-> shape.resourceName,
           dimension |-> shape.dimension, metric_name |-> shape.metric_name,
           time |-> TimeOf(shape, 0)] \in RawAlarm

\* Messages that are not about an alarm: broken JSON, JSON of another shape,
\* and an envelope of another type.
Odd == [alarm : {Absent}, status : {"garbled", "unmapped", "other type"}, at : {0}]

VARIABLES
    shape,        \* of each alarm's notifications
    firing,       \* the alarms that are firing at Cloud Eye
    clock,
    subscription, \* "pending", "confirmed", "acknowledged": 200 without the GET
    authorized,   \* the shared secret is configured and sent
    sent,         \* everything SMN was ever given to deliver
    pending,      \* ... and still tries to
    dropped,      \* ... and has given up
    events        \* em_event, one record per distinct row

smnVars == <<subscription, authorized, sent, pending, dropped>>
alarmVars == <<shape, firing, clock, smnVars, events>>

AlarmInit ==
    /\ shape \in [Alarms -> Shapes]
    /\ firing = {}
    /\ clock = 0
    /\ subscription = "pending"
    /\ authorized \in BOOLEAN
    /\ sent = {} /\ pending = {} /\ dropped = {}
    /\ events = {}

-----------------------------------------------------------------------------
(* Cloud Eye and SMN.                                                      *)

Raw(m) ==
    [alarm_id |-> m.alarm, status |-> m.status, level |-> shape[m.alarm].level,
     resourceId |-> shape[m.alarm].resourceId, resourceName |-> shape[m.alarm].resourceName,
     dimension |-> shape[m.alarm].dimension, metric_name |-> shape[m.alarm].metric_name,
     time |-> TimeOf(shape[m.alarm], m.at)]

\* The state changes, and whoever has subscribed is told.
AlarmChanges(a) ==
    LET status == IF a \in firing THEN "ok" ELSE "alarm"
        m == [alarm |-> a, status |-> status, at |-> clock + 1]
        told == IF subscription = "confirmed" THEN {m} ELSE {}
    IN  /\ clock < MaxChanges
        /\ clock' = clock + 1
        /\ firing' = IF a \in firing THEN firing \ {a} ELSE firing \cup {a}
        /\ sent' = sent \cup told
        /\ pending' = pending \cup told
        /\ UNCHANGED <<shape, subscription, authorized, dropped, events>>

\* Something else is published on the topic; bound: once.
PublishOdd(m) ==
    /\ subscription = "confirmed"
    /\ sent \cap Odd = {}
    /\ sent' = sent \cup {m}
    /\ pending' = pending \cup {m}
    /\ UNCHANGED <<shape, firing, clock, subscription, authorized, dropped, events>>

\* The secret is lost, or put right.
SwitchSecret ==
    /\ authorized' = ~authorized
    /\ UNCHANGED <<shape, firing, clock, subscription, sent, pending, dropped, events>>

GiveUp(m) ==
    /\ m \in pending
    /\ pending' = pending \ {m}
    /\ dropped' = dropped \cup {m}
    /\ UNCHANGED <<shape, firing, clock, subscription, authorized, sent, events>>

-----------------------------------------------------------------------------
(* The webhook.                                                            *)

\* The subscription handshake: the GET may fail, which is only logged.
Confirm ==
    /\ authorized
    /\ subscription = "pending"
    /\ subscription' \in {"confirmed", "acknowledged"}
    /\ UNCHANGED <<shape, firing, clock, authorized, sent, pending, dropped, events>>

\* An administrator asks for the confirmation message once more.
Resubscribe ==
    /\ subscription = "acknowledged"
    /\ subscription' = "pending"
    /\ UNCHANGED <<shape, firing, clock, authorized, sent, pending, dropped, events>>

\* A row has in additional_info what it was made of.
Unrecognized(m) ==
    [alarm |-> Absent, severity |-> 4, resource |-> Absent, node |-> Absent,
     type |-> Absent, time |-> Absent, info |-> m]

EmEvents(m) ==
    {LET fields == WebhookEvent(Raw(m), time)
     IN  [alarm |-> m.alarm, severity |-> fields.severity, resource |-> fields.resource,
          node |-> fields.node, type |-> fields.type, time |-> fields.time, info |-> m] :
        time \in WebhookTimes(Raw(m))}

\* The rows a message may leave when it is accepted: one of these.
RowsOfMessage(m) ==
    CASE m.status \in {"garbled", "other type"} -> {}
      [] m.status = "unmapped" -> {Unrecognized(m)}
      [] OTHER -> EmEvents(m)

Recorded(m) == RowsOfMessage(m) = {} \/ RowsOfMessage(m) \cap events # {}

\* 2xx; the answer may be lost on its way.
Accept(m) ==
    /\ m \in pending
    /\ authorized
    /\ m.status # "garbled"
    /\ \/ RowsOfMessage(m) = {} /\ UNCHANGED events
       \/ \E e \in RowsOfMessage(m) : events' = events \cup {e}
    /\ pending' \in {pending, pending \ {m}}
    /\ UNCHANGED <<shape, firing, clock, subscription, authorized, sent, dropped>>

\* Mutant: an answer is sent whatever the insert does.
FailAcknowledged(m) ==
    /\ m \in pending
    /\ pending' = pending \ {m}
    /\ UNCHANGED <<shape, firing, clock, subscription, authorized, sent, dropped, events>>

\* 401, 400 or 500: nothing is inserted and SMN tries again.
Fail(m) ==
    /\ m \in pending
    /\ UNCHANGED alarmVars

AlarmNext ==
    \/ \E a \in Alarms : AlarmChanges(a)
    \/ \E m \in Odd : PublishOdd(m)
    \/ SwitchSecret \/ Confirm \/ Resubscribe
    \/ \E m \in pending : Accept(m) \/ Fail(m) \/ GiveUp(m)

AlarmSpec == AlarmInit /\ [][AlarmNext]_alarmVars

\* A message that is tried again and again is accepted in the end and the
\* answer reaches SMN, unless the secret is wrong or SMN gives up before. No
\* two notifications have the same time.
AlarmFairness ==
    \A t \in 1..MaxChanges :
        WF_alarmVars(\E m \in pending : m.at = t /\ Accept(m) /\ m \notin pending')

-----------------------------------------------------------------------------
(* Properties.                                                             *)

Notifications == {m \in sent : m \notin Odd}

AlarmTypeOK ==
    /\ firing \subseteq Alarms
    /\ clock \in 0..MaxChanges
    /\ subscription \in {"pending", "confirmed", "acknowledged"}
    /\ pending \cup dropped \subseteq sent
    /\ \A e \in events : e.severity \in 1..5

\* What SMN was told to forget - by a 2xx answer, and not by its own giving
\* up - is in em_event: nothing is acknowledged and lost.
AcknowledgedIsRecorded == \A m \in sent \ (pending \cup dropped) : Recorded(m)

\* Whatever the order and the number of deliveries, once everything about an
\* alarm has been delivered there is a row of its latest change, which says
\* whether it is firing (severity 5 if and only if it is not), and no row has
\* a later time_of_event. That row has its time, unless the webhook could
\* make nothing of the notification's in any delivery; of an ISO string it can.
EventsTellTheState ==
    \A a \in Alarms :
        LET about == {m \in Notifications : m.alarm = a}
            rows  == {e \in events : e.alarm = a}
        IN  (about # {} /\ about \cap (pending \cup dropped) = {} /\ subscription = "confirmed")
                => \E e \in rows :
                      /\ (e.severity = 5) <=> (a \notin firing)
                      /\ \A f \in rows : f.time # Absent => f.time <= e.info.at
                      /\ e.time = Absent =>
                            /\ shape[a].form # "iso"
                            /\ \A f \in rows : f.info = e.info => f.time = Absent

\* "Keep both in sync": the webhook and the tested mapping make the same
\* event of every notification, but for the form of its time: a time the
\* webhook sets is the instant the notification tells.
MirrorAgrees ==
    \A e \in events : e.alarm \in Alarms =>
        LET raw == Raw(e.info)
            fields == BuildEventFields(raw)
        IN  /\ e.severity = fields.severity
            /\ e.resource = fields.resource /\ e.node = fields.node /\ e.type = fields.type
            /\ e.time # Absent => raw.time # Absent /\ e.time = fields.time.at

Envelope(m) == FromLegacySmnAlarm(BuildEventFields(Raw(m)), Raw(m), Absent)

\* "Composing in status + occurred_at keeps firing/resolved distinct while
\* still deduping a true redelivery": with the ids of the notifications
\* already ingested, exactly those are duplicates - of the notifications that
\* tell their time - and an envelope is valid if the alarm has a metric.
DuplicatesAreRedeliveries ==
    \A m \in Notifications :
        LET ingested == Notifications \ pending
        IN  /\ Raw(m).time # Absent =>
                  (IsDuplicateEventId(Envelope(m).event_id, {Envelope(n).event_id : n \in ingested})
                      <=> m \in ingested)
            /\ ValidateEnvelope(Envelope(m)) <=> Raw(m).metric_name # Absent

\* A notification ends up in em_event, unless SMN gives it up: an outage, a
\* wrong secret or a lost answer delays it only. (Only MaxChanges are ever
\* sent, so that there is a time by which all of them have arrived.)
NotificationArrives ==
    <>[]authorized => <>[](\A m \in Notifications : m \in dropped \/ Recorded(m))

=============================================================================
