----------------------------- MODULE EventMapping -----------------------------
(***************************************************************************)
(* What becomes of one Cloud Eye notification: the em_event of the webhook *)
(* (webhook-scripted-rest.js), the same mapping in its tested form         *)
(* (lib/mapAlarmToEvent.js), and the standard envelope a gateway would     *)
(* make of it (lib/eventEnvelope.js). Names are opaque; of a dimension     *)
(* string only its key and its value matter.                               *)
(***************************************************************************)
EXTENDS Naturals

CONSTANTS
    Ids,     \* instance ids, names, alarm ids
    Absent   \* a field that is missing or empty; '' and null

\* What a time looks like: epoch milliseconds, an ISO 8601 string, or
\* something em_event cannot take for a date.
Times == [form : {"millis", "iso", "text"}, at : Nat]

\* ... which is no value of a field: nothing received, no source of an event,
\* and no composite id.
ASSUME AbsentAssumption ==
    /\ Absent \notin Ids \cup Nat \cup Times \cup {"cloud_eye"}
    /\ Absent \notin Ids \X {"alarm", "ok"} \X (Times \cup {Absent})

Levels == {"Critical", "Major", "Minor", "Informational", "other"}
Dimension == [key : {"instance_id", "other"}, value : Ids]

\* The parsed notification. `status` is "alarm" while firing, "ok" after.
RawAlarm == [alarm_id     : Ids,
             status       : {"alarm", "ok"},
             level        : Levels,
             resourceId   : Ids \cup {Absent},
             resourceName : Ids \cup {Absent},
             dimension    : Dimension \cup {Absent},
             metric_name  : Ids \cup {Absent},
             time         : Times \cup {Absent}]

LEVEL_MAP(level) ==
    CASE level = "Critical" -> 1
      [] level = "Major" -> 2
      [] level = "Minor" -> 3
      [] OTHER -> 4

Or(value, default) == IF value = Absent THEN default ELSE value

-----------------------------------------------------------------------------
(* lib/mapAlarmToEvent.js                                                  *)

MapSeverity(status, level) == IF status = "ok" THEN 5 ELSE LEVEL_MAP(level)

ParseDimensionString(dimension) ==
    IF dimension # Absent /\ dimension.key = "instance_id" THEN dimension.value ELSE Absent

ExtractInstanceId(raw) == Or(raw.resourceId, ParseDimensionString(raw.dimension))

\* The time is passed on as it came.
BuildEventFields(raw) ==
    [severity |-> MapSeverity(raw.status, raw.level),
     resource |-> ExtractInstanceId(raw),
     node     |-> Or(raw.resourceName, ExtractInstanceId(raw)),
     type     |-> raw.metric_name,
     time     |-> raw.time]

\* isSmnConfirmation, parseSmnNotification: what to do with an envelope.
SmnKind(envelope) ==
    CASE envelope.type \in {"SubscriptionConfirmation", "UnsubscribeConfirmation"} -> "confirm"
      [] envelope.type = "Notification" /\ envelope.message # Absent -> "notification"
      [] OTHER -> "none"

-----------------------------------------------------------------------------
(* webhook-scripted-rest.js, the same inline.                              *)

\* time_of_event: "never let a time format surprise block the insert". A
\* number is converted, unless that throws; a string is taken for a date if
\* it is one; of anything else there is no time.
WebhookTimes(raw) ==
    CASE raw.time = Absent -> {Absent}
      [] raw.time # Absent /\ raw.time.form = "millis" -> {raw.time.at, Absent}
      [] raw.time # Absent /\ raw.time.form = "iso" -> {raw.time.at}
      [] OTHER -> {Absent}

\* Mutant: a recovered alarm keeps its level.
WebhookEventByLevel(raw, time) ==
    [severity |-> LEVEL_MAP(raw.level),
     resource |-> ExtractInstanceId(raw),
     node     |-> Or(raw.resourceName, ExtractInstanceId(raw)),
     type     |-> raw.metric_name,
     time     |-> time]

\* Mutant: the dimension is taken for the instance whatever its key is.
WebhookEventOfAnyDimension(raw, time) ==
    LET instanceId == Or(raw.resourceId,
                         IF raw.dimension # Absent THEN raw.dimension.value ELSE Absent)
    IN  [severity |-> MapSeverity(raw.status, raw.level),
         resource |-> instanceId,
         node     |-> Or(raw.resourceName, instanceId),
         type     |-> raw.metric_name,
         time     |-> time]

WebhookEvent(raw, time) ==
    LET instanceId == IF raw.resourceId # Absent THEN raw.resourceId
                      ELSE IF raw.dimension = Absent THEN Absent
                      ELSE IF raw.dimension.key # "instance_id" THEN Absent
                      ELSE raw.dimension.value
    IN  [severity |-> IF raw.status = "ok" THEN 5 ELSE LEVEL_MAP(raw.level),
         resource |-> instanceId,
         node     |-> Or(raw.resourceName, instanceId),
         type     |-> raw.metric_name,
         time     |-> time]

-----------------------------------------------------------------------------
(* lib/eventEnvelope.js                                                    *)

SOURCE_TYPES == {"cloud_eye", "cts", "config", "smn"}

NormalizeEnvelope(raw, sourceType) ==
    [raw EXCEPT !.source = Or(@, sourceType), !.status = Or(@, "unknown")]

ValidateEnvelope(envelope) ==
    /\ envelope.event_id # Absent
    /\ envelope.event_type # Absent
    /\ envelope.source \in SOURCE_TYPES

\* Mutant: the alarm's own id.
AlarmIdOnly(alarmId, status, occurredAt) == <<alarmId>>

\* A time that is missing is 'unknown'.
BuildCompositeEventId(alarmId, status, occurredAt) == <<alarmId, status, occurredAt>>

IsDuplicateEventId(eventId, seenIds) == eventId # Absent /\ eventId \in seenIds

\* A message id, where there is one, takes the place of the composite.
FromLegacySmnAlarm(fields, raw, messageId) ==
    NormalizeEnvelope(
        [event_id    |-> IF messageId # Absent THEN messageId
                         ELSE BuildCompositeEventId(raw.alarm_id, raw.status, fields.time),
         source      |-> "cloud_eye",
         event_type  |-> fields.type,
         resource_id |-> fields.resource,
         occurred_at |-> fields.time,
         severity    |-> fields.severity,
         status      |-> IF raw.status = "ok" THEN "resolved" ELSE "firing",
         correlation_key |-> raw.alarm_id], Absent)

=============================================================================
