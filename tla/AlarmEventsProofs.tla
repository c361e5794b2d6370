-------------------------- MODULE AlarmEventsProofs --------------------------
(***************************************************************************)
(* Theorems about AlarmEvents, for any alarms and shapes of notifications, *)
(* delivered any number of times in any order.                             *)
(***************************************************************************)
EXTENDS AlarmEvents, TLAPS

\* A notification of a state change that has happened.
IsNotification(m) ==
    /\ m.alarm \in Alarms
    /\ m.status \in {"alarm", "ok"}
    /\ m.at \in 1..clock
    /\ m = [alarm |-> m.alarm, status |-> m.status, at |-> m.at]

About(a) == {m \in sent : m.alarm = a}

\* What SMN was given.
SentInv ==
    /\ shape \in [Alarms -> Shapes]
    /\ firing \subseteq Alarms
    /\ clock \in 0..MaxChanges
    /\ subscription \in {"pending", "confirmed", "acknowledged"}
    /\ pending \cup dropped \subseteq sent
    /\ subscription # "confirmed" => sent = {}
    /\ \A m \in sent : m \in Odd \/ IsNotification(m)

\* The last of an alarm's notifications tells its state.
LastIsTrue ==
    \A a \in Alarms :
        About(a) = {} \/ \E m \in About(a) :
            /\ \A n \in About(a) : n.at <= m.at
            /\ m.status = "ok" <=> a \notin firing

\* Rows come from notifications, and every notification that is done with
\* has left its row.
RowsInv ==
    /\ \A e \in events : \E m \in sent : e \in RowsOfMessage(m)
    /\ AcknowledgedIsRecorded

EventsInv == SentInv /\ LastIsTrue /\ RowsInv

-----------------------------------------------------------------------------
(* The mapping.                                                            *)

\* The webhook's inline mapping and the tested one, of whatever arrives: all
\* but the time.
LEMMA MappingsAgree ==
    \A raw, time :
        /\ WebhookEvent(raw, time).severity = BuildEventFields(raw).severity
        /\ WebhookEvent(raw, time).resource = BuildEventFields(raw).resource
        /\ WebhookEvent(raw, time).node = BuildEventFields(raw).node
        /\ WebhookEvent(raw, time).type = BuildEventFields(raw).type
        /\ WebhookEvent(raw, time).time = time
        /\ BuildEventFields(raw).time = raw.time
BY DEF WebhookEvent, BuildEventFields, MapSeverity, ExtractInstanceId,
       ParseDimensionString, Or

\* The time of a row, if it has one, is that of the notification.
LEMMA TimesOfRaw ==
    ASSUME NEW m, NEW time \in WebhookTimes(Raw(m))
    PROVE  /\ time # Absent => /\ Raw(m).time # Absent
                              /\ time = Raw(m).time.at /\ time = m.at
           /\ time = Absent /\ m.at \in Nat => shape[m.alarm].form # "iso"
<1> DEFINE f == shape[m.alarm].form
<1>1. Raw(m).time = IF f = "none" THEN Absent ELSE [form |-> f, at |-> m.at]
  BY DEF Raw, TimeOf
<1>2. [form |-> f, at |-> m.at].at = m.at /\ [form |-> f, at |-> m.at].form = f
  OBVIOUS
<1>3. CASE f = "none"
  BY <1>1, <1>3 DEF WebhookTimes
<1>4. CASE f # "none" /\ Raw(m).time = Absent
  <2>1. time = Absent
    BY <1>4 DEF WebhookTimes
  <2>2. ASSUME m.at \in Nat, f = "iso" PROVE FALSE
    <3>1. [form |-> f, at |-> m.at] \in Times
      BY <2>2 DEF Times
    <3>2. QED
      BY <1>1, <1>4, <3>1, AbsentAssumption
  <2>3. QED
    BY <2>1, <2>2
<1>5. CASE Raw(m).time # Absent
  <2>1. Raw(m).time.at = m.at /\ Raw(m).time.form = f
    BY <1>1, <1>2, <1>5
  <2>2. \/ f = "millis" /\ time \in {m.at, Absent}
        \/ f = "iso" /\ time = m.at
        \/ f \notin {"millis", "iso"} /\ time = Absent
    BY <1>5, <2>1 DEF WebhookTimes
  <2>3. QED
    BY <1>5, <2>1, <2>2, AbsentAssumption
<1>6. QED
  BY <1>3, <1>4, <1>5

\* What the row of a notification has.
LEMMA RowOfNotification ==
    ASSUME NEW m, m.status \in {"alarm", "ok"}, NEW e \in EmEvents(m)
    PROVE  /\ e.alarm = m.alarm /\ e.info = m
           /\ e.severity \in 1..5 /\ (e.severity = 5 <=> m.status = "ok")
           /\ e.time # Absent => e.time = m.at
           /\ e.time = Absent /\ m.at \in Nat => shape[m.alarm].form # "iso"
<1>1. PICK time \in WebhookTimes(Raw(m)) :
        e = [alarm |-> m.alarm, severity |-> WebhookEvent(Raw(m), time).severity,
             resource |-> WebhookEvent(Raw(m), time).resource,
             node |-> WebhookEvent(Raw(m), time).node, type |-> WebhookEvent(Raw(m), time).type,
             time |-> WebhookEvent(Raw(m), time).time, info |-> m]
  BY DEF EmEvents
<1>2. WebhookEvent(Raw(m), time).time = time
  BY DEF WebhookEvent
<1>3. LET severity == WebhookEvent(Raw(m), time).severity
      IN  severity \in 1..5 /\ (severity = 5 <=> m.status = "ok")
  <2>1. WebhookEvent(Raw(m), time).severity =
          IF Raw(m).status = "ok" THEN 5 ELSE LEVEL_MAP(Raw(m).level)
    BY DEF WebhookEvent
  <2>2. Raw(m).status = m.status
    BY DEF Raw
  <2>3. LEVEL_MAP(Raw(m).level) \in 1..4
    BY DEF LEVEL_MAP
  <2>4. QED
    BY <2>1, <2>2, <2>3
<1>4. QED
  BY <1>1, <1>2, <1>3, TimesOfRaw

\* A row is of the message it was made of.
LEMMA RowsAreOf ==
    ASSUME EventsInv, NEW m \in sent, NEW e \in RowsOfMessage(m)
    PROVE  /\ e.info = m
           /\ \/ m \in Odd /\ e = Unrecognized(m)
              \/ IsNotification(m) /\ e \in EmEvents(m)
<1>1. CASE m \in Odd
  <2>1. m.status \in {"garbled", "unmapped", "other type"}
    BY <1>1 DEF Odd
  <2>2. e = Unrecognized(m)
    BY <2>1 DEF RowsOfMessage
  <2>3. QED
    BY <1>1, <2>2 DEF Unrecognized
<1>2. CASE m \notin Odd
  <2>1. IsNotification(m) /\ e \in EmEvents(m)
    BY <1>2 DEF EventsInv, SentInv, IsNotification, RowsOfMessage
  <2>2. QED
    BY <2>1, RowOfNotification DEF IsNotification
<1>3. QED
  BY <1>1, <1>2

\* Odd messages are about no alarm.
LEMMA OddIsNoAlarm ==
    ASSUME NEW m \in Odd PROVE m.alarm \notin Alarms /\ ~IsNotification(m)
BY AbsentAssumption, AlarmsAssumption DEF Odd, IsNotification

LEMMA SameShape ==
    ASSUME UNCHANGED shape PROVE \A m : RowsOfMessage(m)' = RowsOfMessage(m)
<1>1. \A m : EmEvents(m)' = EmEvents(m)
  BY DEF EmEvents, Raw, WebhookTimes, TimeOf
<1>2. QED
  BY <1>1 DEF RowsOfMessage, Unrecognized

LEMMA SameRows ==
    ASSUME UNCHANGED <<shape, events>>
    PROVE  \A m : RowsOfMessage(m)' = RowsOfMessage(m) /\ Recorded(m)' = Recorded(m)
BY SameShape DEF Recorded

-----------------------------------------------------------------------------
LEMMA InitEventsInv == AlarmInit => EventsInv
BY AlarmsAssumption
   DEF AlarmInit, EventsInv, SentInv, LastIsTrue, About, RowsInv, AcknowledgedIsRecorded

\* A state change, told or not.
LEMMA ChangeKeepsInv ==
    ASSUME EventsInv, NEW a \in Alarms, AlarmChanges(a)
    PROVE  EventsInv'
<1>0. clock \in Nat /\ clock < MaxChanges /\ clock' = clock + 1 /\ clock' \in 0..MaxChanges
  BY AlarmsAssumption DEF EventsInv, SentInv, AlarmChanges
<1>1. PICK m, told :
        /\ m.alarm = a /\ m.status \in {"alarm", "ok"} /\ m.at = clock + 1
        /\ m = [alarm |-> m.alarm, status |-> m.status, at |-> m.at]
        /\ m.status = "ok" <=> a \in firing
        /\ told = IF subscription = "confirmed" THEN {m} ELSE {}
        /\ sent' = sent \cup told /\ pending' = pending \cup told
  <2> DEFINE status == IF a \in firing THEN "ok" ELSE "alarm"
             n == [alarm |-> a, status |-> status, at |-> clock + 1]
  <2>1. /\ n.alarm = a /\ n.status \in {"alarm", "ok"} /\ n.at = clock + 1
        /\ n = [alarm |-> n.alarm, status |-> n.status, at |-> n.at]
        /\ n.status = "ok" <=> a \in firing
    OBVIOUS
  <2>2. /\ sent' = sent \cup (IF subscription = "confirmed" THEN {n} ELSE {})
        /\ pending' = pending \cup (IF subscription = "confirmed" THEN {n} ELSE {})
    BY DEF AlarmChanges
  <2> HIDE DEF n
  <2>3. QED
    BY <2>1, <2>2
<1>2. /\ firing' = IF a \in firing THEN firing \ {a} ELSE firing \cup {a}
      /\ UNCHANGED <<shape, subscription, dropped, events>>
  BY DEF AlarmChanges
<1>3. /\ told = {} \/ told = {m}
      /\ m.status = "ok" <=> a \notin firing'
      /\ \A b \in Alarms : b # a => (b \in firing' <=> b \in firing)
  BY <1>1, <1>2
<1>4. \A n \in sent : n \in Odd \/ (IsNotification(n) /\ n.at \in 1..clock')
  <2> SUFFICES ASSUME NEW n \in sent, n \notin Odd
               PROVE  IsNotification(n) /\ n.at \in 1..clock'
    OBVIOUS
  <2>1. IsNotification(n)
    BY DEF EventsInv, SentInv
  <2>2. n.at \in 1..clock'
    BY <1>0, <2>1 DEF IsNotification
  <2>3. QED
    BY <2>1, <2>2
<1>5. IsNotification(m)' /\ m \notin Odd
  <2>1. IsNotification(m)'
    BY <1>0, <1>1 DEF IsNotification
  <2>2. QED
    BY <1>1, <2>1, OddIsNoAlarm
<1>6. SentInv'
  BY <1>0, <1>1, <1>2, <1>3, <1>4, <1>5 DEF EventsInv, SentInv, IsNotification
<1>7. LastIsTrue'
  <2> SUFFICES ASSUME NEW b \in Alarms, About(b)' # {}
               PROVE  \E n \in About(b)' :
                          /\ \A o \in About(b)' : o.at <= n.at
                          /\ n.status = "ok" <=> b \notin firing'
    BY DEF LastIsTrue
  <2>1. CASE b = a /\ told = {m}
    <3>1. m \in About(b)'
      BY <1>1, <1>3, <2>1 DEF About
    <3>2. \A o \in About(b)' : o = m \/ o.at \in 1..clock
      BY <1>1, <1>4, <2>1, OddIsNoAlarm DEF About, IsNotification
    <3>3. \A o \in About(b)' : o.at <= m.at
      BY <1>0, <1>1, <3>2
    <3>4. QED
      BY <1>3, <2>1, <3>1, <3>3
  <2>2. CASE b = a /\ told = {}
    BY <1>1, <1>2, <1>3, <2>2 DEF EventsInv, SentInv, About
  <2>3. CASE b # a
    <3>1. About(b)' = About(b)
      BY <1>1, <1>3, <2>3 DEF About
    <3>2. QED
      BY <1>3, <2>3, <3>1 DEF EventsInv, LastIsTrue
  <2>4. QED
    BY <1>3, <2>1, <2>2, <2>3
<1>8. RowsInv'
  BY <1>1, <1>2, <1>3, <1>5, SameRows DEF EventsInv, RowsInv, AcknowledgedIsRecorded
<1>9. QED
  BY <1>6, <1>7, <1>8 DEF EventsInv

\* A message that is about no alarm.
LEMMA OddKeepsInv ==
    ASSUME EventsInv, NEW m \in Odd, PublishOdd(m)
    PROVE  EventsInv'
<1>1. /\ subscription = "confirmed"
      /\ sent' = sent \cup {m} /\ pending' = pending \cup {m}
      /\ UNCHANGED <<shape, firing, clock, subscription, dropped, events>>
  BY DEF PublishOdd
<1>2. SentInv'
  BY <1>1 DEF EventsInv, SentInv, IsNotification
<1>3. \A a \in Alarms : About(a)' = About(a)
  BY <1>1, OddIsNoAlarm DEF About
<1>4. LastIsTrue'
  BY <1>1, <1>3 DEF EventsInv, LastIsTrue
<1>5. RowsInv'
  BY <1>1, SameRows DEF EventsInv, RowsInv, AcknowledgedIsRecorded
<1>6. QED
  BY <1>2, <1>4, <1>5 DEF EventsInv

\* A delivery that is accepted leaves its row, whatever SMN hears of it.
LEMMA AcceptKeepsInv ==
    ASSUME EventsInv, NEW m \in pending, Accept(m)
    PROVE  EventsInv'
<1>1. /\ \/ RowsOfMessage(m) = {} /\ events' = events
         \/ \E e \in RowsOfMessage(m) : events' = events \cup {e}
      /\ pending' \subseteq pending /\ pending \ {m} \subseteq pending'
      /\ UNCHANGED <<shape, firing, clock, subscription, sent, dropped>>
  BY DEF Accept
<1>2. SentInv' /\ LastIsTrue'
  BY <1>1 DEF EventsInv, SentInv, IsNotification, LastIsTrue, About
<1>3. m \in sent
  BY DEF EventsInv, SentInv
<1>4. \A n : RowsOfMessage(n)' = RowsOfMessage(n)
  BY <1>1, SameShape
<1>5. \A e \in events' : \E n \in sent : e \in RowsOfMessage(n)
  BY <1>1, <1>3 DEF EventsInv, RowsInv
<1>6. Recorded(m)' /\ \A n : Recorded(n) => Recorded(n)'
  BY <1>1, <1>4 DEF Recorded
<1>7. \A n \in sent \ (pending' \cup dropped) : Recorded(n)'
  BY <1>1, <1>6 DEF EventsInv, RowsInv, AcknowledgedIsRecorded
<1>8. RowsInv'
  BY <1>1, <1>4, <1>5, <1>7 DEF RowsInv, AcknowledgedIsRecorded
<1>9. QED
  BY <1>2, <1>8 DEF EventsInv

LEMMA NextEventsInv == EventsInv /\ [AlarmNext]_alarmVars => EventsInv'
<1> SUFFICES ASSUME EventsInv, [AlarmNext]_alarmVars PROVE EventsInv'
  OBVIOUS
<1>1. CASE \E m \in pending : GiveUp(m)
  <2>1. /\ pending' \cup dropped' = pending \cup dropped
        /\ UNCHANGED <<shape, firing, clock, subscription, sent, events>>
    BY <1>1 DEF GiveUp
  <2>2. QED
    BY <2>1, SameRows DEF EventsInv, SentInv, IsNotification, LastIsTrue, About, RowsInv,
                          AcknowledgedIsRecorded
<1>2. CASE SwitchSecret \/ Confirm \/ Resubscribe
  <2>1. /\ UNCHANGED <<shape, firing, clock, sent, pending, dropped, events>>
        /\ subscription' \in {"pending", "confirmed", "acknowledged"}
        /\ subscription' # "confirmed" => subscription # "confirmed"
    BY <1>2 DEF SwitchSecret, Confirm, Resubscribe, EventsInv, SentInv
  <2>2. QED
    BY <2>1, SameRows DEF EventsInv, SentInv, IsNotification, LastIsTrue, About, RowsInv,
                          AcknowledgedIsRecorded
<1>3. CASE UNCHANGED alarmVars
  BY <1>3, SameRows DEF EventsInv, SentInv, IsNotification, LastIsTrue, About, RowsInv,
                        AcknowledgedIsRecorded, alarmVars, smnVars
<1>4. QED
  BY <1>1, <1>2, <1>3, ChangeKeepsInv, OddKeepsInv, AcceptKeepsInv DEF AlarmNext, Fail

LEMMA AlwaysEventsInv == AlarmSpec => []EventsInv
BY InitEventsInv, NextEventsInv, PTL DEF AlarmSpec

\* Alarms, deliveries and rows keep to their types.
THEOREM AlarmTypeCorrect == AlarmSpec => []AlarmTypeOK
<1>1. EventsInv => AlarmTypeOK
  <2> SUFFICES ASSUME EventsInv PROVE AlarmTypeOK
    OBVIOUS
  <2>1. ASSUME NEW e \in events PROVE e.severity \in 1..5
    <3>1. PICK m \in sent : e \in RowsOfMessage(m)
      BY DEF EventsInv, RowsInv
    <3>2. CASE e = Unrecognized(m)
      BY <3>2 DEF Unrecognized
    <3>3. CASE IsNotification(m) /\ e \in EmEvents(m)
      BY <3>3, RowOfNotification DEF IsNotification
    <3>4. QED
      BY <3>1, <3>2, <3>3, RowsAreOf
  <2>2. QED
    BY <2>1 DEF EventsInv, SentInv, AlarmTypeOK
<1>2. QED
  BY <1>1, AlwaysEventsInv, PTL

\* Nothing is acknowledged and lost: what SMN was told to forget by a 2xx
\* answer is in em_event.
THEOREM NothingIsLost == AlarmSpec => []AcknowledgedIsRecorded
<1>1. EventsInv => AcknowledgedIsRecorded
  BY DEF EventsInv, RowsInv
<1>2. QED
  BY <1>1, AlwaysEventsInv, PTL

\* The webhook's inline copy of the mapping makes what the tested mapping
\* makes, and a time it sets is the instant the notification tells.
THEOREM MirrorIsFaithful == AlarmSpec => []MirrorAgrees
<1>1. ASSUME EventsInv, NEW e \in events, e.alarm \in Alarms
      PROVE  LET raw == Raw(e.info)
                 fields == BuildEventFields(raw)
             IN  /\ e.severity = fields.severity
                 /\ e.resource = fields.resource /\ e.node = fields.node /\ e.type = fields.type
                 /\ e.time # Absent => raw.time # Absent /\ e.time = fields.time.at
  <2>1. PICK m \in sent : e \in RowsOfMessage(m)
    BY <1>1 DEF EventsInv, RowsInv
  <2>2. Absent \notin Alarms
    BY AbsentAssumption, AlarmsAssumption
  <2>3. e.info = m /\ e \in EmEvents(m)
    BY <1>1, <2>1, <2>2, RowsAreOf DEF Unrecognized
  <2>4. PICK time \in WebhookTimes(Raw(m)) :
          LET fields == WebhookEvent(Raw(m), time)
          IN  e = [alarm |-> m.alarm, severity |-> fields.severity, resource |-> fields.resource,
                   node |-> fields.node, type |-> fields.type, time |-> fields.time, info |-> m]
    BY <2>3 DEF EmEvents
  <2>5. time # Absent => Raw(m).time # Absent /\ time = Raw(m).time.at
    BY TimesOfRaw
  <2>6. QED
    BY <2>3, <2>4, <2>5, MappingsAgree
<1>2. EventsInv => MirrorAgrees
  BY <1>1 DEF MirrorAgrees
<1>3. QED
  BY <1>2, AlwaysEventsInv, PTL

\* Once everything about an alarm has been delivered, in whatever order and
\* however often, there is a row of its latest change, which tells whether it
\* fires, no row has a later time, and it has its own unless the webhook
\* could make nothing of it.
THEOREM LatestRowTellsTheState == AlarmSpec => []EventsTellTheState
<1>1. ASSUME EventsInv, NEW a \in Alarms,
             {m \in Notifications : m.alarm = a} # {},
             {m \in Notifications : m.alarm = a} \cap (pending \cup dropped) = {}
      PROVE  \E e \in {x \in events : x.alarm = a} :
                /\ (e.severity = 5) <=> (a \notin firing)
                /\ \A f \in {x \in events : x.alarm = a} : f.time # Absent => f.time <= e.info.at
                /\ e.time = Absent =>
                      /\ shape[a].form # "iso"
                      /\ \A f \in {x \in events : x.alarm = a} : f.info = e.info => f.time = Absent
  <2>1. About(a) = {m \in Notifications : m.alarm = a}
    BY OddIsNoAlarm DEF About, Notifications
  <2>2. PICK m \in About(a) : /\ \A n \in About(a) : n.at <= m.at
                              /\ m.status = "ok" <=> a \notin firing
    BY <1>1, <2>1 DEF EventsInv, LastIsTrue
  <2>3. m \in sent \ (pending \cup dropped) /\ IsNotification(m) /\ m.alarm = a
    BY <1>1, <2>1, OddIsNoAlarm DEF About, EventsInv, SentInv
  <2>4. RowsOfMessage(m) = EmEvents(m) /\ m.at \in Nat
    <3>1. clock \in Nat
      BY <1>1, AlarmsAssumption DEF EventsInv, SentInv
    <3>2. m.at \in Nat /\ m.status \in {"alarm", "ok"}
      BY <2>3, <3>1 DEF IsNotification
    <3>3. QED
      BY <3>2 DEF RowsOfMessage
  <2>5. EmEvents(m) # {}
    <3>1. WebhookTimes(Raw(m)) # {}
      BY DEF WebhookTimes
    <3>2. QED
      BY <3>1 DEF EmEvents
  <2>6. EmEvents(m) \cap events # {}
    BY <1>1, <2>3, <2>4, <2>5 DEF EventsInv, RowsInv, AcknowledgedIsRecorded, Recorded
  <2>7. PICK e \in EmEvents(m) \cap events :
            e.time = Absent => \A f \in EmEvents(m) \cap events : f.time = Absent
    BY <2>6
  <2>8. /\ e.alarm = a /\ e.info = m /\ (e.severity = 5 <=> a \notin firing)
        /\ e.time = Absent => shape[a].form # "iso"
    BY <2>2, <2>3, <2>4, RowOfNotification DEF IsNotification
  <2>9. ASSUME NEW f \in events, f.alarm = a
        PROVE  /\ f.time # Absent => f.time <= m.at
               /\ f.info = m => f \in EmEvents(m)
    <3>1. PICK n \in sent : f \in RowsOfMessage(n)
      BY <1>1 DEF EventsInv, RowsInv
    <3>2. Absent \notin Alarms
      BY AbsentAssumption, AlarmsAssumption
    <3>3. f.info = n /\ IsNotification(n) /\ f \in EmEvents(n)
      BY <1>1, <2>9, <3>1, <3>2, RowsAreOf DEF Unrecognized
    <3>4. f.alarm = n.alarm /\ (f.time # Absent => f.time = n.at)
      BY <3>3, RowOfNotification DEF IsNotification
    <3>5. n \in About(a)
      BY <2>9, <3>4 DEF About
    <3>6. QED
      BY <2>2, <3>3, <3>4, <3>5
  <2>10. QED
    BY <2>7, <2>8, <2>9
<1>2. EventsInv => EventsTellTheState
  BY <1>1 DEF EventsTellTheState
<1>3. QED
  BY <1>2, AlwaysEventsInv, PTL

\* The composite id tells an alarm's notifications apart if they tell their
\* time; no field of the envelope is missing if the alarm has a metric.
LEMMA EnvelopeOfNotification ==
    ASSUME EventsInv, NEW m, IsNotification(m)
    PROVE  /\ Envelope(m).event_id = <<m.alarm, m.status, Raw(m).time>>
           /\ Envelope(m).event_id # Absent
           /\ ValidateEnvelope(Envelope(m)) <=> Raw(m).metric_name # Absent
<1>1. m.alarm \in Ids /\ m.status \in {"alarm", "ok"} /\ m.at \in Nat
  BY AlarmsAssumption DEF IsNotification
<1>2. Raw(m).time \in Times \cup {Absent}
  <2>1. shape[m.alarm] \in Shapes
    BY DEF EventsInv, SentInv, IsNotification
  <2>2. shape[m.alarm].form \in {"millis", "iso", "text", "none"}
    BY <2>1, AlarmsAssumption
  <2>3. QED
    BY <1>1, <2>2 DEF Raw, TimeOf, Times
<1>3. <<m.alarm, m.status, Raw(m).time>> \in Ids \X {"alarm", "ok"} \X (Times \cup {Absent})
  BY <1>1, <1>2
<1>4. <<m.alarm, m.status, Raw(m).time>> # Absent /\ Absent # "cloud_eye"
  BY <1>3, AbsentAssumption
<1>5. /\ Envelope(m).event_id = <<m.alarm, m.status, Raw(m).time>>
      /\ Envelope(m).source = "cloud_eye"
      /\ Envelope(m).event_type = Raw(m).metric_name
  BY <1>4 DEF Envelope, FromLegacySmnAlarm, NormalizeEnvelope, Or, BuildCompositeEventId,
              BuildEventFields, Raw
<1>6. QED
  BY <1>4, <1>5 DEF ValidateEnvelope, SOURCE_TYPES

\* Exactly the notifications that were ingested before are duplicates to a
\* gateway if they tell their time, and the envelope of an alarm with a
\* metric is valid.
THEOREM OnlyRedeliveriesAreDuplicates == AlarmSpec => []DuplicatesAreRedeliveries
<1>1. ASSUME EventsInv, NEW m \in Notifications
      PROVE  IsNotification(m)
  BY <1>1 DEF EventsInv, SentInv, Notifications
<1>2. ASSUME EventsInv, NEW m \in Notifications, NEW n \in Notifications,
             Raw(m).time # Absent, Envelope(m).event_id = Envelope(n).event_id
      PROVE  m = n
  <2>1. m.alarm = n.alarm /\ m.status = n.status /\ Raw(m).time = Raw(n).time
    BY <1>1, <1>2, EnvelopeOfNotification
  <2>2. /\ Raw(m).time = TimeOf(shape[m.alarm], m.at)
        /\ Raw(n).time = TimeOf(shape[m.alarm], n.at)
    BY <2>1 DEF Raw
  <2>3. m.at = n.at
    <3>1. shape[m.alarm].form # "none"
      BY <1>2, <2>2 DEF TimeOf
    <3>2. [form |-> shape[m.alarm].form, at |-> m.at].at =
          [form |-> shape[m.alarm].form, at |-> n.at].at
      BY <2>1, <2>2, <3>1 DEF TimeOf
    <3>3. QED
      BY <3>2
  <2>4. QED
    BY <1>1, <1>2, <2>1, <2>3 DEF IsNotification
<1>3. ASSUME EventsInv, NEW m \in Notifications
      PROVE  LET ingested == Notifications \ pending
             IN  /\ Raw(m).time # Absent =>
                       (IsDuplicateEventId(Envelope(m).event_id, {Envelope(n).event_id : n \in ingested})
                           <=> m \in ingested)
                 /\ ValidateEnvelope(Envelope(m)) <=> Raw(m).metric_name # Absent
  <2>1. /\ Envelope(m).event_id # Absent
        /\ ValidateEnvelope(Envelope(m)) <=> Raw(m).metric_name # Absent
    BY <1>1, <1>3, EnvelopeOfNotification
  <2>2. Raw(m).time # Absent =>
          \A n \in Notifications : Envelope(m).event_id = Envelope(n).event_id => m = n
    BY <1>2, <1>3
  <2>3. QED
    BY <2>1, <2>2 DEF IsDuplicateEventId
<1>4. EventsInv => DuplicatesAreRedeliveries
  BY <1>3 DEF DuplicatesAreRedeliveries
<1>5. QED
  BY <1>4, AlwaysEventsInv, PTL

=============================================================================
