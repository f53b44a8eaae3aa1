--------------------------- MODULE MqttsnService ---------------------------
(***************************************************************************)
(* The MQTT-SN service, mqttsn_client_service.c.  The service task, the    *)
(* client's callbacks and mqttsn_client_service_proc all run to completion *)
(* in the main loop, in any order.                                         *)
(***************************************************************************)
EXTENDS MqttsnClient

CONSTANTS
    ReconnectDelay,     \* 5000 ms
    RetryDelay,         \* 10000 ms
    FirstPublishDelay,  \* 1000 ms
    PublishPeriod,      \* 10000 ms
    ButtonGap           \* 1000 ms

ASSUME DelayAssumption ==
    /\ {ReconnectDelay, RetryDelay, FirstPublishDelay, PublishPeriod, ButtonGap} \subseteq Nat
    /\ RetryDelay > MaxLate /\ PublishPeriod > MaxLate

VARIABLES
    serviceState,
    mqttsnTaskId,
    sinceButton,    \* time since lastTimestamp, capped above ButtonGap
    missed          \* history: what went wrong in the latest call by which the
                    \* service goes on: the time it had just read was "past", its
                    \* REGISTER was "unsent", or "nothing"

mqttsn == <<serviceState, mqttsnTaskId, session, sinceButton, failures, missed>>

ServiceState == {"CONNECTING", "REGISTER_UPTIME_TOPIC", "REGISTER_BUTTON_STATE_TOPIC",
                 "SUBSCRIBE_TO_TOPIC", "RUNNING"}

----------------------------------------------------------------------------
\* The statics, and mqttsn_client_service_init: initializing the client or
\* creating the task may fail, which is only reported.
MqttsnInit ==
    /\ serviceState = "CONNECTING" /\ sinceButton = 0
    /\ \/ client = "DISCONNECTED" /\ mqttsnTaskId = "mqttsn"
       \/ client = "none" /\ mqttsnTaskId = EMBENET_TASKID_INVALID
    /\ registering = NoTopic /\ topics = {} /\ gateway = "none" /\ failures = 0
    /\ missed = "nothing"

\* EMBENET_NODE_TaskSchedule(..., EMBENET_NODE_GetLocalTime()), on the schedule d.
ScheduleNow(d) ==
    \E now \in LocalTime :
        /\ due' = TaskSchedule(d, mqttsnTaskId, now)
        /\ missed' = IF now < 0 THEN "past" ELSE "nothing"

\* The same at a time to come.
ScheduleAt(d, time) ==
    /\ due' = TaskSchedule(d, mqttsnTaskId, time)
    /\ missed' = "nothing"

\* Fault: a service that is started anew goes on where it was stopped.
MqttsnStartResumes(d) ==
    /\ ScheduleNow(d)
    /\ UNCHANGED <<serviceState, mqttsnTaskId, session, sinceButton, failures>>

\* mqttsn_client_service_start, on the schedule d.
MqttsnStart(d) ==
    /\ serviceState' = "CONNECTING"
    /\ ScheduleNow(d)
    /\ UNCHANGED <<mqttsnTaskId, session, sinceButton, failures>>

\* Fault: the task is left scheduled.
MqttsnStopTaskLeft(d) ==
    /\ due' = d
    /\ Reinit
    /\ UNCHANGED <<serviceState, mqttsnTaskId, sinceButton, failures, missed>>

\* mqttsn_client_service_stop, on the schedule d.
MqttsnStop(d) ==
    /\ due' = TaskCancel(d, mqttsnTaskId)
    /\ Reinit
    /\ UNCHANGED <<serviceState, mqttsnTaskId, sinceButton, failures, missed>>

\* The gateway accepts: onMQTTConnected.
OnMQTTConnected ==
    /\ Accepted
    /\ serviceState' = "REGISTER_UPTIME_TOPIC"
    /\ ScheduleNow(due)
    /\ UNCHANGED <<mqttsnTaskId, registering, topics, gateway, sockets, sinceButton, failures, led>>

\* Fault: the schedule of the retry is taken for that of the service.
OnMQTTDisconnectedNoSchedule ==
    /\ Disconnected
    /\ Reinit
    /\ serviceState' = "CONNECTING"
    /\ due' = TaskCancel(due, mqttsnTaskId)
    /\ UNCHANGED <<mqttsnTaskId, sinceButton, missed, led>>

\* The gateway refuses or does not answer: onMQTTDisconnected.
OnMQTTDisconnected ==
    /\ Disconnected
    /\ Reinit
    /\ serviceState' = "CONNECTING"
    /\ ScheduleAt(TaskCancel(due, mqttsnTaskId), ReconnectDelay)
    /\ UNCHANGED <<mqttsnTaskId, sinceButton, led>>

\* The gateway acknowledges a registration: onMQTTTopicRegistered.
OnMQTTTopicRegistered ==
    /\ Acknowledged
    /\ serviceState' = IF serviceState = "REGISTER_UPTIME_TOPIC"
                       THEN "REGISTER_BUTTON_STATE_TOPIC" ELSE "SUBSCRIBE_TO_TOPIC"
    /\ ScheduleNow(due)
    /\ UNCHANGED <<client, gateway, sockets, mqttsnTaskId, sinceButton, failures, led>>

\* onLedcontrolUpdate compares as many characters as the message has: a
\* beginning of both commands, if only the empty one, switches the LED on.
OnLedcontrolUpdate(message) ==
    /\ Published("ledcontrol")
    /\ led' = IF message \in {"led1on", "led1o"} THEN led \cup {0}
              ELSE IF message \in {"led1off", "led1of"} THEN led \ {0} ELSE led
    /\ UNCHANGED <<mqttsn, due>>

\* Fault: nothing is scheduled while the gateway is to answer.
ServiceTaskConnectOnce(d, t) ==
    /\ serviceState = "CONNECTING"
    /\ \E address \in BorderRouterAddress : CleanConnect(address)
    /\ due' = d /\ missed' = "nothing"
    /\ UNCHANGED serviceState

\* mqttsnServiceTask, by the state of the service: t is the time at which it
\* was to run, d the schedule without it.
ServiceTaskConnect(d, t) ==
    /\ serviceState = "CONNECTING"
    /\ \E address \in BorderRouterAddress : CleanConnect(address)
    /\ ScheduleAt(d, t + RetryDelay)
    /\ UNCHANGED serviceState

ServiceTaskRegister(d) ==
    /\ \E sent \in BOOLEAN :
          /\ \/ serviceState = "REGISTER_UPTIME_TOPIC" /\ RegisterTopic("uptime", sent)
             \/ serviceState = "REGISTER_BUTTON_STATE_TOPIC" /\ RegisterTopic("button", sent)
          /\ missed' = IF sent THEN "nothing" ELSE "unsent"
    /\ due' = d
    /\ UNCHANGED serviceState

ServiceTaskSubscribe(d) ==
    /\ serviceState = "SUBSCRIBE_TO_TOPIC"
    /\ \E sent \in BOOLEAN : Subscribe("ledcontrol", sent)
    /\ serviceState' = "RUNNING"
    /\ ScheduleAt(d, FirstPublishDelay)

ServiceTaskPublish(d, t) ==
    /\ serviceState = "RUNNING"
    /\ ScheduleAt(d, t + PublishPeriod)
    /\ UNCHANGED <<serviceState, session, failures>>

MqttsnServiceTask ==
    /\ TaskDue("mqttsn")
    /\ LET d == TaskCancel(due, "mqttsn")
           t == due["mqttsn"]
       IN  \/ ServiceTaskConnect(d, t) \/ ServiceTaskRegister(d)
           \/ ServiceTaskSubscribe(d) \/ ServiceTaskPublish(d, t)
    /\ UNCHANGED <<mqttsnTaskId, sinceButton, led>>

\* mqttsn_client_service_proc publishes a press of the button.
ButtonPublishes(pressed) == serviceState = "RUNNING" /\ pressed /\ sinceButton > ButtonGap

\* mqttsn_client_service_proc, which reads the button twice: it may be released,
\* or pressed, in between.
MqttsnServiceProc(pressed, still) ==
    /\ sinceButton' = IF ButtonPublishes(pressed) THEN 0 ELSE sinceButton
    /\ led' = IF ~still THEN led \ {1}
              ELSE IF ButtonPublishes(pressed) THEN led \cup {1} ELSE led
    /\ UNCHANGED <<serviceState, mqttsnTaskId, session, failures, missed, due>>

\* Time passes for lastTimestamp, which only matters up to ButtonGap.
ButtonAges ==
    sinceButton' = IF sinceButton > ButtonGap THEN sinceButton ELSE sinceButton + 1

=============================================================================
