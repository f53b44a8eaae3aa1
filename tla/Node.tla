-------------------------------- MODULE Node --------------------------------
(***************************************************************************)
(* The demo application, main.c: the services are initialized, then        *)
(* started when the node has joined the network and stopped when it has    *)
(* left it.  The main loop alternates EMBENET_NODE_Proc, which calls       *)
(* whatever callbacks are pending, and mqttsn_client_service_proc; nothing *)
(* preempts a callback with another.  The root has the ENMS service only.  *)
(***************************************************************************)
EXTENDS Stack, CustomService, EnmsService, MqttsnService

CONSTANT Builds  \* the values of IS_ROOT that are considered

ASSUME BuildAssumption == Builds \subseteq BOOLEAN

VARIABLE root    \* IS_ROOT of the build

initialized == <<customServiceTaskId, enmsTaskId, services>>
network == <<root, stack, joins, reachable>>
vars == <<due, led, initialized, mqttsn, network>>

\* The services that only a node has, in the build of a root.
NoServices ==
    /\ customServiceTaskId = EMBENET_TASKID_INVALID /\ "custom" \notin sockets
    /\ MqttsnInit /\ client = "none"

\* main, up to its loop.
Init ==
    /\ due = [id \in Task |-> Unscheduled] /\ led = {}
    /\ root \in Builds
    /\ sockets \in SUBSET (Socket \ {"mqttsn"})
    /\ EnmsInit /\ CustomInit /\ MqttsnInit
    /\ root => NoServices
    /\ services = IF root THEN {}
                  ELSE ENMS_NODE_RegisterService(ENMS_NODE_RegisterService({}, "custom"), "mqttsn")
    /\ \E s \in EMBENET_NODE_Init :
          stack \in IF root THEN EMBENET_NODE_RootStart(s) ELSE EMBENET_NODE_Join(s)
    /\ joins = 0 /\ reachable = FALSE

\* onJoined: as a rule the border router's address is known from then on.
OnJoined ==
    /\ Joined
    /\ reachable' \in BOOLEAN
    /\ LET d == EnmsStart(due)
       IN  IF root THEN due' = d /\ UNCHANGED mqttsn ELSE MqttsnStart(CustomStart(d))
    /\ UNCHANGED <<root, initialized, led>>

OnLeft ==
    /\ Left
    /\ reachable' = FALSE
    /\ LET d == EnmsStop(due)
       IN  IF root THEN due' = d /\ UNCHANGED mqttsn ELSE MqttsnStop(CustomStop(d))
    /\ UNCHANGED <<root, initialized, led>>

\* onJoinAttempt and dataOnUregisteredPort only report.
OnJoinAttempt == JoinAttempted /\ UNCHANGED vars

DataOnUnregisteredPort ==
    /\ joined /\ \E s \in Socket : Unclaimed(s)
    /\ UNCHANGED vars

\* The stack learns, or loses, the address of the border router.
BorderRouterFound ==
    /\ joined /\ ~reachable
    /\ reachable' = TRUE
    /\ UNCHANGED <<due, led, initialized, mqttsn, root, stack, joins>>

BorderRouterLost ==
    /\ reachable /\ Fails
    /\ reachable' = FALSE
    /\ UNCHANGED <<due, led, initialized, serviceState, mqttsnTaskId, session, sinceButton, missed>>
    /\ UNCHANGED <<root, stack, joins>>

RunCustomTask ==
    /\ ProcRuns /\ TaskDue("custom")
    /\ CustomTask
    /\ UNCHANGED <<initialized, mqttsn, network>>

RunEnmsTask ==
    /\ ProcRuns /\ TaskDue("enms")
    /\ EnmsTask
    /\ UNCHANGED <<led, initialized, mqttsn, network>>

\* A datagram for the custom service.
Datagram ==
    /\ joined /\ ~Unclaimed("custom")
    /\ \E command \in Command : CustomReceive(command)
    /\ UNCHANGED <<initialized, mqttsn, network>>

\* Messages on the control topic: the commands, what they begin with, and
\* something else.
LedMessage == {"led1on", "led1o", "led1of", "led1off", "other"}

MqttsnCallback ==
    /\ \/ OnMQTTConnected \/ OnMQTTDisconnected \/ OnMQTTTopicRegistered
       \/ \E message \in LedMessage : OnLedcontrolUpdate(message)
    /\ UNCHANGED <<initialized, network>>

RunMqttsnTask == ProcRuns /\ MqttsnServiceTask /\ UNCHANGED <<initialized, network>>

\* A pass of the main loop in which the stack has nothing to do.
Proc ==
    /\ ~root
    /\ \E pressed, still \in BOOLEAN : MqttsnServiceProc(pressed, still)
    /\ UNCHANGED <<initialized, network>>

Tick ==
    /\ TimePasses /\ ButtonAges
    /\ UNCHANGED <<led, initialized, serviceState, mqttsnTaskId, session, failures, missed, network>>

Next ==
    \/ OnJoined \/ OnLeft \/ OnJoinAttempt \/ DataOnUnregisteredPort
    \/ BorderRouterFound \/ BorderRouterLost
    \/ RunCustomTask \/ RunEnmsTask \/ Datagram
    \/ MqttsnCallback \/ RunMqttsnTask \/ Proc \/ Tick

Spec == Init /\ [][Next]_vars

\* The clock and the main loop go on, the border router is found, the gateway
\* answers, and the client does not wait for ever for an answer.
Fairness ==
    /\ WF_vars(Tick)
    /\ WF_vars(RunMqttsnTask) /\ WF_vars(RunCustomTask) /\ WF_vars(RunEnmsTask)
    /\ WF_vars(BorderRouterFound)
    /\ WF_vars(ResponseTimeout /\ OnMQTTDisconnected /\ UNCHANGED <<initialized, network>>)
    /\ WF_vars(OnMQTTConnected /\ UNCHANGED <<initialized, network>>)
    /\ WF_vars(OnMQTTTopicRegistered /\ UNCHANGED <<initialized, network>>)

FairSpec == Spec /\ Fairness

----------------------------------------------------------------------------
(* Properties.                                                             *)

\* Every variable has its type.
TypeOK ==
    /\ due \in [Task -> Int \cup {Unscheduled}]
    /\ led \subseteq Led /\ sockets \subseteq Socket
    /\ enmsTaskId \in {"enms", EMBENET_TASKID_INVALID} /\ services \subseteq {"custom", "mqttsn"}
    /\ customServiceTaskId \in {"custom", EMBENET_TASKID_INVALID}
    /\ serviceState \in ServiceState
    /\ mqttsnTaskId \in {"mqttsn", EMBENET_TASKID_INVALID}
    /\ client \in ClientState
    /\ registering \in Topic \cup {NoTopic} /\ topics \subseteq Topic
    /\ sinceButton \in 0 .. ButtonGap + 1 /\ failures \in 0 .. MaxFailures
    /\ gateway \in {"none", "borderRouter", "other"}
    /\ root \in BOOLEAN /\ reachable \in BOOLEAN
    /\ missed \in {"past", "unsent", "nothing"}
    /\ stack \in StackState /\ joins \in 0 .. MaxJoins

\* main.c:79-95: a node that has left the network is silent: no task of a
\* service is scheduled, no session with the gateway is open and its socket is
\* closed.
QuietWhenLeft ==
    ~joined => /\ \A id \in Task : due[id] = Unscheduled
               /\ client \in {"none", "DISCONNECTED"} /\ "mqttsn" \notin sockets
               /\ registering = NoTopic /\ topics = {}

\* custom_service.c:109-122, main.c:59-61, 70: a service whose initialization
\* failed is started all the same, but no task of it is then scheduled: a
\* scheduled task has the registered socket that it sends from.
TaskHasSocket ==
    \A id \in {"custom", "enms"} : due[id] # Unscheduled => UdpSendAccepted(id)

\* mqttsn_client_service.c:178-186, 248-260: while the service of a joined
\* node is running, the client takes what it publishes: both topics are
\* registered in the present session and the socket is open, whatever sessions
\* were lost and however often the service was restarted.
RunningIsRegistered ==
    joined /\ serviceState = "RUNNING" => PublishAccepted("uptime") /\ PublishAccepted("button")

\* The MQTT-SN service has nothing left that could make it go on.
Stranded == due["mqttsn"] = Unscheduled /\ registering = NoTopic

\* mqttsn_client_service.c:72, 116, 164, 168, 224, custom_service.c:49: a service
\* of a joined node has its task scheduled, or waits for a topic to be registered,
\* with one exception: the MQTT-SN service is stranded if the time it has just
\* read was past when it was to be scheduled, or if its REGISTER was not sent,
\* until the session ends or the node leaves.  Neither the retries, nor stale
\* schedules, nor lost sessions, nor tasks that run late lose one.
NeverStranded ==
    joined => /\ customServiceTaskId = "custom" => due["custom"] # Unscheduled
              /\ enmsTaskId = "enms" => due["enms"] # Unscheduled
              /\ mqttsnTaskId = "mqttsn" /\ Stranded => missed # "nothing"

\* mqttsn_client_service.c:70, 80, 115: whatever else fails, if failures end then
\* the service of a node that stays joined is running at last, or is stranded by
\* a schedule that was refused or a REGISTER that was not sent.
ServiceRuns ==
    joined /\ mqttsnTaskId = "mqttsn"
        ~> ~joined \/ serviceState = "RUNNING" \/ (Stranded /\ missed # "nothing")

=============================================================================
