----------------------------- MODULE NodeProofs -----------------------------
(***************************************************************************)
(* Proofs about the application of a node (Node.tla), for all delays and   *)
(* bounds, and any number of joins and failures.                           *)
(***************************************************************************)
EXTENDS Node, TLAPS

\* A scheduled task exists.
Tasks ==
    /\ due["mqttsn"] # Unscheduled => mqttsnTaskId = "mqttsn"
    /\ due["custom"] # Unscheduled => customServiceTaskId = "custom"
    /\ due["enms"] # Unscheduled => enmsTaskId = "enms"

\* Only a connected client registers, and has registered, topics, and the
\* client has its socket from connecting to its end.
Session ==
    /\ client # "CONNECTED" => registering = NoTopic /\ topics = {}
    /\ "mqttsn" \in sockets <=> client \in {"CONNECTING", "CONNECTED"}

\* The build of a root never initializes the services of a node.
Root ==
    root => /\ customServiceTaskId = EMBENET_TASKID_INVALID
            /\ mqttsnTaskId = EMBENET_TASKID_INVALID
            /\ serviceState = "CONNECTING" /\ client = "none"

\* What the client has done by the time the service is in each of its states.
Stage ==
    joined =>
       /\ serviceState = "CONNECTING" => client # "CONNECTED"
       /\ serviceState # "CONNECTING" => client = "CONNECTED"
       /\ serviceState = "REGISTER_UPTIME_TOPIC" => registering \in {NoTopic, "uptime"}
       /\ serviceState = "REGISTER_BUTTON_STATE_TOPIC" =>
             registering \in {NoTopic, "button"} /\ "uptime" \in topics
       /\ serviceState \in {"SUBSCRIBE_TO_TOPIC", "RUNNING"} =>
             registering = NoTopic /\ {"uptime", "button"} \subseteq topics

\* A service that has a task has its socket.
Sockets ==
    /\ customServiceTaskId = "custom" => "custom" \in sockets
    /\ enmsTaskId = "enms" => "enms" \in sockets

\* The inductive invariant: the stage of the service decides which topics are
\* registered, and the node's silence lets a restart begin from no session.
IInv == TypeOK /\ QuietWhenLeft /\ Tasks /\ Session /\ Root /\ Stage /\ Sockets

USE DEF Task, Socket, ClientState, EMBENET_TASKID_INVALID, Topic, NoTopic, ServiceState,
        StackState, joined

----------------------------------------------------------------------------
\* A schedule stays a schedule (embenet_node.h:281-304).
LEMMA ScheduleType ==
    ASSUME NEW d \in [Task -> Int \cup {Unscheduled}], NEW id, NEW t \in Int
    PROVE  TaskSchedule(d, id, t) \in [Task -> Int \cup {Unscheduled}]
  BY DEF TaskSchedule

\* So does a cancelled one.
LEMMA CancelType ==
    ASSUME NEW d \in [Task -> Int \cup {Unscheduled}], NEW id
    PROVE  TaskCancel(d, id) \in [Task -> Int \cup {Unscheduled}]
  BY DEF TaskCancel

\* The statics and the services' initialization establish the invariant.
LEMMA InitIInv == Init => IInv
  <1> SUFFICES ASSUME Init PROVE IInv
    OBVIOUS
  <1>1. TypeOK
    <2>1. due \in [Task -> Int \cup {Unscheduled}]
      BY DEF Init
    <2>2. ButtonGap \in Nat /\ MaxFailures \in Nat /\ MaxJoins \in Nat
      BY DelayAssumption, FailureAssumption, StackAssumption
    <2>3. sinceButton \in 0 .. ButtonGap + 1 /\ failures \in 0 .. MaxFailures /\ joins \in 0 .. MaxJoins
      BY <2>2 DEF Init, MqttsnInit
    <2>4. /\ led \subseteq Led /\ sockets \subseteq Socket /\ root \in BOOLEAN
          /\ enmsTaskId \in {"enms", EMBENET_TASKID_INVALID} /\ customServiceTaskId \in {"custom", EMBENET_TASKID_INVALID}
          /\ serviceState \in ServiceState /\ mqttsnTaskId \in {"mqttsn", EMBENET_TASKID_INVALID}
          /\ client \in {"none", "DISCONNECTED"} /\ registering = NoTopic /\ topics = {}
          /\ gateway = "none" /\ reachable = FALSE /\ missed = "nothing"
          /\ stack \in {"uninitialized", "initialized", "joining"}
      BY BuildAssumption DEF Init, EnmsInit, CustomInit, MqttsnInit, EMBENET_NODE_Init, EMBENET_NODE_Join,
         EMBENET_NODE_RootStart
    <2>5. services \subseteq {"custom", "mqttsn"}
      BY DEF Init, ENMS_NODE_RegisterService
    <2> QED
      BY <2>1, <2>3, <2>4, <2>5 DEF TypeOK
  <1>2. QuietWhenLeft
    BY DEF Init, QuietWhenLeft, MqttsnInit
  <1>3. stack # "joined"
    BY DEF Init, EMBENET_NODE_Init, EMBENET_NODE_Join, EMBENET_NODE_RootStart
  <1>4. Tasks /\ Session /\ Root /\ Stage /\ Sockets
    BY <1>3 DEF Init, Tasks, Session, Root, Stage, Sockets, EnmsInit, CustomInit, MqttsnInit, NoServices
  <1> QED
    BY <1>1, <1>2, <1>4 DEF IInv

\* main.c:57-74: joining finds no session and starts the service anew.
LEMMA JoinKeepsIInv == IInv /\ OnJoined => IInv'
  <1> SUFFICES ASSUME IInv, OnJoined PROVE IInv'
    OBVIOUS
  <1> USE TimeAssumption, CustomAssumption, EnmsAssumption
  <1> DEFINE e == EnmsStart(due)
             d == CustomStart(e)
  <1>1. /\ e \in [Task -> Int \cup {Unscheduled}]
        /\ e["enms"] # Unscheduled => enmsTaskId = "enms"
        /\ e["custom"] = due["custom"] /\ e["mqttsn"] = due["mqttsn"]
    BY DEF IInv, TypeOK, Tasks, EnmsStart, TaskSchedule
  <1>2. /\ d \in [Task -> Int \cup {Unscheduled}]
        /\ d["enms"] # Unscheduled => enmsTaskId = "enms"
        /\ d["custom"] # Unscheduled => customServiceTaskId = "custom"
        /\ d["mqttsn"] = due["mqttsn"]
    <2> HIDE DEF e
    <2> QED
      BY <1>1 DEF IInv, TypeOK, Tasks, CustomStart, TaskSchedule
  <1>3. CASE root
    <2>1. due' = e /\ UNCHANGED <<mqttsn, root, initialized, led>>
      BY <1>3 DEF OnJoined
    <2> HIDE DEF e
    <2> QED
      BY <1>1, <1>3, <2>1, StackAssumption DEF IInv, TypeOK, QuietWhenLeft, Tasks, Session,
         Root, Stage, Sockets, OnJoined, Joined, mqttsn, session, initialized
  <1>4. CASE ~root
    <2>1. MqttsnStart(d) /\ UNCHANGED <<root, initialized, led>>
      BY <1>4 DEF OnJoined
    <2> HIDE DEF d
    <2>2. PICK now \in LocalTime : due' = TaskSchedule(d, mqttsnTaskId, now)
      BY <2>1 DEF MqttsnStart, ScheduleNow
    <2>3. now \in Int
      BY DEF LocalTime
    <2>4. due' \in [Task -> Int \cup {Unscheduled}]
      BY <1>2, <2>2, <2>3, ScheduleType
    <2>5. TypeOK'
      BY <2>1, <2>4, StackAssumption DEF IInv, TypeOK, OnJoined, Joined, MqttsnStart, ScheduleNow, session, initialized
    <2>6. Tasks'
      BY <1>2, <2>1, <2>2, <2>3 DEF IInv, TypeOK, Tasks, MqttsnStart, TaskSchedule, initialized
    <2>7. QuietWhenLeft' /\ Session' /\ Root' /\ Stage' /\ Sockets'
      BY <1>4, <2>1 DEF IInv, TypeOK, QuietWhenLeft, Session, Root, Stage, Sockets, OnJoined, Joined,
         MqttsnStart, session, initialized
    <2> QED
      BY <2>5, <2>6, <2>7 DEF IInv
  <1> QED
    BY <1>3, <1>4

\* main.c:79-95: leaving cancels the tasks and ends the session.
LEMMA LeaveKeepsIInv == IInv /\ OnLeft => IInv'
  <1> SUFFICES ASSUME IInv, OnLeft PROVE IInv'
    OBVIOUS
  <1> USE TimeAssumption
  <1> DEFINE e == EnmsStop(due)
  <1>1. e \in [Task -> Int \cup {Unscheduled}] /\ e["enms"] = Unscheduled
    BY DEF IInv, TypeOK, Tasks, EnmsStop, TaskCancel
  <1>2. e["custom"] = due["custom"] /\ e["mqttsn"] = due["mqttsn"]
    BY DEF IInv, TypeOK, EnmsStop, TaskCancel
  <1>3. UNCHANGED <<root, initialized, led>>
    BY DEF OnLeft
  <1>4. CASE root
    <2>1. due' = e /\ UNCHANGED mqttsn
      BY <1>4 DEF OnLeft
    <2> HIDE DEF e
    <2>2. \A id \in Task : due'[id] = Unscheduled
      BY <1>1, <1>2, <1>4, <2>1 DEF IInv, Tasks, Root
    <2> QED
      BY <1>1, <1>3, <1>4, <2>1, <2>2 DEF IInv, TypeOK, QuietWhenLeft, Tasks, Session, Root, Stage, Sockets,
         OnLeft, Left, mqttsn, session, initialized
  <1>5. CASE ~root
    <2>1. MqttsnStop(CustomStop(e))
      BY <1>5 DEF OnLeft
    <2> HIDE DEF e
    <2>2. due' = TaskCancel(TaskCancel(e, customServiceTaskId), mqttsnTaskId)
      BY <2>1 DEF MqttsnStop, CustomStop
    <2>3. due' \in [Task -> Int \cup {Unscheduled}]
      BY <1>1, <2>2, CancelType
    <2>4. \A id \in Task : due'[id] = Unscheduled
      BY <1>1, <1>2, <2>2 DEF IInv, TypeOK, Tasks, TaskCancel
    <2>5. /\ client' \in {"none", "DISCONNECTED"} /\ registering' = NoTopic /\ topics' = {}
          /\ gateway' = "none" /\ sockets' = sockets \ {"mqttsn"} /\ sockets' \subseteq Socket
          /\ UNCHANGED <<serviceState, mqttsnTaskId, sinceButton, failures, missed>>
      BY <2>1 DEF IInv, TypeOK, MqttsnStop, Reinit, UnregisterSocket
    <2>6. stack' \in {"joining", "initialized"} /\ reachable' = FALSE /\ UNCHANGED joins
      BY DEF OnLeft, Left
    <2>7. TypeOK'
      BY <1>3, <2>3, <2>5, <2>6 DEF IInv, TypeOK, initialized
    <2>8. Tasks' /\ Session' /\ Root' /\ Stage' /\ Sockets' /\ QuietWhenLeft'
      BY <1>3, <1>5, <2>4, <2>5, <2>6 DEF IInv, initialized, Tasks, Session, Root, Stage, Sockets, QuietWhenLeft
    <2> QED
      BY <2>7, <2>8 DEF IInv
  <1> QED
    BY <1>4, <1>5

\* custom_service.c:34-50: the custom task only schedules itself.
LEMMA CustomTaskKeepsIInv == IInv /\ RunCustomTask => IInv'
  <1> SUFFICES ASSUME IInv, RunCustomTask PROVE IInv'
    OBVIOUS
  <1> USE TimeAssumption, CustomAssumption
  <1>1. due["custom"] \in Int /\ joined /\ customServiceTaskId = "custom"
    BY DEF IInv, TypeOK, QuietWhenLeft, Tasks, RunCustomTask, TaskDue
  <1>2. due' \in [Task -> Int \cup {Unscheduled}]
    BY <1>1, CancelType, ScheduleType DEF IInv, TypeOK, RunCustomTask, CustomTask
  <1>3. due'["mqttsn"] = due["mqttsn"] /\ due'["enms"] = due["enms"]
    BY <1>1 DEF IInv, TypeOK, RunCustomTask, CustomTask, TaskSchedule, TaskCancel
  <1> QED
    BY <1>1, <1>2, <1>3 DEF IInv, TypeOK, QuietWhenLeft, Tasks, Session, Root, Stage, Sockets,
       RunCustomTask, CustomTask, mqttsn, session, network, initialized

\* The task of the ENMS service does likewise.
LEMMA EnmsTaskKeepsIInv == IInv /\ RunEnmsTask => IInv'
  <1> SUFFICES ASSUME IInv, RunEnmsTask PROVE IInv'
    OBVIOUS
  <1> USE TimeAssumption, EnmsAssumption
  <1>1. due["enms"] \in Int /\ joined /\ enmsTaskId = "enms"
    BY DEF IInv, TypeOK, QuietWhenLeft, Tasks, RunEnmsTask, TaskDue
  <1>2. due' \in [Task -> Int \cup {Unscheduled}]
    BY <1>1, CancelType, ScheduleType DEF IInv, TypeOK, RunEnmsTask, EnmsTask
  <1>3. due'["mqttsn"] = due["mqttsn"] /\ due'["custom"] = due["custom"]
    BY <1>1 DEF IInv, TypeOK, RunEnmsTask, EnmsTask, TaskSchedule, TaskCancel
  <1> QED
    BY <1>1, <1>2, <1>3 DEF IInv, TypeOK, QuietWhenLeft, Tasks, Session, Root, Stage, Sockets,
       RunEnmsTask, EnmsTask, mqttsn, session, network, initialized

\* custom_service.c:61-97: a datagram only changes the LEDs.
LEMMA DatagramKeepsIInv == IInv /\ Datagram => IInv'
  BY DEF IInv, TypeOK, QuietWhenLeft, Tasks, Session, Root, Stage, Sockets, Datagram, CustomReceive,
     Command, mqttsn, session, network, initialized

\* mqttsn_client_service.c:68-139: the callbacks of a client in a session, so
\* of a node that has joined.
LEMMA CallbackKeepsIInv == IInv /\ MqttsnCallback => IInv'
  <1> SUFFICES ASSUME IInv, MqttsnCallback PROVE IInv'
    OBVIOUS
  <1> USE TimeAssumption, DelayAssumption, FailureAssumption, LedAssumption
  <1>1. joined /\ ~root /\ client \in {"CONNECTING", "CONNECTED"}
    BY DEF IInv, TypeOK, QuietWhenLeft, Root, MqttsnCallback, OnMQTTConnected, OnMQTTDisconnected,
       OnMQTTTopicRegistered, OnLedcontrolUpdate, Accepted, Acknowledged, Published, Disconnected, ResponseTimeout
  <1>2. ASSUME NEW now \in LocalTime, due' = TaskSchedule(due, mqttsnTaskId, now)
        PROVE  /\ due' \in [Task -> Int \cup {Unscheduled}]
               /\ due'["mqttsn"] # Unscheduled => mqttsnTaskId = "mqttsn"
               /\ due'["custom"] # Unscheduled => customServiceTaskId = "custom"
               /\ due'["enms"] # Unscheduled => enmsTaskId = "enms"
    <2>1. now \in Int
      BY DEF LocalTime
    <2> QED
      BY <1>2, <2>1 DEF IInv, TypeOK, Tasks, TaskSchedule
  <1>3. CASE OnMQTTConnected
    <2>1. /\ due' \in [Task -> Int \cup {Unscheduled}]
          /\ due'["mqttsn"] # Unscheduled => mqttsnTaskId = "mqttsn"
          /\ due'["custom"] # Unscheduled => customServiceTaskId = "custom"
          /\ due'["enms"] # Unscheduled => enmsTaskId = "enms"
      BY <1>2, <1>3 DEF OnMQTTConnected, ScheduleNow
    <2> QED
      BY <1>1, <1>3, <2>1 DEF IInv, TypeOK, QuietWhenLeft, Tasks, Session, Root, Stage, Sockets,
         MqttsnCallback, OnMQTTConnected, ScheduleNow, Accepted, network, initialized
  <1>4. CASE OnMQTTDisconnected
    <2>1. /\ due' \in [Task -> Int \cup {Unscheduled}]
          /\ due'["mqttsn"] # Unscheduled => mqttsnTaskId = "mqttsn"
          /\ due'["custom"] # Unscheduled => customServiceTaskId = "custom"
          /\ due'["enms"] # Unscheduled => enmsTaskId = "enms"
      BY <1>4 DEF IInv, TypeOK, Tasks, OnMQTTDisconnected, ScheduleAt, TaskSchedule, TaskCancel
    <2> QED
      BY <1>1, <1>4, <2>1 DEF IInv, TypeOK, QuietWhenLeft, Tasks, Session, Root, Stage, Sockets,
         MqttsnCallback, OnMQTTDisconnected, ScheduleAt, Disconnected, ResponseTimeout, Reinit, UnregisterSocket, Fails,
         network, initialized
  <1>5. CASE OnMQTTTopicRegistered
    <2>1. /\ due' \in [Task -> Int \cup {Unscheduled}]
          /\ due'["mqttsn"] # Unscheduled => mqttsnTaskId = "mqttsn"
          /\ due'["custom"] # Unscheduled => customServiceTaskId = "custom"
          /\ due'["enms"] # Unscheduled => enmsTaskId = "enms"
      BY <1>2, <1>5 DEF OnMQTTTopicRegistered, ScheduleNow
    <2> QED
      BY <1>1, <1>5, <2>1 DEF IInv, TypeOK, QuietWhenLeft, Tasks, Session, Root, Stage, Sockets,
         MqttsnCallback, OnMQTTTopicRegistered, ScheduleNow, Acknowledged, network, initialized
  <1>6. CASE \E message \in LedMessage : OnLedcontrolUpdate(message)
    BY <1>1, <1>6 DEF IInv, TypeOK, QuietWhenLeft, Tasks, Session, Root, Stage, Sockets,
       MqttsnCallback, OnLedcontrolUpdate, mqttsn, session, network, initialized
  <1> QED
    BY <1>3, <1>4, <1>5, <1>6 DEF MqttsnCallback

\* mqttsn_client_service.c:150-194: the task goes from one stage to the next.
LEMMA ServiceTaskKeepsIInv == IInv /\ RunMqttsnTask => IInv'
  <1> SUFFICES ASSUME IInv, RunMqttsnTask PROVE IInv'
    OBVIOUS
  <1> USE TimeAssumption, DelayAssumption, FailureAssumption
  <1> DEFINE d == TaskCancel(due, "mqttsn")
             t == due["mqttsn"]
  <1>1. t \in Int /\ joined /\ ~root /\ mqttsnTaskId = "mqttsn"
    BY DEF IInv, TypeOK, QuietWhenLeft, Tasks, Root, RunMqttsnTask, MqttsnServiceTask, TaskDue
  <1>2. d \in [Task -> Int \cup {Unscheduled}] /\ d["custom"] = due["custom"]
        /\ d["enms"] = due["enms"]
    BY DEF IInv, TypeOK, TaskCancel
  <1>3. /\ UNCHANGED <<mqttsnTaskId, sinceButton, led, initialized, network>>
        /\ \/ ServiceTaskConnect(d, t) \/ ServiceTaskRegister(d)
           \/ ServiceTaskSubscribe(d) \/ ServiceTaskPublish(d, t)
    BY DEF RunMqttsnTask, MqttsnServiceTask
  <1> HIDE DEF d, t
  <1>4. due' \in [Task -> Int \cup {Unscheduled}] /\ due'["custom"] = due["custom"]
        /\ due'["enms"] = due["enms"]
    BY <1>1, <1>2, <1>3 DEF ServiceTaskConnect, ServiceTaskRegister, ServiceTaskSubscribe,
       ServiceTaskPublish, ScheduleAt, TaskSchedule
  <1>5. Tasks' /\ missed' \in {"past", "unsent", "nothing"}
    BY <1>1, <1>3, <1>4 DEF IInv, Tasks, initialized, ServiceTaskConnect, ServiceTaskRegister,
       ServiceTaskSubscribe, ServiceTaskPublish, ScheduleAt
  <1>6. CASE ServiceTaskConnect(d, t)
    <2>1. /\ serviceState = "CONNECTING" /\ UNCHANGED <<serviceState, registering, topics>>
          /\ failures' \in 0 .. MaxFailures
          /\ gateway' \in {"none", "borderRouter", "other"}
          /\ \/ client' = "CONNECTING" /\ sockets' = sockets \cup {"mqttsn"}
             \/ UNCHANGED <<client, sockets>>
      BY <1>6 DEF BorderRouterAddress, IInv, TypeOK, ServiceTaskConnect, CleanConnect, Fails, RegisterSocket
    <2>2. CASE client' = "CONNECTING" /\ sockets' = sockets \cup {"mqttsn"}
      <3>1. client # "CONNECTED"
        BY <1>1, <2>1 DEF IInv, Stage
      <3> QED
        BY <1>1, <1>3, <1>4, <1>5, <2>1, <2>2, <3>1 DEF IInv, TypeOK, QuietWhenLeft, Session, Root,
           Stage, Sockets, network, initialized
    <2>3. CASE UNCHANGED <<client, sockets>>
      BY <1>1, <1>3, <1>4, <1>5, <2>1, <2>3 DEF IInv, TypeOK, QuietWhenLeft, Session, Root,
         Stage, Sockets, network, initialized
    <2> QED
      BY <2>1, <2>2, <2>3
  <1>7. CASE ServiceTaskRegister(d)
    BY <1>1, <1>3, <1>4, <1>5, <1>7 DEF IInv, TypeOK, QuietWhenLeft, Session, Root, Stage, Sockets,
       ServiceTaskRegister, RegisterTopic, network, initialized
  <1>8. CASE ServiceTaskSubscribe(d)
    BY <1>1, <1>3, <1>4, <1>5, <1>8 DEF IInv, TypeOK, QuietWhenLeft, Session, Root, Stage, Sockets,
       ServiceTaskSubscribe, Subscribe, network, initialized
  <1>9. CASE ServiceTaskPublish(d, t)
    BY <1>1, <1>3, <1>4, <1>5, <1>9 DEF IInv, TypeOK, QuietWhenLeft, Session, Root, Stage, Sockets,
       ServiceTaskPublish, session, network, initialized
  <1> QED
    BY <1>3, <1>6, <1>7, <1>8, <1>9

\* mqttsn_client_service.c:241-270: polling the button.
LEMMA ProcKeepsIInv == IInv /\ Proc => IInv'
  BY DelayAssumption, LedAssumption DEF IInv, TypeOK, QuietWhenLeft, Tasks, Session, Root, Stage, Sockets,
     Proc, MqttsnServiceProc, session, network, initialized

\* The passing of time schedules and cancels nothing.
LEMMA TickKeepsIInv == IInv /\ Tick => IInv'
  <1> SUFFICES ASSUME IInv, Tick PROVE IInv'
    OBVIOUS
  <1> USE TimeAssumption, DelayAssumption
  <1>1. /\ due' \in [Task -> Int \cup {Unscheduled}]
        /\ \A id \in Task : due'[id] = Unscheduled <=> due[id] = Unscheduled
    BY DEF IInv, TypeOK, Tick, TimePasses
  <1>2. sinceButton' \in 0 .. ButtonGap + 1
    BY DEF IInv, TypeOK, Tick, ButtonAges
  <1> QED
    BY <1>1, <1>2 DEF IInv, TypeOK, QuietWhenLeft, Tasks, Session, Root, Stage, Sockets, Tick,
       session, network, initialized

\* embenet_node.h: nothing of the services depends on whether the border
\* router's address is known, or on the handlers that only report.
LEMMA BorderRouterKeepsIInv == IInv /\ (BorderRouterFound \/ BorderRouterLost) => IInv'
  <1> SUFFICES ASSUME IInv, BorderRouterFound \/ BorderRouterLost PROVE IInv'
    OBVIOUS
  <1>1. /\ UNCHANGED <<due, led, customServiceTaskId, enmsTaskId, services, serviceState, mqttsnTaskId>>
        /\ UNCHANGED <<client, registering, topics, gateway, sockets, sinceButton, missed, root, stack, joins>>
        /\ reachable' \in BOOLEAN
    BY DEF BorderRouterFound, BorderRouterLost, mqttsn, session, initialized
  <1>2. failures' \in 0 .. MaxFailures
    BY FailureAssumption DEF IInv, TypeOK, BorderRouterFound, BorderRouterLost, Fails, mqttsn
  <1> QED
    BY <1>1, <1>2 DEF IInv, TypeOK, QuietWhenLeft, Tasks, Session, Root, Stage, Sockets

LEMMA ReportKeepsIInv == IInv /\ (OnJoinAttempt \/ DataOnUnregisteredPort) => IInv'
  <1> SUFFICES ASSUME IInv, UNCHANGED vars PROVE IInv'
    BY DEF OnJoinAttempt, DataOnUnregisteredPort
  <1> QED
    BY DEF IInv, TypeOK, QuietWhenLeft, Tasks, Session, Root, Stage, Sockets, vars, mqttsn,
       session, network, initialized

\* IInv is an invariant of the application.
THEOREM Inductive == Spec => []IInv
  <1>1. Init => IInv
    BY InitIInv
  <1>2. IInv /\ [Next]_vars => IInv'
    <2> SUFFICES ASSUME IInv, [Next]_vars PROVE IInv'
      OBVIOUS
    <2>1. CASE UNCHANGED vars
      BY <2>1 DEF IInv, TypeOK, QuietWhenLeft, Tasks, Session, Root, Stage, Sockets, vars, mqttsn,
         session, network, initialized
    <2>2. CASE Next
      BY <2>2, JoinKeepsIInv, LeaveKeepsIInv, CustomTaskKeepsIInv, EnmsTaskKeepsIInv,
         DatagramKeepsIInv, CallbackKeepsIInv, ServiceTaskKeepsIInv, ProcKeepsIInv, TickKeepsIInv,
         BorderRouterKeepsIInv, ReportKeepsIInv DEF Next
    <2> QED
      BY <2>1, <2>2
  <1> QED
    BY <1>1, <1>2, PTL DEF Spec

\* The variables keep their types.
THEOREM TypeCorrect == Spec => []TypeOK
  <1>1. IInv => TypeOK
    BY DEF IInv
  <1> QED
    BY <1>1, Inductive, PTL

\* main.c:79-95: a node that has left the network is silent.
THEOREM LeftIsQuiet == Spec => []QuietWhenLeft
  <1>1. IInv => QuietWhenLeft
    BY DEF IInv
  <1> QED
    BY <1>1, Inductive, PTL

\* mqttsn_client_service.c:178-186, 248-260: the client of the running service
\* of a joined node takes what is published on both topics.
THEOREM RegisteredBeforeRunning == Spec => []RunningIsRegistered
  <1>1. IInv => RunningIsRegistered
    BY DEF IInv, Session, Stage, RunningIsRegistered, PublishAccepted, UdpSendAccepted
  <1> QED
    BY <1>1, Inductive, PTL

\* custom_service.c:109-122: whichever initializations failed, a task that is
\* scheduled has the socket it sends from.
THEOREM ScheduledHasSocket == Spec => []TaskHasSocket
  <1>1. IInv => TaskHasSocket
    BY DEF IInv, Tasks, Sockets, TaskHasSocket, UdpSendAccepted
  <1> QED
    BY <1>1, Inductive, PTL

----------------------------------------------------------------------------
\* No scheduled task is later than the main loop may be.
NotTooLate == \A id \in Task : due[id] # Unscheduled => due[id] >= -MaxLate

\* A step loses a task only by a schedule refused as in the past
\* (embenet_node.h:281-304), or by a REGISTER that is not sent.
LEMMA StepStrandsNothing ==
    ASSUME IInv, NotTooLate, NeverStranded, [Next]_vars
    PROVE  NotTooLate' /\ NeverStranded'
  <1> USE TimeAssumption, CustomAssumption, EnmsAssumption, DelayAssumption DEF NotTooLate, Stranded
  <1> DEFINE Time == Int \cup {Unscheduled}
  <1>1. /\ due \in [Task -> Time] /\ LocalTime = {-1, 0}
        /\ \A id \in Task : due[id] # Unscheduled => due[id] \in Int
    BY DEF IInv, TypeOK, LocalTime
  <1>2. /\ customServiceTaskId \in {"custom", EMBENET_TASKID_INVALID}
        /\ enmsTaskId \in {"enms", EMBENET_TASKID_INVALID}
        /\ mqttsnTaskId \in {"mqttsn", EMBENET_TASKID_INVALID}
    BY DEF IInv, TypeOK
  <1>3. CASE UNCHANGED vars
    BY <1>3 DEF NeverStranded, vars, initialized, mqttsn, session, network
  <1>4. CASE OnJoined
    <2>1. CASE root
      BY <1>1, <1>2, <1>4, <2>1 DEF OnJoined, EnmsStart, TaskSchedule, NeverStranded, IInv, Root, TypeOK,
         mqttsn, initialized
    <2>2. CASE ~root
      <3>1. PICK now \in {-1, 0} :
               /\ due' = TaskSchedule(CustomStart(EnmsStart(due)), mqttsnTaskId, now)
               /\ missed' = IF now < 0 THEN "past" ELSE "nothing"
        BY <1>1, <1>4, <2>2 DEF OnJoined, MqttsnStart, ScheduleNow
      <3>2. UNCHANGED <<customServiceTaskId, enmsTaskId, mqttsnTaskId>>
        BY <1>4, <2>2 DEF OnJoined, MqttsnStart, initialized
      <3>3. /\ customServiceTaskId = "custom" => due'["custom"] = CustomStartDelay
            /\ enmsTaskId = "enms" => due'["enms"] = EnmsStartDelay
            /\ customServiceTaskId # "custom" => due'["custom"] = due["custom"]
            /\ enmsTaskId # "enms" => due'["enms"] = due["enms"]
            /\ \/ due'["mqttsn"] = 0
               \/ due'["mqttsn"] = due["mqttsn"] /\ (mqttsnTaskId = "mqttsn" => missed' = "past")
        BY <1>1, <1>2, <3>1 DEF CustomStart, EnmsStart, TaskSchedule
      <3> QED
        BY <1>2, <3>2, <3>3 DEF NeverStranded
    <2> QED
      BY <2>1, <2>2
  <1>5. CASE OnLeft
    <2>1. joined' = FALSE
      BY <1>5 DEF OnLeft, Left
    <2>2. IInv'
      BY <1>5, LeaveKeepsIInv
    <2> QED
      BY <2>1, <2>2 DEF IInv, QuietWhenLeft, NeverStranded
  <1>6. CASE RunCustomTask
    BY <1>1, <1>6 DEF RunCustomTask, TaskDue, CustomTask, TaskSchedule, TaskCancel, NeverStranded,
       initialized, mqttsn, session, network
  <1>7. CASE RunEnmsTask
    BY <1>1, <1>7 DEF RunEnmsTask, TaskDue, EnmsTask, TaskSchedule, TaskCancel, NeverStranded,
       initialized, mqttsn, session, network
  <1>8. CASE Datagram
    BY <1>8 DEF Datagram, CustomReceive, NeverStranded, initialized, mqttsn, session, network
  <1>9. CASE MqttsnCallback
    <2>1. UNCHANGED <<initialized, joined, mqttsnTaskId>>
      BY <1>9 DEF MqttsnCallback, OnMQTTConnected, OnMQTTDisconnected, OnMQTTTopicRegistered,
         OnLedcontrolUpdate, mqttsn, network
    <2>2. CASE OnMQTTConnected
      <3>1. PICK now \in {-1, 0} :
               /\ due' = TaskSchedule(due, mqttsnTaskId, now)
               /\ missed' = IF now < 0 THEN "past" ELSE "nothing"
        BY <1>1, <2>2 DEF OnMQTTConnected, ScheduleNow
      <3> QED
        BY <1>1, <1>2, <2>1, <3>1 DEF TaskSchedule, NeverStranded, initialized
    <2>3. CASE OnMQTTTopicRegistered
      <3>1. PICK now \in {-1, 0} :
               /\ due' = TaskSchedule(due, mqttsnTaskId, now)
               /\ missed' = IF now < 0 THEN "past" ELSE "nothing"
        BY <1>1, <2>3 DEF OnMQTTTopicRegistered, ScheduleNow
      <3> QED
        BY <1>1, <1>2, <2>1, <3>1 DEF TaskSchedule, NeverStranded, initialized
    <2>4. CASE OnMQTTDisconnected
      BY <1>1, <1>2, <2>1, <2>4 DEF OnMQTTDisconnected, ScheduleAt, TaskSchedule, TaskCancel, NeverStranded, initialized
    <2>5. CASE \E message \in LedMessage : OnLedcontrolUpdate(message)
      BY <2>1, <2>5 DEF OnLedcontrolUpdate, NeverStranded, initialized, mqttsn, session
    <2> QED
      BY <1>9, <2>2, <2>3, <2>4, <2>5 DEF MqttsnCallback
  <1>10. CASE RunMqttsnTask
    <2> DEFINE d == TaskCancel(due, "mqttsn")
               t == due["mqttsn"]
    <2>1. t \in Int /\ t >= -MaxLate /\ mqttsnTaskId = "mqttsn" /\ joined
      BY <1>1, <1>10 DEF RunMqttsnTask, MqttsnServiceTask, TaskDue, IInv, Tasks, QuietWhenLeft
    <2>2. d \in [Task -> Time] /\ d["custom"] = due["custom"] /\ d["enms"] = due["enms"]
          /\ d["mqttsn"] = Unscheduled
      BY <1>1 DEF TaskCancel
    <2>3. UNCHANGED <<initialized, joined, mqttsnTaskId>>
      BY <1>10 DEF RunMqttsnTask, MqttsnServiceTask, network
    <2>4. \/ ServiceTaskConnect(d, t) \/ ServiceTaskRegister(d)
          \/ ServiceTaskSubscribe(d) \/ ServiceTaskPublish(d, t)
      BY <1>10 DEF RunMqttsnTask, MqttsnServiceTask
    <2> HIDE DEF d, t
    <2>5. CASE ServiceTaskRegister(d)
      <3>1. due' = d /\ (registering' # NoTopic \/ missed' = "unsent")
        BY <2>1, <2>5 DEF ServiceTaskRegister, RegisterTopic, IInv, Stage
      <3> QED
        BY <2>2, <2>3, <3>1 DEF NeverStranded, initialized
    <2>6. CASE ~ServiceTaskRegister(d)
      <3>1. \E time \in Nat : due' = TaskSchedule(d, "mqttsn", time)
        BY <2>1, <2>4, <2>6 DEF ServiceTaskConnect, ServiceTaskSubscribe,
           ServiceTaskPublish, ScheduleAt
      <3> QED
        BY <2>2, <2>3, <3>1 DEF TaskSchedule, NeverStranded, initialized
    <2> QED
      BY <2>5, <2>6
  <1>11. CASE Proc
    BY <1>11 DEF Proc, MqttsnServiceProc, NeverStranded, initialized, session, network
  <1>12. CASE Tick
    BY <1>1, <1>12 DEF Tick, TimePasses, NeverStranded, initialized, session, network
  <1>13. CASE BorderRouterFound \/ BorderRouterLost
    BY <1>13 DEF BorderRouterFound, BorderRouterLost, NeverStranded, initialized, mqttsn, session
  <1>14. CASE OnJoinAttempt \/ DataOnUnregisteredPort
    BY <1>3, <1>14 DEF OnJoinAttempt, DataOnUnregisteredPort
  <1> QED
    BY <1>3, <1>4, <1>5, <1>6, <1>7, <1>8, <1>9, <1>10, <1>11, <1>12, <1>13, <1>14 DEF Next

\* mqttsn_client_service.c:72, 116, 164, 168, 224, custom_service.c:49: for all
\* delays beyond the lateness of the main loop, a service loses its task in no
\* other way than by a time that was past when it was to be scheduled or by a
\* REGISTER that was not sent.
THEOREM NothingStranded == Spec => []NeverStranded
  <1>1. Init => NotTooLate /\ NeverStranded
    BY DEF Init, NotTooLate, NeverStranded, EMBENET_NODE_Init, EMBENET_NODE_Join, EMBENET_NODE_RootStart
  <1>2. IInv /\ NotTooLate /\ NeverStranded /\ [Next]_vars => NotTooLate' /\ NeverStranded'
    BY StepStrandsNothing
  <1> QED
    BY <1>1, <1>2, Inductive, PTL DEF Spec

=============================================================================
