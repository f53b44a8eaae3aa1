---------------------------- MODULE MqttsnClient ----------------------------
(***************************************************************************)
(* The MQTT-SN client of the stack library as mqttsn_client.h declares it, *)
(* in the part the service uses: clean sessions without a will, topics     *)
(* that the client registers, and messages without acknowledgement.  A     *)
(* client that gets no answer in time is disconnected, so a packet that is *)
(* lost is a failure of the gateway.                                       *)
(***************************************************************************)
EXTENDS Platform

CONSTANT MaxFailures  \* bound on the failures of the network and the gateway

ASSUME FailureAssumption == MaxFailures \in Nat

VARIABLES
    client,       \* MQTTSNClientState, "none" if the client is not initialized
    registering,  \* topic of a REGISTER that is not acknowledged yet
    topics,       \* topics registered or subscribed to in this session
    gateway,      \* the address given to CleanConnect, "none" before
    failures

session == <<client, registering, topics, gateway, sockets>>

ClientState == {"none", "DISCONNECTED", "CONNECTING", "CONNECTED"}
Topic == {"uptime", "button", "ledcontrol"}
NoTopic == "none"

Fails == failures < MaxFailures /\ failures' = failures + 1

\* MQTTSN_CLIENT_Deinit destroys the client's tasks and closes its socket.
\* MQTTSN_CLIENT_Init, which always follows, then has two tasks to create; it
\* can only fail if it had failed before.
Reinit ==
    /\ registering' = NoTopic /\ topics' = {} /\ gateway' = "none"
    /\ UnregisterSocket("mqttsn")
    /\ \/ client' = "DISCONNECTED"
       \/ client = "none" /\ UNCHANGED client

\* MQTTSN_CLIENT_CleanConnect opens the socket and sends CONNECT. It is refused
\* if the client is not disconnected; if it fails the socket is closed again.
CleanConnect(address) ==
    /\ UNCHANGED <<registering, topics>>
    /\ \/ /\ client = "DISCONNECTED" /\ client' = "CONNECTING"
          /\ RegisterSocket("mqttsn") /\ gateway' = address
          /\ UNCHANGED failures
       \/ client = "DISCONNECTED" /\ Fails /\ UNCHANGED <<client, gateway, sockets>>
       \/ client # "DISCONNECTED" /\ UNCHANGED <<client, gateway, sockets, failures>>

\* MQTTSN_CLIENT_RegisterTopic, by whether its packet can be sent: it sends
\* REGISTER, and is refused if the client is not connected.
RegisterTopic(topic, sent) ==
    /\ registering' = IF client = "CONNECTED" /\ sent THEN topic ELSE registering
    /\ UNCHANGED <<client, topics, gateway, sockets, failures>>

\* MQTTSN_CLIENT_Subscribe likewise.
Subscribe(topic, sent) ==
    /\ topics' = IF client = "CONNECTED" /\ sent THEN topics \cup {topic} ELSE topics
    /\ UNCHANGED <<client, registering, gateway, sockets, failures>>

\* Whether MQTTSN_CLIENT_PublishMessage sends: not CLIENT_NOT_CONNECTED, nor
\* TOPIC_NOT_REGISTERED, nor from a socket that is unregistered.
PublishAccepted(topic) ==
    client = "CONNECTED" /\ topic \in topics /\ UdpSendAccepted("mqttsn")

\* Why the client calls its handlers: CONNACK and REGACK of the gateway, which
\* is at the border router, and a message on a topic subscribed to; or a refusal,
\* a DISCONNECT or the end of MQTTSN_CLIENT_GATEWAY_RESPONSE_TIMEOUT_MS, upon
\* which the client has closed its socket.
Accepted == client = "CONNECTING" /\ gateway = "borderRouter" /\ client' = "CONNECTED"

Acknowledged ==
    /\ client = "CONNECTED" /\ registering # NoTopic
    /\ registering' = NoTopic /\ topics' = topics \cup {registering}

Published(topic) == client = "CONNECTED" /\ topic \in topics

\* Nobody answers at another address.
ResponseTimeout == client = "CONNECTING" /\ gateway = "other" /\ UNCHANGED failures

Disconnected ==
    \/ client \in {"CONNECTING", "CONNECTED"} /\ Fails
    \/ ResponseTimeout

=============================================================================
