---------------------------- MODULE EnmsService ----------------------------
(***************************************************************************)
(* The ENMS service of the stack library (enms_node.h), which tells the    *)
(* border router about the node, in the part main.c uses.                  *)
(***************************************************************************)
EXTENDS Platform, FiniteSets

CONSTANTS
    EnmsStartDelay,  \* from ENMS_NODE_Start to the first run of the task
    EnmsPeriod       \* from one run to the next

ASSUME EnmsAssumption == EnmsStartDelay \in Nat /\ EnmsPeriod \in Nat /\ EnmsPeriod > MaxLate

VARIABLES
    enmsTaskId,
    services    \* that it reports as running

ENMS_NODE_MAX_SERVICES == 10

\* A service is taken once, as long as there is room.
ENMS_NODE_RegisterService(told, service) ==
    IF service \in told \/ Cardinality(told) = ENMS_NODE_MAX_SERVICES
    THEN told ELSE told \cup {service}

\* ENMS_NODE_Init registers a socket and creates the task, or else does
\* neither, which main only reports.
EnmsInit ==
    /\ enmsTaskId \in {"enms", EMBENET_TASKID_INVALID}
    /\ enmsTaskId = "enms" <=> "enms" \in sockets

\* ENMS_NODE_Start, and ENMS_NODE_Stop, on the schedule d.
EnmsStart(d) == TaskSchedule(d, enmsTaskId, EnmsStartDelay)
EnmsStop(d) == TaskCancel(d, enmsTaskId)

\* Sends what indications are due and schedules itself anew.
EnmsTask ==
    due' = TaskSchedule(TaskCancel(due, "enms"), "enms", due["enms"] + EnmsPeriod)

=============================================================================
