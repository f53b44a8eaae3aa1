------------------------------ MODULE Platform ------------------------------
(***************************************************************************)
(* What the application's services share of the stack library, whose       *)
(* headers are the contract: its task scheduler (embenet_node.h) and its   *)
(* UDP sockets (embenet_udp.h); and the board's LEDs.                      *)
(*                                                                         *)
(* Times are relative to the present, which is 0: a scheduled task is due  *)
(* in due[id] units, and negative values are in the past.                  *)
(***************************************************************************)
EXTENDS Integers

CONSTANTS
    Unscheduled,  \* not a time
    Led,          \* the LEDs, numbered as in CONFIG_LED_n_GPIO
    MaxLate       \* bound on how late a task may be run

ASSUME TimeAssumption == Unscheduled \notin Int /\ MaxLate \in Nat
ASSUME LedAssumption == {0, 1} \subseteq Led

VARIABLES
    due,      \* of each task, when it is to run
    sockets,  \* the services whose UDP sockets are registered
    led,      \* the LEDs that are lit
    reachable \* whether the border router's address is known

Task == {"mqttsn", "custom", "enms"}
Socket == {"mqttsn", "custom", "enms"}
EMBENET_TASKID_INVALID == "invalid"

\* EMBENET_NODE_GetLocalTime as TaskSchedule sees it, read a moment before: the
\* clock may have advanced in between.
LocalTime == {-1, 0}

\* EMBENET_NODE_TaskSchedule: replaces an earlier schedule, and refuses an
\* invalid task and a time in the past.
TaskSchedule(d, id, t) == IF id \in Task /\ t >= 0 THEN [d EXCEPT ![id] = t] ELSE d

\* EMBENET_NODE_TaskCancel
TaskCancel(d, id) == IF id \in Task THEN [d EXCEPT ![id] = Unscheduled] ELSE d

\* EMBENET_UDP_RegisterSocket and EMBENET_UDP_UnregisterSocket: a datagram is
\* handed to the handler of a registered socket, and sent from one.
RegisterSocket(s) == sockets' = sockets \cup {s}
UnregisterSocket(s) == sockets' = sockets \ {s}

\* A datagram for the port of s that no socket takes.
Unclaimed(s) == s \notin sockets

\* EMBENET_UDP_Send: only a registered socket sends.
UdpSendAccepted(s) == s \in sockets

\* What EMBENET_NODE_GetBorderRouterAddress leaves in an automatic variable of a
\* caller that ignores its result: the address, or whatever was there before.
BorderRouterAddress == IF reachable THEN {"borderRouter"} ELSE {"borderRouter", "other"}

\* EMBENET_NODE_Proc may run the task.
TaskDue(id) == id \in Task /\ due[id] # Unscheduled /\ due[id] =< 0

\* Time advances, if no task would be later than MaxLate.
TimePasses ==
    /\ \A id \in Task : due[id] # Unscheduled => due[id] > -MaxLate
    /\ due' = [id \in Task |-> IF due[id] = Unscheduled THEN Unscheduled ELSE due[id] - 1]

=============================================================================
