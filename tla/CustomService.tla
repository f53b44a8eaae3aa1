--------------------------- MODULE CustomService ---------------------------
(***************************************************************************)
(* The exemplary UDP service, custom_service.c: a task that sends a        *)
(* message every five seconds, and commands for the LEDs.  Every operator  *)
(* of this module is run to completion in the main loop.                   *)
(***************************************************************************)
EXTENDS Platform

CONSTANTS
    CustomStartDelay,  \* 2000 ms
    CustomPeriod       \* 5000 ms

ASSUME CustomAssumption == CustomStartDelay \in Nat /\ CustomPeriod \in Nat /\ CustomPeriod > MaxLate

VARIABLE customServiceTaskId

\* Fault: the task is created whether or not the socket is registered.
CustomInitUnchecked == customServiceTaskId \in {"custom", EMBENET_TASKID_INVALID}

\* custom_service_init: registering the socket or, after it, creating the task
\* may fail, which is only reported.
CustomInit ==
    /\ customServiceTaskId \in {"custom", EMBENET_TASKID_INVALID}
    /\ customServiceTaskId = "custom" => "custom" \in sockets

\* custom_service_start, and custom_service_stop, on the schedule d.
CustomStart(d) == TaskSchedule(d, customServiceTaskId, CustomStartDelay)
CustomStop(d) == TaskCancel(d, customServiceTaskId)

\* customServiceTask: sends to whatever the border router's address is taken to
\* be (or fails to) and schedules itself at t + 5000, where t is the time at which
\* it was to run.
CustomTask ==
    /\ due' = TaskSchedule(TaskCancel(due, "custom"), "custom", due["custom"] + CustomPeriod)
    /\ UNCHANGED led

\* A command in a datagram: "ledNon" and "ledNoff", and the first six
\* characters of the latter.
Command == [led : Led, text : {"on", "off", "of"}]

\* Fault: the digit in the command is taken for the number of the LED.
CustomReceiveDigit(command) ==
    /\ \/ command.text = "on" /\ led' = led \cup {command.led + 1}
       \/ command.text \in {"off", "of"} /\ led' = led \ {command.led + 1}
       \/ command.text = "of" /\ UNCHANGED led
    /\ UNCHANGED due

\* customServiceReceptionHandler: strncmp reads the seventh character of a
\* datagram of six, whatever it is.
CustomReceive(command) ==
    /\ \/ command.text = "on" /\ led' = led \cup {command.led}
       \/ command.text \in {"off", "of"} /\ led' = led \ {command.led}
       \/ command.text = "of" /\ UNCHANGED led
    /\ UNCHANGED due

=============================================================================
