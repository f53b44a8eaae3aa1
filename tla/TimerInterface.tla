--------------------------- MODULE TimerInterface ---------------------------
(***************************************************************************)
(* What embenet_timer.h promises of the timer: a monotonic clock of Range  *)
(* microseconds that wraps around, and one compare event, which is called  *)
(* back when its time is reached, past, or no more than a guard ahead.     *)
(* When the event must come is in CompareNeverMissed and RequestServed of  *)
(* Timer.                                                                  *)
(***************************************************************************)
EXTENDS Integers

CONSTANTS
    Range,              \* 2^32
    Resolution,         \* by how much the time read may advance at once
    MaxCompareDuration, \* GetMaxCompareDuration
    GuardTime           \* how far ahead a time may be treated as past

VARIABLES
    running,
    now,     \* the time
    compare  \* the compare value, NoCompare if there is no event to come

vars == <<running, now, compare>>

NoCompare == -1

Init == running = FALSE /\ now = 0 /\ compare = NoCompare

\* Counts "from 0 upwards".
TimerInit == running' = TRUE /\ now' = 0 /\ compare' = NoCompare

Deinit == running /\ running' = FALSE /\ compare' = NoCompare /\ UNCHANGED now

\* A new compare value replaces the one before.
SetCompare(time) == running /\ compare' = time /\ UNCHANGED <<running, now>>

\* What ReadCounter returns "represents monotonically increasing time".
Advance ==
    /\ running
    /\ \E us \in 1 .. Resolution :
          now' = IF now + us >= Range THEN now + us - Range ELSE now + us
    /\ UNCHANGED <<running, compare>>

\* A time further ahead than the largest duration is in the past, and one within
\* the guard is treated as if it were.
Reached(time) ==
    LET ahead == IF time >= now THEN time - now ELSE time - now + Range
    IN  ahead =< GuardTime \/ ahead > MaxCompareDuration

CompareCallback ==
    /\ compare # NoCompare /\ Reached(compare)
    /\ compare' = NoCompare
    /\ UNCHANGED <<running, now>>

Next ==
    \/ TimerInit \/ Deinit \/ Advance \/ CompareCallback
    \/ \E time \in 0 .. Range - 1 : SetCompare(time)

Spec == Init /\ [][Next]_vars

=============================================================================
