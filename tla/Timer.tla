------------------------------- MODULE Timer -------------------------------
(***************************************************************************)
(* The compare timer of the port, embenet_node_port/src/embenet_timer.c:   *)
(* a 32-bit GPTimer that counts ticks of 4/3 us, presented to the stack as *)
(* a clock of 2^32 us with one compare event.                              *)
(*                                                                         *)
(* Sizes are expressed in Q = 2^30: a word has 4Q values, the counter is   *)
(* reloaded after 3Q ticks, and the largest duration is 2Q - 1.  The       *)
(* counter advances between any two steps of EMBENET_TIMER_SetCompare.     *)
(***************************************************************************)
EXTENDS Integers

CONSTANTS
    Q,          \* a quarter of the range of a uint32_t
    Guard,      \* EMBENET_TIMER_EVENT_GUARD_TIME_TICKS
    MaxLag,     \* ticks that pass at most while SetCompare executes
    MaxPast,    \* the stack asks for no time further than this in the past
    MaxReplace  \* how often a waiting request is replaced by another one

ASSUME QAssumption == Q \in Nat /\ Q > 2
ASSUME GuardAssumption == Guard \in Nat
ASSUME MaxLagAssumption == MaxLag \in Nat /\ MaxLag < Guard
ASSUME MaxPastAssumption == MaxPast \in Nat /\ MaxPast + Guard =< Q
ASSUME MaxReplaceAssumption == MaxReplace \in Nat

Word == 0 .. 4 * Q - 1

\* GPTimerCC26XX_setLoadValue(.., 3221225471): the counter's period in ticks.
Period == 3 * Q

Ticks == 0 .. Period - 1

\* EMBENET_TIMER_MAX_COMPARE_DURATION
MaxCompareDuration == 2 * Q - 1

EMBENET_TIMER_GetMaxCompareDuration == MaxCompareDuration

\* uint32_t subtraction of two words.
WordSub(a, b) == IF a >= b THEN a - b ELSE a - b + 4 * Q

\* The 64-bit products and, for a tick below the period, the casts to
\* uint32_t lose nothing but the remainder.
TicksToUs(ticks) == (ticks * 4) \div 3

\* Fault: microseconds are taken for ticks.
UsToTicksIdentity(time) == time

\* Fault: the division comes first and cuts off up to three microseconds.
UsToTicksTruncated(time) == (time \div 4) * 3

UsToTicks(time) == (time * 3) \div 4

\* The ticks until the counter, now at cur, reaches cmp.
Ahead(cur, cmp) == IF cmp >= cur THEN cmp - cur ELSE cmp - cur + Period

VARIABLES
    hTimer,     \* the driver's handle, NULL while the timer is closed
    counter,    \* the free-running count
    match,      \* the match register
    imr,        \* 1: GPT_INT_MATCH is enabled
    ris,        \* the raw match status, set whether or not it is enabled
    nvic,       \* the interrupt was pended by IntPendSet
    pc,         \* progress of a SetCompare call
    currentValue, \* its sample of the counter
    lag,        \* ticks since that sample
    req,        \* the stack's request: none, waiting, or called back
    asked,      \* its compareValue, in microseconds
    arg,        \* and in ticks
    cause,      \* history: how SetCompare left the request to an interrupt
    left,       \* ticks until the request is due, negative once overdue
    replaced    \* how often the waiting request was replaced

hw == <<hTimer, counter, match, imr, ris, nvic>>
call == <<pc, currentValue, lag>>
request == <<req, asked, arg, cause, left, replaced>>
vars == <<hw, call, request>>

\* There is no request, or no longer.
NoRequest ==
    /\ req' = "none" /\ asked' = 0 /\ arg' = 0 /\ cause' = "none"
    /\ left' = 0 /\ replaced' = 0

\* SetCompare returns.
ReturnCall == pc' = "none" /\ currentValue' = 0 /\ lag' = 0

Pending == hTimer = "open" /\ (nvic = 1 \/ (imr = 1 /\ ris = 1))

\* EMBENET_TIMER_ReadCounter
ReadCounter == TicksToUs(counter)

\* 0xFFFFFFFF, the reset value of the match register, is never counted to.
Init ==
    /\ hTimer = "NULL" /\ counter = 0 /\ match = 4 * Q - 1
    /\ imr = 0 /\ ris = 0 /\ nvic = 0
    /\ pc = "none" /\ currentValue = 0 /\ lag = 0
    /\ req = "none" /\ asked = 0 /\ arg = 0 /\ cause = "none" /\ left = 0 /\ replaced = 0

----------------------------------------------------------------------------
(* EMBENET_TIMER_Init and Deinit.  Closing the driver may or may not drop  *)
(* an interrupt that is already pending in the NVIC.                       *)

TimerDeinit ==
    /\ hTimer = "open" /\ pc = "none"
    /\ hTimer' = "NULL"
    /\ imr' = 0 /\ ris' = 0
    /\ nvic' \in {0, nvic}
    /\ NoRequest
    /\ UNCHANGED <<counter, match, call>>

\* Init begins with Deinit, so opening the driver always succeeds.
TimerInit ==
    /\ pc = "none"
    /\ hTimer' = "open" /\ counter' = 0 /\ match' = 4 * Q - 1
    /\ imr' = 0 /\ ris' = 0
    /\ nvic' \in {0, nvic}
    /\ NoRequest
    /\ UNCHANGED call

----------------------------------------------------------------------------
(* The hardware (external).                                                *)

\* Whoever is to act does so before the request is overdue by MaxPast ticks:
\* the handler, its callback, or the rest of a SetCompare call.  (A compare
\* that was missed raises its interrupt a period late, and then likewise.)
Prompt ==
    req = "none" \/ left \notin {-MaxPast, -MaxPast - Period}
    \/ ~(Pending \/ pc # "none" \/ req = "called")

Tick ==
    /\ hTimer = "open"
    /\ pc # "none" => lag < MaxLag
    /\ Prompt
    /\ counter' = IF counter = Period - 1 THEN 0 ELSE counter + 1
    /\ ris' = IF counter' = match THEN 1 ELSE ris
    /\ lag' = IF pc # "none" THEN lag + 1 ELSE 0
    /\ left' = IF req # "none" /\ left > -2 * Period THEN left - 1 ELSE left
    /\ UNCHANGED <<hTimer, match, imr, nvic, pc, currentValue, req, asked, arg, cause, replaced>>

----------------------------------------------------------------------------
(* EMBENET_TIMER_SetCompare.  The stack calls it with interrupts masked or *)
(* from the compare callback, so the handler does not run inside it (the   *)
(* port does not see to that).                                             *)

\* A time is ahead if it is at most the largest duration away.
Left(cmp) ==
    LET ahead == Ahead(counter, cmp)
    IN  IF ahead =< UsToTicks(MaxCompareDuration) THEN ahead ELSE ahead - Period

\* The stack asks for a new time, in place of one that still waits or not.
SetCompareCall(compareValue) ==
    /\ hTimer = "open" /\ pc = "none" /\ req # "called"
    /\ asked' = compareValue /\ arg' = UsToTicks(compareValue)
    /\ left' = Left(arg') /\ left' >= -MaxPast
    /\ req = "waiting" => replaced < MaxReplace
    /\ replaced' = IF req = "waiting" THEN replaced + 1 ELSE 0
    /\ req' = "waiting" /\ cause' = "none"
    /\ pc' = "enable" /\ currentValue' = counter /\ lag' = 0
    /\ UNCHANGED hw

\* Fault: the match interrupt is not enabled again after the handler disabled it.
SetCompareEnableLost ==
    /\ pc = "enable"
    /\ pc' = "write"
    /\ UNCHANGED <<hw, currentValue, lag, request>>

SetCompareEnable ==
    /\ pc = "enable"
    /\ imr' = 1
    /\ pc' = "write"
    /\ UNCHANGED <<hTimer, counter, match, ris, nvic, currentValue, lag, request>>

\* Fault: no guard time, so the counter may already be past the match value.
IsAheadNoGuard == WordSub(arg, currentValue) < MaxCompareDuration

\* Fault: the difference, in ticks, is compared with the largest duration in ticks.
IsAheadInTicks == WordSub(WordSub(arg, Guard), currentValue) < UsToTicks(MaxCompareDuration)

\* (EMBENET_TimeUs)(compareValue - GUARD - currentValue) < MAX_COMPARE_DURATION
IsAhead == WordSub(WordSub(arg, Guard), currentValue) < MaxCompareDuration

\* What an earlier request has raised may still call back (cause "stale").
SetCompareSchedule ==
    /\ pc = "write" /\ IsAhead
    /\ match' = arg
    /\ cause' = IF ris = 1 \/ nvic = 1 THEN "stale" ELSE "match"
    /\ ReturnCall
    /\ UNCHANGED <<hTimer, counter, imr, ris, nvic, req, asked, arg, left, replaced>>

\* A time below the count may be past or lie beyond the reload.
SetCompareTrigger ==
    /\ pc = "write" /\ ~IsAhead
    /\ nvic' = 1
    /\ cause' = IF arg < currentValue THEN "below" ELSE "near"
    /\ ReturnCall
    /\ UNCHANGED <<hTimer, counter, match, imr, ris, req, asked, arg, left, replaced>>

----------------------------------------------------------------------------
\* EMBENET_TIMER_ISR_Handler, called by the driver's handler after it has
\* cleared the status that was enabled.  It disables the match interrupt and
\* calls the stack back, whatever raised the interrupt.
IsrHandler ==
    /\ Pending /\ pc = "none" /\ req # "called"
    /\ imr' = 0 /\ nvic' = 0
    /\ ris' = IF imr = 1 THEN 0 ELSE ris
    /\ req' = IF req = "waiting" THEN "called" ELSE req
    /\ UNCHANGED <<hTimer, counter, match, call, asked, arg, cause, left, replaced>>

\* The callback (external) reads the clock.  Its time is reached if it is now or
\* no longer ahead.
IsReached ==
    LET ahead == WordSub(asked, ReadCounter)
    IN  ahead = 0 \/ ahead > EMBENET_TIMER_GetMaxCompareDuration

\* It does what it was asked to do at that time.
CallbackServes ==
    /\ hTimer = "open" /\ req = "called" /\ IsReached
    /\ NoRequest
    /\ UNCHANGED <<hw, call>>

\* Or it was called early, and sets the same time again.
SetCompareAgain ==
    /\ hTimer = "open" /\ req = "called" /\ ~IsReached
    /\ req' = "waiting" /\ cause' = "none" /\ left' = Left(arg)
    /\ pc' = "enable" /\ currentValue' = counter /\ lag' = 0
    /\ UNCHANGED <<hw, asked, arg, replaced>>

----------------------------------------------------------------------------
SetCompare ==
    \/ \E compareValue \in Word : SetCompareCall(compareValue)
    \/ SetCompareEnable \/ SetCompareSchedule \/ SetCompareTrigger

Callback == CallbackServes \/ SetCompareAgain

Next == TimerInit \/ TimerDeinit \/ Tick \/ SetCompare \/ IsrHandler \/ Callback

\* Time passes whenever the prompt parties have acted; the core finishes a
\* call, serves an enabled interrupt, and the callback serves its request or
\* asks again.
Fairness ==
    /\ SF_vars(Tick)
    /\ WF_vars(SetCompareEnable \/ SetCompareSchedule \/ SetCompareTrigger)
    /\ WF_vars(Callback)
    /\ WF_vars(IsrHandler)

Spec == Init /\ [][Next]_vars
FairSpec == Spec /\ Fairness

----------------------------------------------------------------------------
(* Properties.                                                             *)

\* Every variable has its type.
TypeOK ==
    /\ hTimer \in {"NULL", "open"} /\ imr \in {0, 1} /\ ris \in {0, 1} /\ nvic \in {0, 1}
    /\ counter \in Ticks /\ match \in Word
    /\ pc \in {"none", "enable", "write"}
    /\ asked \in Word /\ arg \in Ticks /\ currentValue \in Ticks /\ lag \in 0 .. MaxLag
    /\ req \in {"none", "waiting", "called"}
    /\ cause \in {"none", "match", "stale", "near", "below"}
    /\ left \in -(Period + MaxPast) .. Period
    /\ replaced \in 0 .. MaxReplace

\* embenet_timer.c:85-98: a compare time that becomes due has raised its
\* interrupt, although the counter ran on between the sample of the counter
\* and the write of the match register.  Times that fall within the guard
\* after the counter's reload are excepted: GuardHonoured is about those.
CompareNeverMissed ==
    req = "waiting" /\ pc = "none" /\ arg >= Guard => Pending \/ left > 0

\* The timer of the header, with the times the stack asks for and reads.  Its guard
\* is that of the port, rounded up.  It has one event until the callback.
Interface == INSTANCE TimerInterface WITH
    Range <- 4 * Q, Resolution <- 2,
    MaxCompareDuration <- EMBENET_TIMER_GetMaxCompareDuration,
    GuardTime <- TicksToUs(Guard) + 1,
    running <- hTimer = "open", now <- ReadCounter,
    compare <- IF req = "waiting" THEN asked ELSE -1

\* embenet_timer.c:92, 93: the callbacks that the header does not allow.  Something
\* was raised before the match register was written, or the time is below the
\* count and taken for past though it lies beyond the reload.
CalledEarly == IsrHandler /\ req = "waiting" /\ cause \in {"stale", "below"}

\* embenet_timer.h:43-86: but for CalledEarly the timer is that of the header.  The
\* time read is monotonic modulo 2^32 us, across the reload of the counter too, and
\* no callback comes more than the guard before the time asked for.
ImplementsInterface ==
    Interface!Init /\ [][Interface!Next \/ CalledEarly]_(Interface!vars)

\* Every request is answered by a callback at or after its time, in microseconds,
\* however many come before it, unless the timer is stopped.
RequestServed == req = "waiting" ~> req = "none"

\* embenet_timer.c:93-95: what is left to the match register is at least the guard
\* ahead, however far the counter ran before the call and whatever the word
\* subtraction makes of times past; GuardHonoured has the times excepted here.
GuardKept == [][SetCompareSchedule /\ arg >= Guard => left + lag >= Guard]_vars

\* embenet_timer.c:93-98: an interrupt that SetCompare triggers at once is for a time
\* past or within the guard, which the header treats as past; or for a time after
\* the reload so distant that the word subtraction takes it for past.
FarIsScheduled ==
    [][SetCompareTrigger => \/ left + lag < Guard
                            \/ arg < currentValue /\ left + lag >= Q + Guard - 1]_vars

\* embenet_timer.h:61-62 and embenet_timer.c:30-31: a time closer to the
\* current time than the guard is treated as past: SetCompare triggers the
\* interrupt at once and does not trust the match register.
GuardHonoured ==
    [][SetCompareSchedule => left + lag >= Guard \/ left + lag =< -Guard]_vars

=============================================================================
