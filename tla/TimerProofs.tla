---------------------------- MODULE TimerProofs ----------------------------
(***************************************************************************)
(* For every word size, guard and latency, the compare timer misses no     *)
(* compare time except within the guard after the counter's reload, and is *)
(* the timer of the header.                                                *)
(***************************************************************************)
EXTENDS Timer, TLAPS

\* The request is due when the counter is at arg, now or a period or two ago.
Congruent ==
    IF req = "none" THEN left = 0
    ELSE \/ left = Ahead(counter, arg)
         \/ left = Ahead(counter, arg) - Period
         \/ left = Ahead(counter, arg) - 2 * Period

\* SetCompare works for the request in hand, on a sample lag ticks old, and
\* the latencies keep the request from being overdue meanwhile.
InCall ==
    /\ pc # "none" =>
        /\ hTimer = "open" /\ req = "waiting"
        /\ counter = IF currentValue + lag >= Period
                     THEN currentValue + lag - Period ELSE currentValue + lag
        /\ left + lag = Ahead(currentValue, arg)
              \/ left + lag = Ahead(currentValue, arg) - Period
        /\ pc = "write" => imr = 1
        /\ left + lag >= -MaxPast /\ left >= -MaxPast

\* Between calls a waiting request has its interrupt pending, or the match
\* register at its tick, not passed yet unless that is just after the reload.
Armed ==
    req = "waiting" /\ pc = "none" =>
        \/ Pending
        \/ /\ hTimer = "open" /\ imr = 1 /\ match = arg
           /\ left > (IF arg >= Guard THEN 0 ELSE -Period)

\* A request is never further ahead than the largest duration, on the sample of a
\* call too, and overdue by no more than the latency, or a period and the latency.
Bounded == left >= -Period - MaxPast /\ 2 * (left + lag) < Period

\* An interrupt is not pending, nor its callback at work, in the middle of the
\* period by which a missed request is late.
Timely ==
    (req = "waiting" /\ pc = "none" /\ Pending) \/ req = "called" =>
        left >= -MaxPast \/ left =< -Period

\* A request triggered for a time not below the count is within the guard; one left
\* to a match register, with nothing raised before, is called back when due.
Caused ==
    req = "waiting" /\ pc = "none" =>
        /\ cause # "none"
        /\ cause = "near" => left < Guard
        /\ cause = "match" => nvic = 0 /\ match = arg /\ (ris = 1 => left =< 0)

\* The ticks of a request are those of the time asked for.
Asked == req # "none" => arg = UsToTicks(asked)

IInv ==
    /\ TypeOK /\ Congruent /\ InCall /\ Armed /\ Bounded /\ Timely
    /\ Caused /\ Asked

----------------------------------------------------------------------------
\* UsToTicks yields a tick of the counter, and no duration that counts as
\* future is longer than half its period.
LEMMA UsToTicksRange ==
    /\ \A time \in Word : UsToTicks(time) \in Ticks
    /\ UsToTicks(MaxCompareDuration) \in Nat
    /\ 2 * UsToTicks(MaxCompareDuration) < Period
<1>1. ASSUME NEW n \in Nat PROVE (n * 3) \div 4 \in Nat /\ 4 * ((n * 3) \div 4) =< 3 * n
  OBVIOUS
<1>2. \A time \in Word : time \in Nat /\ time < 4 * Q
  BY QAssumption DEF Word
<1>3. MaxCompareDuration \in Nat
  BY QAssumption DEF MaxCompareDuration
<1>4. ASSUME NEW time \in Word PROVE UsToTicks(time) \in Ticks
  <2>1. UsToTicks(time) \in Nat /\ 4 * UsToTicks(time) =< 3 * time
    BY <1>1, <1>2 DEF UsToTicks
  <2> QED BY <2>1, <1>2, QAssumption DEF Ticks, Period
<1>5. UsToTicks(MaxCompareDuration) \in Nat
      /\ 4 * UsToTicks(MaxCompareDuration) =< 3 * MaxCompareDuration
  BY <1>1, <1>3 DEF UsToTicks
<1> QED BY <1>4, <1>5, QAssumption DEF MaxCompareDuration, Period

\* The distance between two counts is less than a period.
LEMMA AheadRange ==
    ASSUME NEW cur \in Ticks, NEW cmp \in Ticks PROVE Ahead(cur, cmp) \in Ticks
  BY QAssumption DEF Ahead, Ticks, Period

\* The conversions lose less than a tick, and less than a microsecond.
LEMMA UsToTicksBounds ==
    ASSUME NEW time \in Nat
    PROVE  /\ UsToTicks(time) \in Nat
           /\ 4 * UsToTicks(time) =< 3 * time /\ 3 * time < 4 * UsToTicks(time) + 4
  BY DEF UsToTicks

LEMMA TicksToUsBounds ==
    ASSUME NEW ticks \in Nat
    PROVE  /\ TicksToUs(ticks) \in Nat
           /\ 3 * TicksToUs(ticks) =< 4 * ticks /\ 4 * ticks < 3 * TicksToUs(ticks) + 3
  BY DEF TicksToUs

\* The stack sees a time ahead only if its tick is.
LEMMA AheadInTicks ==
    ASSUME NEW cur \in Ticks, NEW time \in Word,
           WordSub(time, TicksToUs(cur)) # 0,
           WordSub(time, TicksToUs(cur)) =< MaxCompareDuration
    PROVE  Ahead(cur, UsToTicks(time)) =< UsToTicks(MaxCompareDuration)
<1> DEFINE now == TicksToUs(cur)
           cmp == UsToTicks(time)
           half == UsToTicks(MaxCompareDuration)
<1>1. cur \in Nat /\ cur < 3 * Q /\ time \in Nat /\ time < 4 * Q /\ Q \in Nat
  BY QAssumption DEF Ticks, Word, Period
<1>2. now \in Nat /\ 3 * now =< 4 * cur /\ 4 * cur < 3 * now + 3
  BY <1>1, TicksToUsBounds
<1>3. cmp \in Nat /\ 4 * cmp =< 3 * time /\ 3 * time < 4 * cmp + 4
  BY <1>1, UsToTicksBounds
<1>4. half \in Nat /\ 3 * (2 * Q - 1) < 4 * half + 4
  <2>1. MaxCompareDuration \in Nat
    BY QAssumption DEF MaxCompareDuration
  <2> QED BY <2>1, UsToTicksBounds DEF MaxCompareDuration
<1>5. WordSub(time, now) # 0 /\ WordSub(time, now) =< 2 * Q - 1
  BY DEF MaxCompareDuration
<1> HIDE DEF now, cmp, half
<1>6. CASE time >= now
  <2>1. time - now >= 1 /\ time - now =< 2 * Q - 1
    BY <1>1, <1>2, <1>5, <1>6 DEF WordSub
  <2>2. cmp >= cur /\ 4 * (cmp - cur) =< 6 * Q - 3
    BY <1>1, <1>2, <1>3, <2>1
  <2> QED BY <1>1, <1>3, <1>4, <2>2 DEF Ahead, cmp, half
<1>7. CASE time < now
  <2>1. time - now + 4 * Q =< 2 * Q - 1
    BY <1>1, <1>2, <1>5, <1>7 DEF WordSub
  <2>2. cmp < cur /\ 4 * (cmp - cur + 3 * Q) =< 6 * Q - 3
    BY <1>1, <1>2, <1>3, <1>7, <2>1
  <2> QED BY <1>1, <1>3, <1>4, <2>2 DEF Ahead, cmp, half, Period
<1> QED BY <1>1, <1>2, <1>6, <1>7

\* embenet_timer.c:34-42: a time in microseconds that goes to ticks and back
\* loses at most one microsecond, so a callback on time reads a clock that is
\* at most one microsecond short of the time asked for.
THEOREM RoundTrip ==
    ASSUME NEW time \in Nat
    PROVE  TicksToUs(UsToTicks(time)) \in {time - 1, time}
<1> DEFINE t == UsToTicks(time)
<1>1. t \in Nat /\ 4 * t =< 3 * time /\ 3 * time < 4 * t + 4
  BY UsToTicksBounds
<1>2. TicksToUs(t) \in Nat /\ 3 * TicksToUs(t) =< 4 * t /\ 4 * t < 3 * TicksToUs(t) + 3
  BY <1>1, TicksToUsBounds
<1> QED BY <1>1, <1>2

\* The arithmetic of the decision in SetCompare: if a time not overdue by more
\* than MaxPast passes the test, it is ahead, and ahead by at least the guard
\* unless its tick is within the guard after the reload.
LEMMA TestIsGuarded ==
    ASSUME NEW cur \in Ticks, NEW cmp \in Ticks, NEW due \in Int,
           due = Ahead(cur, cmp) \/ due = Ahead(cur, cmp) - Period,
           due >= -MaxPast,
           WordSub(WordSub(cmp, Guard), cur) < MaxCompareDuration
    PROVE  due >= 1 /\ (cmp >= Guard => due >= Guard)
<1> USE QAssumption, GuardAssumption, MaxPastAssumption, MaxLagAssumption
        DEF Ticks, Period, MaxCompareDuration, Ahead
<1>1. cmp >= Guard => WordSub(cmp, Guard) = cmp - Guard
  BY DEF WordSub
<1>2. cmp < Guard => WordSub(cmp, Guard) = cmp - Guard + 4 * Q
  BY DEF WordSub
<1>3. CASE cmp < Guard
  <2>1. WordSub(cmp, Guard) >= cur
    BY <1>2, <1>3
  <2>2. cmp - Guard + 4 * Q - cur < 2 * Q - 1
    BY <1>2, <1>3, <2>1 DEF WordSub
  <2> QED BY <1>3, <2>2
<1>4. CASE cmp >= Guard /\ cmp - Guard >= cur
  BY <1>1, <1>4 DEF WordSub
<1>5. CASE cmp >= Guard /\ cmp - Guard < cur
  BY <1>1, <1>5 DEF WordSub
<1> QED BY <1>3, <1>4, <1>5

\* The converse: a time that fails the test is within the guard or past, or lies
\* after the reload and so far ahead that the word subtraction makes it past.
LEMMA TestFindsFar ==
    ASSUME NEW cur \in Ticks, NEW cmp \in Ticks, NEW due \in Int,
           due = Ahead(cur, cmp) \/ due = Ahead(cur, cmp) - Period,
           due >= -MaxPast, 2 * due < Period,
           ~(WordSub(WordSub(cmp, Guard), cur) < MaxCompareDuration)
    PROVE  due < Guard \/ (cmp < cur /\ due >= Q + Guard - 1)
<1> USE QAssumption, GuardAssumption, MaxPastAssumption, MaxLagAssumption
        DEF Ticks, Period, MaxCompareDuration, Ahead
<1> SUFFICES ASSUME due >= Guard PROVE cmp < cur /\ due >= Q + Guard - 1
  OBVIOUS
<1>1. due = cmp - cur \/ (cmp < cur /\ due = cmp - cur + 3 * Q)
  OBVIOUS
<1>2. due =< 2 * Q - 2
  OBVIOUS
<1>3. WordSub(WordSub(cmp, Guard), cur) \in {cmp - Guard - cur, cmp - Guard - cur + 4 * Q}
  <2>1. CASE cmp >= Guard
    BY <2>1 DEF WordSub
  <2>2. CASE cmp < Guard
    BY <2>2 DEF WordSub
  <2> QED BY <2>1, <2>2
<1>4. due # cmp - cur
  <2> SUFFICES ASSUME due = cmp - cur PROVE FALSE
    OBVIOUS
  <2>1. WordSub(WordSub(cmp, Guard), cur) = due - Guard
    BY DEF WordSub
  <2> QED BY <1>2, <2>1
<1> QED BY <1>1, <1>3, <1>4

----------------------------------------------------------------------------
\* The timer is closed and nothing is requested.
LEMMA InitIInv == Init => IInv
  BY QAssumption, GuardAssumption, MaxLagAssumption, MaxPastAssumption, MaxReplaceAssumption
  DEF Init, IInv, TypeOK, Congruent, InCall, Armed, Bounded, Timely, Caused, Asked, Pending, Ticks, Period, Word

\* EMBENET_TIMER_Init and Deinit drop the request.
LEMMA OpenCloseKeepsIInv == ASSUME IInv, TimerInit \/ TimerDeinit PROVE IInv'
  BY QAssumption, GuardAssumption, MaxLagAssumption, MaxPastAssumption, MaxReplaceAssumption
  DEF IInv, TypeOK, Congruent, InCall, Armed, Bounded, Timely, Caused, Asked, TimerInit, TimerDeinit,
      NoRequest, call, Ticks, Period, Word

\* A tick moves the counter towards the match register, and raises the match
\* status when it gets there.
LEMMA TickKeepsIInv == ASSUME IInv, Tick PROVE IInv'
<1> USE QAssumption, GuardAssumption, MaxLagAssumption, MaxPastAssumption
        DEF Period, Ticks
<1>1. TypeOK' /\ counter' \in Ticks
  <2>1. counter' \in Ticks
    BY DEF IInv, TypeOK, Tick
  <2>2. left' \in -(Period + MaxPast) .. Period
    BY DEF IInv, TypeOK, Tick, Prompt, Armed, Bounded, Timely, InCall, Congruent
  <2>3. lag' \in 0 .. MaxLag
    BY DEF IInv, TypeOK, Tick
  <2> QED BY <2>1, <2>2, <2>3 DEF IInv, TypeOK, Tick
<1>2. Congruent'
  BY <1>1 DEF IInv, TypeOK, Tick, Congruent, Ahead
<1>3. InCall'
  <2>1. ASSUME pc # "none"
        PROVE  left' + lag' >= -MaxPast /\ left' >= -MaxPast
    BY <2>1 DEF IInv, TypeOK, Tick, InCall, Prompt
  <2>2. ASSUME pc # "none"
        PROVE  counter' = IF currentValue + lag' >= Period
                          THEN currentValue + lag' - Period ELSE currentValue + lag'
    BY <2>2 DEF IInv, TypeOK, Tick, InCall
  <2>3. ASSUME pc # "none" PROVE left' + lag' = left + lag /\ req = "waiting"
    BY <2>3 DEF IInv, TypeOK, Tick, InCall
  <2> QED BY <2>1, <2>2, <2>3 DEF IInv, Tick, InCall, Ahead
<1>4. Bounded'
  BY DEF IInv, TypeOK, Tick, Prompt, Armed, Bounded, Timely, InCall, Congruent
<1>5. Armed'
  <2> SUFFICES ASSUME req = "waiting", pc = "none" PROVE Armed'
    BY DEF Armed, Tick
  <2>1. CASE Pending
    BY <2>1 DEF IInv, TypeOK, Tick, Armed, Pending
  <2>2. CASE ~Pending
    <3>1. hTimer = "open" /\ imr = 1 /\ match = arg
          /\ left > (IF arg >= Guard THEN 0 ELSE -Period)
      BY <2>2 DEF IInv, Armed
    <3>2. left' = left - 1
      BY DEF Tick, IInv, TypeOK, Bounded
    <3>3. CASE left' > (IF arg >= Guard THEN 0 ELSE -Period)
      BY <3>1, <3>3 DEF Tick, Armed
    <3>4. CASE left' = (IF arg >= Guard THEN 0 ELSE -Period)
      <4>1. counter' = arg
        BY <1>1, <1>2, <3>4 DEF Congruent, Ahead, IInv, TypeOK, Tick
      <4> QED BY <3>1, <4>1 DEF Tick, Armed, Pending
    <3> QED BY <3>1, <3>2, <3>3, <3>4 DEF IInv, TypeOK
  <2> QED BY <2>1, <2>2
<1>6. Timely'
  <2> SUFFICES ASSUME (req = "waiting" /\ pc = "none" /\ Pending') \/ req = "called"
               PROVE  left' >= -MaxPast \/ left' =< -Period
    BY DEF Timely, Tick
  <2>1. left' = left - 1
    BY DEF Tick, IInv, TypeOK, Bounded
  <2>2. CASE Pending \/ req = "called"
    BY <2>1, <2>2 DEF Tick, Prompt, IInv, Timely, TypeOK
  <2>3. CASE ~Pending /\ req # "called"
    <3>1. match = arg /\ counter' = match
      BY <2>3 DEF IInv, TypeOK, Armed, Pending, Tick
    <3>2. Ahead(counter', arg') = 0
      BY <1>1, <3>1 DEF Ahead, Tick
    <3> QED BY <1>2, <3>2 DEF Congruent, Tick
  <2> QED BY <2>2, <2>3
<1>7. Caused' /\ Asked'
  <2>1. Asked'
    BY DEF IInv, Asked, Tick
  <2>2. ASSUME req = "waiting", pc = "none", cause = "match", ris' = 1
        PROVE  left' =< 0
    <3>1. match = arg /\ left' = left - 1 /\ (ris = 1 => left =< 0)
      BY <2>2 DEF IInv, Caused, Tick, TypeOK, Bounded
    <3>2. CASE ris = 1
      BY <3>1, <3>2 DEF IInv, TypeOK
    <3>3. CASE ris # 1
      <4>1. counter' = arg'
        BY <2>2, <3>1, <3>3 DEF Tick
      <4>2. Ahead(counter', arg') = 0
        BY <1>1, <3>1, <4>1 DEF Ahead, Tick
      <4> QED BY <1>2, <2>2, <4>2 DEF Congruent, Tick
    <3> QED BY <3>2, <3>3
  <2>3. left' = left - 1 \/ left' = left
    BY DEF Tick
  <2> QED BY <2>1, <2>2, <2>3 DEF IInv, TypeOK, Caused, Tick
<1> QED BY <1>1, <1>2, <1>3, <1>4, <1>5, <1>6, <1>7 DEF IInv

\* The stack asks again for what is ahead, in ticks as in microseconds.
LEMMA AgainIsAhead ==
    ASSUME IInv, SetCompareAgain
    PROVE  Ahead(counter, arg) =< UsToTicks(MaxCompareDuration)
<1> DEFINE ahead == WordSub(asked, TicksToUs(counter))
<1>1. counter \in Ticks /\ asked \in Word /\ arg = UsToTicks(asked)
  BY DEF SetCompareAgain, IInv, TypeOK, Asked
<1>2. counter \in Nat /\ asked \in Nat /\ MaxCompareDuration \in Int
  BY <1>1, QAssumption DEF Ticks, Word, MaxCompareDuration
<1>3. TicksToUs(counter) \in Nat
  BY <1>2, TicksToUsBounds
<1>4. ahead \in Int
  BY <1>2, <1>3, QAssumption DEF WordSub
<1>5. ahead # 0 /\ ~(ahead > MaxCompareDuration)
  BY DEF SetCompareAgain, IsReached, ReadCounter, EMBENET_TIMER_GetMaxCompareDuration
<1> HIDE DEF ahead
<1>6. ahead =< MaxCompareDuration
  BY <1>2, <1>4, <1>5
<1> QED BY <1>1, <1>5, <1>6, AheadInTicks DEF ahead

\* A call takes its sample, for a new time or for the time of the request.
LEMMA CallKeepsIInv ==
    ASSUME IInv, (\E compareValue \in Word : SetCompareCall(compareValue)) \/ SetCompareAgain
    PROVE  IInv'
<1> USE QAssumption, GuardAssumption, MaxLagAssumption, MaxPastAssumption,
        MaxReplaceAssumption DEF Period, Ticks
<1> DEFINE half == UsToTicks(MaxCompareDuration)
<1>1. ASSUME SetCompareAgain PROVE IInv'
  <2>1. counter \in Ticks /\ asked \in Word /\ arg \in Ticks /\ arg = UsToTicks(asked)
    BY <1>1 DEF SetCompareAgain, IInv, TypeOK, Asked
  <2>2. Ahead(counter, arg) =< half
    BY <1>1, AgainIsAhead
  <2>3. half \in Nat /\ 2 * half < Period /\ Ahead(counter, arg) \in Ticks
    BY <2>1, UsToTicksRange, AheadRange
  <2> HIDE DEF half
  <2>4. left' = Ahead(counter, arg)
    BY <1>1, <2>2 DEF SetCompareAgain, Left, half
  <2>5. left' \in Ticks /\ 2 * left' < Period
    BY <2>2, <2>3, <2>4
  <2>6. /\ req' = "waiting" /\ pc' = "enable" /\ currentValue' = counter /\ arg' = arg
        /\ lag' = 0 /\ counter' = counter /\ hTimer' = "open" /\ asked' = asked
    BY <1>1 DEF SetCompareAgain, hw
  <2>7. TypeOK'
    BY <1>1, <2>5, <2>6 DEF SetCompareAgain, IInv, TypeOK, hw
  <2>8. Congruent' /\ InCall' /\ Bounded'
    <3>1. Ahead(counter', arg') = left' /\ Ahead(currentValue', arg') = left'
      BY <2>4, <2>6 DEF Ahead
    <3>2. \A ahead \in Int : ahead + lag' = ahead
      BY <2>6
    <3>3. left' + lag' = left'
      BY <2>5, <3>2
    <3>4. Congruent'
      BY <2>6, <3>1 DEF Congruent
    <3>5. InCall'
      <4>1. currentValue' + lag' = currentValue'
        BY <2>1, <2>6, <3>2
      <4>2. left' >= -MaxPast /\ left' + lag' >= -MaxPast
        BY <2>5, <3>3
      <4>3. counter' = currentValue' /\ ~(currentValue' >= Period)
        BY <2>1, <2>6
      <4>4. counter' = IF currentValue' + lag' >= Period
                       THEN currentValue' + lag' - Period ELSE currentValue' + lag'
        BY <4>1, <4>3, Zenon
      <4>5. left' + lag' = Ahead(currentValue', arg')
        BY <3>1, <3>3, Zenon
      <4> QED BY <2>6, <4>2, <4>4, <4>5, Zenon DEF InCall
    <3>6. Bounded'
      <4>1. left' >= -Period - MaxPast
        BY <2>5
      <4> QED BY <2>5, <3>3, <4>1 DEF Bounded
    <3> QED BY <3>4, <3>5, <3>6
  <2>9. Armed' /\ Timely' /\ Caused' /\ Asked'
    BY <2>1, <2>6 DEF Armed, Timely, Caused, Asked
  <2> QED BY <2>7, <2>8, <2>9 DEF IInv
<1>2. ASSUME NEW time \in Word, SetCompareCall(time) PROVE IInv'
  <2>1. arg' \in Ticks /\ half \in Nat /\ 2 * half < Period
    BY <1>2, UsToTicksRange DEF SetCompareCall
  <2>2. Ahead(counter, arg') \in Ticks
    <3>1. counter \in Ticks
      BY DEF IInv, TypeOK
    <3> QED BY <2>1, <3>1, AheadRange
  <2>3. left' = IF Ahead(counter, arg') =< half
                THEN Ahead(counter, arg') ELSE Ahead(counter, arg') - Period
    BY <1>2 DEF SetCompareCall, Left
  <2> HIDE DEF half
  <2>4. left' \in Int /\ left' >= -MaxPast /\ 2 * left' < Period
    BY <1>2, <2>1, <2>2, <2>3 DEF SetCompareCall
  <2>5. TypeOK'
    BY <1>2, <2>1, <2>4 DEF SetCompareCall, IInv, TypeOK, hw
  <2>6. /\ req' = "waiting" /\ pc' = "enable" /\ currentValue' = counter
        /\ lag' = 0 /\ counter' = counter /\ hTimer' = "open"
    BY <1>2 DEF SetCompareCall, hw
  <2>7. Congruent' /\ InCall'
    <3>1. Ahead(counter', arg') = Ahead(counter, arg')
          /\ Ahead(currentValue', arg') = Ahead(counter, arg')
      BY <2>6 DEF Ahead
    <3> QED BY <2>3, <2>4, <2>5, <2>6, <3>1 DEF Congruent, InCall, IInv, TypeOK
  <2>8. Armed'
    BY <2>6 DEF Armed
  <2>9. Bounded'
    <3>1. left' >= -Period - MaxPast
      BY <2>4
    <3>2. left' + lag' = left'
      <4>1. \A ahead \in Int : ahead + lag' = ahead
        BY <2>6
      <4> QED BY <2>4, <4>1
    <3>3. 2 * left' < Period
      BY <2>4
    <3> QED BY <3>1, <3>2, <3>3 DEF Bounded
  <2>10. Timely' /\ Caused' /\ Asked'
    BY <1>2, <2>6 DEF Timely, Caused, Asked, SetCompareCall
  <2> QED BY <2>5, <2>7, <2>8, <2>9, <2>10 DEF IInv
<1> QED BY <1>1, <1>2

\* The rest of the call leaves the interrupt pending or the match ahead.
LEMMA WriteKeepsIInv ==
    ASSUME IInv, SetCompareEnable \/ SetCompareSchedule \/ SetCompareTrigger
    PROVE  IInv'
<1> USE QAssumption, GuardAssumption, MaxLagAssumption, MaxPastAssumption,
        MaxReplaceAssumption DEF Period, Ticks
<1>1. CASE SetCompareEnable
  BY <1>1 DEF SetCompareEnable, IInv, TypeOK, Congruent, InCall, Armed, Bounded, Timely,
     Caused, Asked, request, Ahead
<1>2. CASE SetCompareTrigger
  <2>1. /\ pc = "write" /\ hTimer = "open" /\ req = "waiting" /\ left >= -MaxPast
        /\ left + lag >= -MaxPast /\ left \in Int /\ lag \in Nat /\ 2 * (left + lag) < Period
        /\ left + lag = Ahead(currentValue, arg)
              \/ left + lag = Ahead(currentValue, arg) - Period
    BY <1>2 DEF SetCompareTrigger, IInv, InCall, TypeOK, Bounded
  <2>2. ~(arg < currentValue) => left < Guard
    <3>1. left + lag \in Int
      BY <2>1
    <3>2. left + lag < Guard \/ arg < currentValue
      BY <1>2, <2>1, <3>1, TestFindsFar DEF SetCompareTrigger, IsAhead, IInv, TypeOK
    <3> QED BY <2>1, <3>2
  <2>3. TypeOK' /\ Congruent' /\ InCall' /\ Bounded'
    BY <1>2, <2>1 DEF SetCompareTrigger, ReturnCall, IInv, TypeOK, Congruent, InCall,
       Bounded, Ahead
  <2>4. Armed' /\ Timely' /\ Caused' /\ Asked'
    BY <1>2, <2>1, <2>2 DEF SetCompareTrigger, ReturnCall, IInv, Armed, Timely, Caused,
       Asked, Pending
  <2> QED BY <2>3, <2>4 DEF IInv
<1>3. CASE SetCompareSchedule
  <2>1. /\ pc = "write" /\ hTimer = "open" /\ req = "waiting" /\ imr = 1
        /\ left + lag >= -MaxPast /\ left + lag \in Int
        /\ left + lag = Ahead(currentValue, arg)
              \/ left + lag = Ahead(currentValue, arg) - Period
    BY <1>3 DEF SetCompareSchedule, IInv, InCall, TypeOK
  <2>2. left + lag >= 1 /\ (arg >= Guard => left + lag >= Guard)
    BY <1>3, <2>1, TestIsGuarded DEF SetCompareSchedule, IsAhead, IInv, TypeOK
  <2>3. left > (IF arg >= Guard THEN 0 ELSE -Period)
    BY <2>2 DEF IInv, TypeOK
  <2>4. TypeOK' /\ Congruent' /\ Bounded'
    BY <1>3 DEF SetCompareSchedule, ReturnCall, IInv, TypeOK, Congruent, Bounded,
       Ahead, Word
  <2>5. Armed' /\ InCall' /\ Timely'
    <3>1. left >= -MaxPast
      BY <1>3 DEF SetCompareSchedule, IInv, InCall
    <3> QED BY <1>3, <2>1, <2>3, <3>1 DEF SetCompareSchedule, ReturnCall, Armed, InCall, Timely
  <2>6. Caused' /\ Asked'
    BY <1>3 DEF SetCompareSchedule, ReturnCall, IInv, TypeOK, Caused, Asked
  <2> QED BY <2>4, <2>5, <2>6 DEF IInv
<1> QED BY <1>1, <1>2, <1>3

\* The handler leaves the request to the callback, which ends it or asks again.
LEMMA HandlerKeepsIInv == ASSUME IInv, IsrHandler \/ CallbackServes PROVE IInv'
<1> USE QAssumption, GuardAssumption, MaxPastAssumption, MaxReplaceAssumption,
        MaxLagAssumption
<1>1. CASE CallbackServes
  BY <1>1 DEF CallbackServes, NoRequest, IInv, TypeOK, Congruent, InCall, Armed, Bounded,
     Timely, Caused, Asked, call, hw, Ahead, Pending, Ticks, Period, Word
<1>2. CASE IsrHandler
  <2>1. pc = "none" /\ req' # "waiting" /\ (req' = "called" => req = "waiting")
        /\ (req' = "none" => req = "none")
    BY <1>2 DEF IsrHandler, IInv, TypeOK
  <2>2. TypeOK' /\ Congruent' /\ InCall' /\ Bounded'
    BY <1>2, <2>1 DEF IsrHandler, IInv, TypeOK, Congruent, InCall, Bounded, call, Ahead
  <2>3. Armed' /\ Timely' /\ Caused' /\ Asked'
    BY <1>2, <2>1 DEF IsrHandler, IInv, Armed, Timely, Caused, Asked, Pending
  <2> QED BY <2>2, <2>3 DEF IInv
<1> QED BY <1>1, <1>2

----------------------------------------------------------------------------
\* The inductive invariant holds in every reachable state.
THEOREM Inductive == Spec => []IInv
<1>1. IInv /\ [Next]_vars => IInv'
  <2> SUFFICES ASSUME IInv, [Next]_vars PROVE IInv'
    OBVIOUS
  <2>1. CASE Next
    BY <2>1, OpenCloseKeepsIInv, TickKeepsIInv, CallKeepsIInv, WriteKeepsIInv,
       HandlerKeepsIInv DEF Next, SetCompare, Callback
  <2>2. CASE UNCHANGED vars
    BY <2>2 DEF vars, hw, call, request, IInv, TypeOK, Congruent, InCall, Armed,
       Bounded, Timely, Caused, Asked, Pending, Ahead
  <2> QED BY <2>1, <2>2
<1> QED BY <1>1, InitIInv, PTL DEF Spec

\* The count stays below the load value, and a request is overdue by no more
\* than the latency, or a period and the latency.
THEOREM TypeCorrect == Spec => []TypeOK
<1>1. IInv => TypeOK
  BY DEF IInv
<1> QED BY <1>1, Inductive, PTL

\* No compare time of EMBENET_TIMER_SetCompare is missed, except within the
\* guard after the counter's reload.
THEOREM NeverMissed == Spec => []CompareNeverMissed
<1>1. IInv => CompareNeverMissed
  BY DEF IInv, Armed, CompareNeverMissed
<1> QED BY <1>1, Inductive, PTL

\* embenet_timer.c:93-95: a time that SetCompare leaves to the match register was
\* at least the guard ahead of its sample of the counter, except within the guard
\* after the counter's reload.
THEOREM GuardIsKept == Spec => GuardKept
<1> DEFINE Kept == SetCompareSchedule /\ arg >= Guard => left + lag >= Guard
<1>1. IInv /\ [Next]_vars => [Kept]_vars
  <2> SUFFICES ASSUME IInv, SetCompareSchedule, arg >= Guard PROVE left + lag >= Guard
    OBVIOUS
  <2>1. /\ pc = "write" /\ WordSub(WordSub(arg, Guard), currentValue) < MaxCompareDuration
    BY DEF SetCompareSchedule, IsAhead
  <2>2. /\ left + lag = Ahead(currentValue, arg) \/ left + lag = Ahead(currentValue, arg) - Period
        /\ left + lag >= -MaxPast /\ left + lag \in Int
        /\ currentValue \in Ticks /\ arg \in Ticks
    BY <2>1, QAssumption, MaxPastAssumption, MaxLagAssumption, GuardAssumption
       DEF IInv, TypeOK, InCall, Period
  <2> QED BY <2>1, <2>2, TestIsGuarded
<1>2. GuardKept <=> [][Kept]_vars
  BY DEF GuardKept
<1> HIDE DEF Kept
<1> QED BY <1>1, <1>2, Inductive, PTL DEF Spec

\* embenet_timer.c:93-98: what SetCompare triggers at once was within the guard or
\* past, or beyond the reload and taken for past.
THEOREM FarTimesWait == Spec => FarIsScheduled
<1> DEFINE Far ==
      SetCompareTrigger => \/ left + lag < Guard
                           \/ arg < currentValue /\ left + lag >= Q + Guard - 1
<1>1. IInv /\ [Next]_vars => [Far]_vars
  <2> SUFFICES ASSUME IInv, SetCompareTrigger
               PROVE  \/ left + lag < Guard
                      \/ arg < currentValue /\ left + lag >= Q + Guard - 1
    OBVIOUS
  <2>1. pc = "write" /\ ~(WordSub(WordSub(arg, Guard), currentValue) < MaxCompareDuration)
    BY DEF SetCompareTrigger, IsAhead
  <2>2. /\ left + lag = Ahead(currentValue, arg) \/ left + lag = Ahead(currentValue, arg) - Period
        /\ left + lag >= -MaxPast /\ left + lag \in Int
        /\ currentValue \in Ticks /\ arg \in Ticks
    BY <2>1, QAssumption, MaxPastAssumption, MaxLagAssumption, GuardAssumption
       DEF IInv, TypeOK, InCall, Period
  <2>3. 2 * (left + lag) < Period
    BY DEF IInv, Bounded
  <2> QED BY <2>1, <2>2, <2>3, TestFindsFar
<1>2. FarIsScheduled <=> [][Far]_vars
  BY DEF FarIsScheduled
<1> HIDE DEF Far
<1> QED BY <1>1, <1>2, Inductive, PTL DEF Spec

----------------------------------------------------------------------------
(* The timer is that of the header.                                        *)

\* embenet_timer.h:73: with every tick the time read goes on by one or two
\* microseconds, also when the counter is reloaded.
LEMMA TickAdvances == ASSUME IInv, Tick PROVE Interface!Advance
<1> USE QAssumption DEF Period, Ticks
<1>1. counter \in Nat /\ counter' \in Nat /\ counter < 3 * Q
      /\ counter' = IF counter = 3 * Q - 1 THEN 0 ELSE counter + 1
  BY DEF IInv, TypeOK, Tick
<1>2. /\ TicksToUs(counter) \in Nat /\ 3 * TicksToUs(counter) =< 4 * counter
      /\ 4 * counter < 3 * TicksToUs(counter) + 3
      /\ TicksToUs(counter') \in Nat /\ 3 * TicksToUs(counter') =< 4 * counter'
      /\ 4 * counter' < 3 * TicksToUs(counter') + 3
  BY <1>1, TicksToUsBounds
<1>3. \E us \in 1 .. 2 :
          TicksToUs(counter') = IF TicksToUs(counter) + us >= 4 * Q
                                THEN TicksToUs(counter) + us - 4 * Q ELSE TicksToUs(counter) + us
  <2> DEFINE now == TicksToUs(counter)
             next == TicksToUs(counter')
  <2>1. next = now + 1 \/ next = now + 2 \/ (next = 0 /\ now + 2 = 4 * Q)
    BY <1>1, <1>2
  <2>2. next < 4 * Q /\ now < 4 * Q
    BY <1>1, <1>2
  <2> HIDE DEF now, next
  <2> QED BY <1>2, <2>1, <2>2 DEF now, next
<1> QED BY <1>3 DEF Tick, ReadCounter, Interface!Advance

\* embenet_timer.h:57-65: a request that is due, or at most the guard ahead, is
\* reached in the header's sense, microseconds and the reload included.
LEMMA DueIsReached ==
    ASSUME IInv, IsrHandler, req = "waiting", left < Guard
    PROVE  Interface!Reached(asked)
<1> USE QAssumption, GuardAssumption, MaxLagAssumption, MaxPastAssumption DEF Period, Ticks
<1> DEFINE now == TicksToUs(counter)
           guard == TicksToUs(Guard) + 1
           ahead == IF asked >= now THEN asked - now ELSE asked - now + 4 * Q
<1>1. /\ counter \in Nat /\ counter < 3 * Q /\ arg \in Nat /\ arg < 3 * Q
      /\ asked \in Nat /\ asked < 4 * Q /\ left \in Int
  BY DEF IInv, TypeOK, Word
<1>2. left >= -MaxPast \/ (left =< -3 * Q /\ left >= -3 * Q - MaxPast)
  BY DEF IInv, TypeOK, Timely, IsrHandler, Bounded
<1>3. /\ now \in Nat /\ 3 * now =< 4 * counter /\ 4 * counter < 3 * now + 3
      /\ 4 * arg =< 3 * asked /\ 3 * asked < 4 * arg + 4
  <2>1. arg = UsToTicks(asked)
    BY DEF IInv, Asked
  <2> QED BY <1>1, <2>1, TicksToUsBounds, UsToTicksBounds
<1>4. guard \in Nat /\ 4 * Guard < 3 * guard
  <2>1. TicksToUs(Guard) \in Nat /\ 4 * Guard < 3 * TicksToUs(Guard) + 3
    BY TicksToUsBounds
  <2> QED BY <2>1
<1>5. \/ left > 0 /\ (left = arg - counter \/ (arg < counter /\ left = arg - counter + 3 * Q))
      \/ arg = counter
      \/ arg > counter /\ arg - counter >= 3 * Q - MaxPast
      \/ arg < counter /\ counter - arg =< MaxPast
  <2>1. \/ left = Ahead(counter, arg)
        \/ left = Ahead(counter, arg) - 3 * Q
        \/ left = Ahead(counter, arg) - 6 * Q
    BY DEF IInv, Congruent
  <2>2. CASE arg >= counter
    <3>1. Ahead(counter, arg) = arg - counter
      BY <1>1, <2>2 DEF Ahead
    <3> QED BY <1>1, <1>2, <2>1, <2>2, <3>1
  <2>3. CASE arg < counter
    <3>1. Ahead(counter, arg) = arg - counter + 3 * Q
      BY <1>1, <2>3 DEF Ahead
    <3> QED BY <1>1, <1>2, <2>1, <2>3, <3>1
  <2> QED BY <1>1, <2>2, <2>3
<1> HIDE DEF now, guard
<1>6. ahead =< guard \/ ahead > 2 * Q - 1
  <2>1. CASE left > 0 /\ left = arg - counter
    <3>1. asked >= now /\ 3 * (asked - now) =< 4 * left + 5
      BY <1>1, <1>3, <2>1
    <3> QED BY <1>1, <1>3, <1>4, <3>1
  <2>2. CASE left > 0 /\ arg < counter /\ left = arg - counter + 3 * Q
    <3>1. 3 * (asked - now + 4 * Q) =< 4 * left + 5
      BY <1>1, <1>3, <2>2
    <3>2. asked < now
      BY <1>1, <1>3, <3>1
    <3> QED BY <1>1, <1>3, <1>4, <3>1, <3>2
  <2>3. CASE arg = counter
    BY <1>1, <1>3, <1>4, <2>3
  <2>4. CASE arg > counter /\ arg - counter >= 3 * Q - MaxPast
    <3>1. asked >= now /\ 3 * (asked - now) >= 4 * (2 * Q + 1)
      BY <1>1, <1>3, <2>4
    <3> QED BY <1>1, <1>3, <3>1
  <2>5. CASE arg < counter /\ counter - arg =< MaxPast
    <3>1. asked =< now /\ 3 * (now - asked) =< 4 * (Q - 1)
      BY <1>1, <1>3, <2>5
    <3> QED BY <1>1, <1>3, <1>4, <3>1
  <2> QED BY <1>5, <2>1, <2>2, <2>3, <2>4, <2>5
<1> QED BY <1>6 DEF Interface!Reached, ReadCounter, EMBENET_TIMER_GetMaxCompareDuration,
           MaxCompareDuration, now, guard

\* embenet_timer.h:43-86: every behaviour of the timer is one of the header's, but for
\* the callbacks that an earlier request or the reload causes.
THEOREM Implements == Spec => ImplementsInterface
<1> DEFINE Step == Interface!Next \/ CalledEarly
<1>1. Init => Interface!Init
  BY QAssumption DEF Init, Interface!Init, Interface!NoCompare, ReadCounter, TicksToUs
<1>2. IInv /\ [Next]_vars => [Step]_(Interface!vars)
  <2> SUFFICES ASSUME IInv, Next PROVE Step \/ UNCHANGED Interface!vars
    BY DEF vars, hw, call, request, Interface!vars, ReadCounter
  <2> USE DEF Interface!NoCompare, ReadCounter
  <2>1. CASE TimerInit
    BY <2>1 DEF TimerInit, NoRequest, TicksToUs, Interface!TimerInit, Interface!Next
  <2>2. CASE TimerDeinit
    BY <2>2 DEF TimerDeinit, NoRequest, Interface!Deinit, Interface!Next
  <2>3. CASE Tick
    BY <2>3, TickAdvances DEF Interface!Next
  <2>4. ASSUME NEW compareValue \in Word, SetCompareCall(compareValue) PROVE Step
    <3>1. Interface!SetCompare(compareValue)
      BY <2>4 DEF SetCompareCall, hw, Interface!SetCompare
    <3> QED BY <3>1 DEF Interface!Next, Word
  <2>5. CASE SetCompareAgain
    <3>1. Interface!SetCompare(asked) /\ asked \in Word
      BY <2>5 DEF SetCompareAgain, hw, Interface!SetCompare, IInv, TypeOK
    <3> QED BY <3>1 DEF Interface!Next, Word
  <2>6. CASE SetCompareEnable \/ SetCompareSchedule \/ SetCompareTrigger
    BY <2>6 DEF SetCompareEnable, SetCompareSchedule, SetCompareTrigger, request, Interface!vars
  <2>7. CASE CallbackServes
    BY <2>7 DEF CallbackServes, NoRequest, hw, Interface!vars
  <2>8. CASE IsrHandler
    <3>1. CASE req # "waiting"
      BY <2>8, <3>1 DEF IsrHandler, Interface!vars
    <3>2. CASE req = "waiting" /\ cause \in {"stale", "below"}
      BY <2>8, <3>2 DEF CalledEarly
    <3>3. CASE req = "waiting" /\ cause \notin {"stale", "below"}
      <4>1. left < Guard
        BY <2>8, <3>3, GuardAssumption, MaxLagAssumption
        DEF IsrHandler, IInv, TypeOK, Caused, Pending
      <4>2. Interface!Reached(asked) /\ asked # -1
        BY <2>8, <3>3, <4>1, DueIsReached DEF IInv, TypeOK, Word
      <4> QED BY <2>8, <3>3, <4>2 DEF IsrHandler, Interface!CompareCallback, Interface!Next
    <3> QED BY <3>1, <3>2, <3>3
  <2> QED BY <2>1, <2>2, <2>3, <2>4, <2>5, <2>6, <2>7, <2>8 DEF Next, SetCompare, Callback
<1>3. ImplementsInterface <=> Interface!Init /\ [][Step]_(Interface!vars)
  BY DEF ImplementsInterface
<1> HIDE DEF Step
<1> QED BY <1>1, <1>2, <1>3, Inductive, PTL DEF Spec
=============================================================================
