# embeNET demo for the CC1312R: TLA+ models and proofs

The repository is the firmware of a node of an embeNET mesh network on TI's
CC1312R: a demo application (`src/main.c` and two services), the *port* of the
stack to the chip (`src/embenet_node_port/src/*.c`, behind the headers in
`src/embenet_node_port_interface/include/embenet/`), and the stack itself, which
is a binary library (`src/embenet_node/lib`) with public headers. Paths below
are relative to `src/`; `embenet_x.c` is the port's file, `embenet_x.h` its
interface header.

There is no RTOS. The contexts of the program are, by rising priority:

1. the main loop: `EMBENET_NODE_Proc`, which runs due tasks and pending
   callbacks one after another, and `mqttsn_client_service_proc`;
2. the software interrupt of the RF driver (`RF.softwareInterruptPriority = 1`
   in the `.syscfg`): `rxProcessCb` and `txProcessCb`;
3. the hardware interrupt of the compare timer (`Timer1.interruptPriority = 6`):
   `EMBENET_TIMER_ISR_Handler` and, in it, the MAC of the stack, which calls the
   radio.

So the MAC preempts the radio's callbacks, the radio's callbacks preempt the
main loop, and data they share is protected by the port's critical section or
by nothing.

## Inventory

| Component | Source | State | Operations | Hard because | Correct if |
|---|---|---|---|---|---|
| Critical section | `embenet_critical_section.c` | `irqNestCounter`, `key`, PRIMASK | `Enter`, `Exit` from any context, nested | an interrupt may come between any two instructions before interrupts are masked; one `key` for all | sections exclude each other; the mask found is the mask restored |
| Timer | `embenet_timer.c` | GPTimer counter, match register, interrupt enable and pending | `Init`, `Deinit`, `SetCompare`, `ReadCounter`, `GetMaxCompareDuration`, ISR | the counter runs while `SetCompare` decides; a tick is 4/3 us and the counter reloads at 3·2^30, not 2^32 | no compare time is missed; it is the clock of the header; the guard is kept |
| Radio | `embenet_radio.c` | `idle`, two command handles, receive entry, packet and frame buffers, power, channels, handlers; RF driver queue and events | `Init`, `Deinit`, `SetCallbacks`, `Idle`, `TxEnable`, `TxNow`, `RxEnable`, `RxNow`, `GetReceivedFrame`, `StartContinuousTx`, two callbacks | three actors; late and merged events; aborts that race with completions | it is the transceiver of the header; `Idle` silences, frames end, the packet handed out is the one received |
| Border router link | `embenet_brt.c` | frame buffer, decoder flags, UART | `Init`, `Deinit`, `Send`, `Receive`, `SendRaw`, `ReceiveRaw`, `IsBusy`, `Reset` | bytes lost in both UART rings, by raw reads, by closing and by a reset | it is a channel that loses packets but neither reorders nor makes them up; framing recovers |
| AES | `embenet_aes128.c` | driver handle, one key for all | `Init`, `Deinit`, `SetKey`, `Encrypt`, `Decrypt` | the key is shared by the main loop and an interrupt; refused operations are ignored | who ciphers uses its own key |
| Random numbers | `embenet_random.c` | power dependency | `Get` | only the last of a hundred results is looked at | what it returns was written by the generator |
| MQTT-SN service | `mqttsn_client_service.c` | `serviceState`, task id, client, `lastTimestamp` | `init`, `start`, `stop`, `proc`, task, four callbacks | loss of the session or the network in every state; a state machine driven by acknowledgements | publishes only with registered topics; never stands still |
| Custom service | `custom_service.c` | task id, socket | `init`, `start`, `stop`, task, reception | a failed initialization is only reported; commands and task interleave with joining and leaving | its task goes on while joined, from a registered socket |
| Application | `main.c` | none of its own | `main`, `onJoined`, `onLeft`, reports | order of joining, leaving and the services' events; results are ignored | silent when it has left |
| Stack library | `embenet_node/` (binary, headers) | tasks, sockets, state of joining, MQTT-SN session, ENMS | `EMBENET_NODE_*`, `EMBENET_UDP_*`, `MQTTSN_CLIENT_*`, `ENMS_NODE_*`; calls back the application; its MAC calls the port | | external: modelled as far as the application and the port meet it |
| EUI64, capabilities | `embenet_eui64.c`, `embenet_capabilities.c` | none | getters | nothing | not modelled |

Interaction: the MAC calls the timer (`SetCompare`) and, from the compare
callback, the radio and AES; the radio's callbacks call the MAC's capture
handlers; the join protocol calls AES and the random numbers from the main loop;
the stack's bridge calls the border router link in the main loop of a root; the
stack calls the application's handlers, tasks and MQTT-SN callbacks from
`EMBENET_NODE_Proc`; these schedule and cancel tasks and drive the client.
The root build (`IS_ROOT=1`) has the link and, of the services, only ENMS; the
other build has all services and no link.

What the models say of the library beyond its headers was read from the symbols
and calls in its object files: that `MQTTSN_CLIENT_CleanConnect` registers the
UDP socket and unregisters it when it fails; that a client that gives up
unregisters its socket and cancels its tasks before it calls `onDisconnected`;
that `MQTTSN_CLIENT_Init` creates two tasks and `Deinit` destroys them; that
`ENMS_NODE_Init` leaves either a socket and a task or neither; that the MAC
synchronizes with `Idle`, `RxEnable`, `RxNow` in one compare interrupt; that its
frame security ciphers in that interrupt and the join protocol in the main loop,
without a critical section; that `SetCompare` is called with interrupts masked or
from the compare callback, so that the timer's handler never runs inside it (the port
does not see to that itself). `SendRaw`, `ReceiveRaw`, `IsBusy` and
`StartContinuousTx` have no caller in the library; they are modelled as calls that
may come.

The list of what is hard to test, line by line, with the property that covers
each, is `hazards` in `PROJECT.json`.

## Modules

    CriticalSection  <-  CriticalSectionProofs
    TimerInterface   <-  Timer        <-  TimerProofs
    RadioInterface   <-  Radio        <-  MCRadio, RadioProofs
    Channel          <-  Brt          <-  MCBrt (with Crc), BrtProofs
    Peripherals      <-  PeripheralsProofs
    Platform <- CustomService, EnmsService, MqttsnClient <- MqttsnService
                and Stack  <-  Node  <-  NodeProofs

`TimerInterface`, `RadioInterface` and `Channel` are what a header of the port promises,
without the data structures of the code: `TimerInterface` (a clock modulo 2^32 us and one
compare event, called back when its time is reached or at most the guard ahead),
`RadioInterface` (the state diagram of embenet_radio.h:10-64, the frame loaded and
the packet that can be fetched) and `Channel` (packets delivered in order, some of
them). Each detailed module has `ImplementsInterface`, or `ImplementsChannel`:
the abstract specification under a refinement mapping, checked as a property. Where the
code departs from its header, the property names the departure as an action of its own
that is allowed besides the header's (`CalledEarly`, `RxRefused`, `UnpreparedListen`,
`FrameCut`); the mapping hides none. Operators that begin with the comment "Fault" are variants of the definition
next to them with a plausible bug; no specification uses them.

### CriticalSection

Contexts are numbered by priority; `active` is the stack of those that have
been interrupted, and only the largest executes. `Enter` is four steps (test of
the counter, `HwiP_disable` with the store of `key`, load and store of `++`) and
`Exit` three (load and store of `--`, with the clamp, and the test with
`HwiP_restore`). The store of `key` is one step with the masking, because
nothing executes between them. `previousIrqState` is never assigned in the
code, so its test is always true. `ForeignDisable` and `ForeignRestore` are a
driver that masks interrupts itself around a call; they are what gives `key` two
values.

### Timer

Sizes are in `Q` = 2^30: `Period` = 3Q ticks, words of 4Q values, the largest
duration 2Q - 1 us. `SetCompare` is three steps (sample of the counter, enabling
of the match interrupt, write of the match register or `IntPendSet`) with up to
`MaxLag` ticks in between. The match sets the raw status also while it is
disabled, as in the GPTimer. `asked`, `arg` and `left` follow one request of the stack: the
compare value in microseconds, what it becomes in ticks, and the ticks until it is due.
`IsrHandler` calls back whatever raised the interrupt, as the code does. The callback
reads the clock: if the requested microsecond is reached (`IsReached`) it serves the
request, and if not it sets the same compare value again.

To the interface the compare value is the one in microseconds, and every callback is
one. It allows a callback up to its guard before the time, since the header treats such
times as past; the guard is that of the port in microseconds, rounded up, which also
takes up the two roundings of a tick. `cause` is a history of how `SetCompare` left the
request to an interrupt, for `CalledEarly`, which is what the code does and the header
forbids: the callback comes although the time is further ahead, because an earlier
request had raised something before the match register was written ("stale",
embenet_timer.c:92), or because a time below the count, beyond the reload, was taken for
past ("below", embenet_timer.c:93).

### Radio

`MacCall` is the functions of the port, each atomic, since nothing of the radio
preempts the compare interrupt; `Callback` is the two callbacks, in three steps
(test of `idle`; body; capture handler), between which any call of the MAC may
come; `RfCore` is the RF driver's queue, the synthesizer, frames and aborts. The
driver collects events of a command until its callback runs and hands them over
in one mask. A frame is a record of length and contents, a handle a model
value. `mac` is the transceiver's state as the header defines it, driven by
calls and capture handlers, and one more: `REFUSED`, after `RxEnable` has returned
WRONG_STATE because of the handle that an aborted reception leaves behind, and has set
nothing. `RF_open` may fail, which ends in the abort handler, and `StartContinuousTx`
runs a command that never ends. A received frame longer than RX_BUFFER_LENGTH is handed
on as none (line 317); `maxPktLen` keeps that from happening, which is an assumption
(`RxBufferAssumption`) and a lemma (`EntryFits`).

Three constants say what the environment does. `MacWaits`: the MAC wakes the
radio only when the callbacks of what it ended or aborted have run (a later slot).
It does so in operation; to synchronize it does not, which is the run
`radio_resync`. `SwiPrompt`: the software interrupt runs within the duration of a
frame (milliseconds at 50 kbit/s). `FsCanFail`: the synthesizer may not lock. In
the model the MAC goes on to `RxNow` from `REFUSED` (or back to `Idle`): if it did not, the
port would never receive again after an aborted reception.

### Brt, Crc

One direction of the link, byte by byte: `Send` begins a packet, `WriteByte` puts its
next byte in the transmit ring or drops it, `Transfer` moves a byte to the receive
ring or drops it, and each pass of the loop of `Receive` is one of four actions.
`EMBENET_BRT_Send` runs to completion in the code; here its bytes go one by
one, so that the receiver may run between any two. A byte on the line is a *place*:
the number of what was sent, the index of a byte of its frame, and which of two bytes
it is if that one is escaped. `Frame` is what `EMBENET_BRT_Send` writes before
`EMBENET_BRT_EncodeAndWrite` (`Escapes`, `ByteAt`, `Succ`) has escaped it. The
receiver reads `ByteAt` of a place and nothing else of it; the numbers are there for
the properties, and the order of places is the order of the bytes, which the proofs
use. The checksum is a constant operator `Fcs`; `Crc` has the table of
`EMBENET_BRT_CalculateCRC`, what `Send` makes of it, and, as the reference, the CRC of
HDLC computed bit by bit without a table (polynomial 0x8408, initial value 0xffff,
complemented). `SendRaw` puts unframed bytes
between the packets, `ReceiveRaw` takes bytes away from `Receive`, and the receiver may
be reset or its link closed in the middle of a frame (the statics stay when it is
closed). No checksum of two bytes detects every error. `ErrorsDetected` says that one does: the
checksum of the lossy instance is made so, and it is a hypothesis of the theorem
`Implements`, not a claim about the code.

### Peripherals

AES and random numbers share nothing but their pattern: a power dependency, a
driver that may refuse, and results that are ignored. A key is two halves, each
named by its owner, so that the copy of `SetKey` can be interrupted in the middle.
An operation takes the crypto resource, loads the key and ends, in three steps; one
that finds the resource taken is refused and the data stay as they are, which `block`
records as `Plain`. The
interrupt preempts the main loop between any two steps and runs to its end. `preempted`
is a history of that: whether a job of the interrupt has begun since the main loop's
last `SetKey` did. It guards nothing; `MainKeyed` needs it, to say that the main
loop ciphers with its own key unless it was preempted.

### Platform, Stack, CustomService, EnmsService, MqttsnClient, MqttsnService, Node

Times are relative to the present: `due[id]` is the time until a task is to run.
`TaskSchedule` refuses an invalid task and a time in the past, as
`embenet_node.h:289` says. Callbacks and tasks are atomic: all run to completion
in the main loop. `stack` is the life of the node (initialized, joining, joined),
each step of which may fail with nothing but a message. `MqttsnClient` is the
session of the library's client; `Reinit` is its `Deinit` and `Init`. A failure of
the network or of the gateway counts in `failures`. Until the border router's
address is known (`reachable`), `BorderRouterAddress` is whatever was on the stack
of the caller, which ignores the result; the client then times out.
`strncmp` in the reception handlers compares as many characters as the
message has or one past it; both are modelled, with the past-the-end one as a
choice. Two LEDs stand for the four. The payloads and their counters are left out.
`services` is what ENMS is told at the start. The clock may always advance between
`GetLocalTime` and `TaskSchedule` (`LocalTime` is 0 or -1), so that a schedule "now" is
refused as past, and a REGISTER or SUBSCRIBE may always fail to be sent. `missed` is a
history of the latest call by which the MQTT-SN service goes on: whether its time was
"past", its REGISTER "unsent", or "nothing" went wrong. `mqttsn_client_service_proc` reads
the button twice, and the two readings may differ. With `StackRejoins` a node that has left may join again without a call of `Join`, which is the case with
more behaviours: whether the library does so cannot be read from it.

## What the runs show

| Run | Module, configuration | States | Checks |
|---|---|---|---|
| critical_section | CriticalSection | 1 692 | `MutualExclusion`, `MaskRestored`, `KeyStable`: main loop and two interrupt levels, sections nested twice |
| timer | Timer | 131 827 | `CompareNeverMissed`, `GuardKept`, `FarIsScheduled`, `RequestServed`, `ImplementsInterface` |
| timer_guard | Timer, TimerGuardHonoured | | finding |
| radio | MCRadio, Radio | 990 871 | `IdleSilences`, `EndOfFrameDelivers`, `CallsExpected`, `TxBufferStable`, `ImplementsInterface` |
| radio_live | MCRadio, RadioLive | 65 304 | `EndNotLost`, `FrameEnds` |
| radio_resync | MCRadio, RadioResync | | finding |
| brt_loss | MCBrt, Brt | 2 305 434 | `ImplementsChannel`, `Resynchronized`: bytes lost in both rings, to raw reads, by a reset and by closing |
| brt_lossless | MCBrt, BrtLossless | 44 002 | `Transparent` and `AllDelivered`, whatever bytes packets and checksums hold; `ChecksumIsCrc16`: all 256 entries of the table, every checksum of the instance and the check value of "123456789" (0x906e) are those of the bitwise CRC |
| peripherals | Peripherals | 1 956 | `InterruptKeyed`, `MainKeyed`, `RandomWritten` |
| peripherals_key | Peripherals, PeripheralsKey | | finding |
| aes_refused | Peripherals, PeripheralsRefused | | finding |
| node | Node | 93 996 | `QuietWhenLeft`, `TaskHasSocket`, `RunningIsRegistered`, `NeverStranded`, `ServiceRuns` |

Every passing run but radio_live and brt_lossless also checks the type invariant of
its module.

`NeverStranded` and `ServiceRuns` hold with one exception, which both name: the MQTT-SN
service of a joined node is left with nothing that could make it go on if the last
schedule "now" was refused as past (lines 116, 224) or the last REGISTER was not sent
(lines 164, 168), until the session ends or the node leaves. Without either half of the
exception TLC finds a counterexample. A refused schedule at line 72 strands nothing,
because the retry of line 160 is still scheduled.

### Bounds

- *Critical section.* Two interrupt levels let one handler interrupt another
  that is inside `Enter`; nesting twice separates outermost from inner. The
  proofs remove both bounds.
- *Timer.* Q = 6 makes a period of 18 ticks and words of 24 values, Guard 2 and
  MaxLag 1: every order of counter, compare time, reload and guard occurs. In the
  code Q is 2^30, the guard 40 ticks (53 us) and the code between sample and write a
  few instructions, so MaxLag < Guard. The stack asks for no time more than
  MaxPast behind. The proofs remove the bound on Q.
- *Radio.* Four handles: two transactions, one more whose events are still
  pending, and a free one. Three commands in the driver: one executing, one
  aborted, one `CMD_FS_OFF`, or the pool exhausted. Frames of two lengths and two
  contents tell a stale packet from a new one, one frame to send is too long, and one
  power lies below and one above the table. Handles are symmetric; the
  liveness run has three handles, one frame and no symmetry.
- *Brt.* With loss: bytes of three bits with flag, escape byte and mask in the places
  of 0x7e, 0x7d and 0x20, rings of one byte each, two packets and a raw chunk
  that looks like the end of a frame, sent in any order up to three (a damaged one,
  and the two that `Resynchronized` relates), one reset or closing. Without loss:
  bytes of eight bits, the CRC of the code, and packets of one and two bytes that hold
  the flag or the escape byte or have it in their checksum. The proofs remove the bounds
  on rings, packets and losses; larger rings in TLC let more bytes go at once, but each is
  lost as one alone is.
- *Peripherals.* Three jobs: one of the main loop, one of the interrupt that falls
  into it, one after it. Three draws have a first, a middle and a last. The proofs
  remove the bounds.
- *Node.* Delays keep their order (custom start 2 s, custom period 5 s, reconnect
  5 s, first publication 1 s, retry and publication 10 s) at the scale of a few
  units. A task runs at most one unit late, which is less than any period. Two joins and
  two failures: whatever fails can fail again after the recovery. The proofs remove
  all of them.

### Fairness

Liveness is checked in four runs, and there only:

- timer: the core finishes a call and serves an enabled interrupt; the stack
  asks again if it was called early; time goes on (strongly fair, since `Prompt` holds
  it back while someone still has to act, which is the bound MaxPast).
- radio_live: the RF core ends what it has started to transmit or receive, and a
  software interrupt that was posted runs. Nothing obliges a sync word to come.
- brt_lossless: `Send`'s loop goes on, the line carries bytes, the stack polls.
- node: the clock and the main loop go on, the stack of a joined node learns the
  border router's address (it loses it at most MaxFailures times), the gateway
  there answers what it has been asked (or the session fails, at most MaxFailures
  times), and the client's timeout ends a connection attempt to any other address.

### Disagreements between the code and what it says

Four are runs of their own, with the quotation in `PROJECT.json`.

- `GuardHonoured` (embenet_timer.c:93): tick counts are subtracted modulo 2^32
  though the counter reloads at 3·2^30, so a time within the guard of the present
  is scheduled, not triggered, when the reload lies between. It fires when the
  counter comes by, at worst a period (71 minutes) later. For the same reason a
  duration of 2^30 + 39 ticks or more across the reload is triggered at once, and the
  stack has to ask again (the exception in `FarIsScheduled`).
- `IdleSilences` in `radio_resync` (embenet_radio.c:333): a callback of an aborted
  reception that runs after the radio was woken again clears the handle of the new
  reception, which the next `Idle` then does not abort.
- `CallersKeyUsed` (embenet_aes128.c:56): the main loop, preempted between `SetKey`
  and `Encrypt` by a job of the interrupt, ciphers with that job's key, or with
  halves of both.
- `PlaintextOverwritten` (embenet_aes128.c:74): an interrupt that preempts an operation of
  the main loop finds the crypto resource taken; its `Encrypt` is refused, which is not
  reported, and its data stay in plaintext.

Others were met while modelling; the model does what the code does:

- After `Idle` has aborted a reception its handle stays, so the next `RxEnable`
  returns WRONG_STATE (embenet_radio.c:250) and leaves the channel of the reception
  before, though embenet_radio.h:25 has `RxEnable` lead from IDLE to RX_READY. The MAC's
  `RxNow` listens all the same. `ImplementsInterface` has these as `RxRefused` and
  `UnpreparedListen`.
- The callback of the timer may come for another request than the one it is called for,
  far before its time (embenet_timer.c:92, 93), though embenet_timer.h:43 has it called
  when the time is reached: `CalledEarly` in the timer's `ImplementsInterface`. The stack
  has to ask again.
- `idle` is tested once, on entry of a callback (embenet_radio.c:306, 340), so a
  callback that was preempted by `Idle` still calls the MAC's handler, though the
  comment says "do nothing if idled".
- `Idle` leaves a finished receive entry as it is, though embenet_radio.h:181 says
  that it clears internal buffers; the next reception then ends in an error that the MAC
  is not told of. No state of the header shows this, so no property does: the MAC stays
  in LISTEN until its slot is over.
- A frame that is too long is cut and `TxEnable` returns SUCCESS
  (embenet_radio.c:225-239), though embenet_radio.h:196 has an error for it: `FrameCut` in the radio's
  `ImplementsInterface`.
- `setChannel` (embenet_radio.c:157) overwrites the channel with 0.
- A buffer that is too short for a packet is filled, and 0 returned
  (embenet_brt.c:173), though embenet_brt.h:49 says that no data is copied.
- `ReceiveRaw` takes a byte from the UART before it looks at the size of the buffer
  (embenet_brt.c:190-204), and loses it if that is 0.
- The results of `EMBENET_NODE_GetBorderRouterAddress` (mqttsn_client_service.c:156,
  custom_service.c:42), `Join` and `RootStart` (main.c:179, 203) are not looked at.
- After the service was stopped `serviceState` stays RUNNING, and a press of the button is
  still handed to the client (mqttsn_client_service.c:248-260), which refuses it
  (`RunningIsRegistered` is about joined nodes for that reason).
- The result of `MQTTSN_CLIENT_Register` (mqttsn_client_service.c:164, 168) and of the
  schedules "now" (72, 116, 224) is not looked at: the exception of `NeverStranded`.
- ENMS is told that both services run (main.c:188-190) even if their initialization
  failed.
- embenet_node_event_handlers.h:46-48 says that a node that has left should go through
  the join procedure again; main.c does not. Unless the library rejoins by itself, such
  a node stays out (`StackRejoins = FALSE`).

One passing run rests on an assumption whose loss TLC shows by a change of one constant:
RadioLive.cfg with `SwiPrompt = FALSE` lets the start and the end of a frame come in one
mask, the `else if` of embenet_radio.c:315 drops the end, and `EndNotLost` and
`FrameEnds` fail. `CallsExpected` and `ImplementsInterface` hold without it.

## What is proved

For every value of the constants that meets the named assumptions:

- *CriticalSectionProofs*: `TypeCorrect`, `Exclusion`, `MaskIsRestored`,
  `KeyIsStable`, for any number of interrupt levels and depth of nesting. None of
  the properties is inductive: they need to know where the interrupted contexts
  are. `IInv` adds to the types that the main loop is active, `Executing`, which says
  `Local` of the context that executes (what its label says of the counter, the register,
  the mask and the key) and `Quiet` of every other (it holds no section and masks
  nothing, and was interrupted at most before the masking), and `UnmaskedFree` (while the
  mask is clear the counter is 0). One lemma per step, and the theorem puts them together.
- *TimerProofs*: `RoundTrip` on the conversions; `TypeCorrect`; `NeverMissed`, from
  `Congruent` (the request is due when the counter is at `arg`), `InCall` (what a call
  in progress knows of the counter, `lag` ticks after its sample), `Armed` (between
  calls the interrupt is pending, or the match register holds a tick that is not passed
  yet) and `Bounded`. It needs MaxLag < Guard and MaxPast + Guard <= Q. `GuardIsKept` and
  `FarTimesWait` are the two sides of the test in `SetCompare`, from `InCall` and one
  lemma each on the word subtraction: a time left to the match register was at
  least the guard ahead when the counter was sampled, except for the times of the finding
  `GuardHonoured`, and one triggered at once was not, except for long durations across
  the reload (`Bounded` says that a request is at most half a period ahead of the sample,
  so that nothing else is taken for past). `Implements` is in the microseconds the stack
  asks for and reads. It needs besides that a tick advances the time by one or two
  microseconds, across the reload too (`TickAdvances`); that an interrupt raised for the
  request in hand comes when it is due or within the guard (`Caused`: one triggered for a
  time not below the count is within the guard, and one of the match register, with
  nothing raised before, is due); and that `left` below the guard means that the requested
  microsecond is reached in the header's sense, roundings and reload included
  (`DueIsReached`, from `Congruent`, `Timely` and `Asked`). That the callback asks again
  only for a time that is ahead is `AheadInTicks`. `Implements` excepts `CalledEarly`.
- *RadioProofs*: `TypeCorrect` for every environment. The others need `MacWaits`,
  without which `IdleSilences` is false (run `radio_resync`): `IdleIsSilent`,
  `PacketIsFrame`, `BufferIsStable` (an action property), `HandlersExpected` and
  `Implements`, for any number of handles, frames, powers and commands. `IInv` adds to the types `Handles`
  (a handle tells the events of its command from all others) and `PacketKept`, and
  `OneCommand`, the consequences of waiting: one command is in the queue or still has
  events (`Single`), and none is when the MAC posts the next (`Ready`); a command that
  is not aborted is the one the MAC posted, and the port holds its handle (`Live`,
  which is what `Idle` needs to abort it); no event follows the last of a chain, and
  nothing but the last follows the end of a frame (`Order`), so the packet is not
  overwritten before the MAC has fetched it; and the start of a frame that the MAC does
  not know of yet is in the events or in the mask (`Listening`), so the end never comes
  before the start. `HandlersExpected` is `CallsExpected`, with the invariant `Heard`
  besides: what the RF core has raised and not told agrees with what the MAC waits for.
  `Implements` has the three named departures from the header and no hypothesis on frames:
  a frame that is too long is one of the departures. `NoEndIsLost` is `EndNotLost`, the safety half of `FrameEnds`: when the MAC has been
  told of the beginning of a frame and not of its end, the end is still to come from the
  queue, in the events, in the callback or in its handler. Its hypothesis `Prompt` is
  `MacWaits`, `SwiPrompt` (else beginning and end come in one mask and the end is dropped)
  and `~FsCanFail` (else there is no end). Its invariant `OnTheWay` adds to `EndNotLost`
  that while the MAC transmits or listens nothing is being aborted (`Unaborted`), and that
  the start of a frame is told alone, before the frame ends (`SoftLasts`). There is a
  lemma for each actor: `CallKeepsEnd`, `FsOffKeepsEnd`, `RfKeepsEnd`, `CallbackKeepsEnd`.
- *BrtProofs*: `TypeCorrect` (with the bound of the frame buffer), `NoReordering`,
  `FramingRecovers`, `LinkIsTransparent` and `Implements`, for any packets, raw chunks, rings and number of
  losses, and for any checksum. `Resynchronized` speaks of packets long past, and is not
  inductive. `IInv` says of the line that the places in the two rings rise, from after
  the byte read last (`current`) to before the next one written (`Ordered`), and that
  nothing of an intact packet is missing between those (`Complete`). So after a byte of
  an intact packet the next byte read is its successor (`NextByte`). Of the receiver it
  says that `lastDataByte` is the byte at `current` (`LastByte`), that in a packet which
  follows an intact one it is inside a frame and holds the bytes up to `current`
  (`Synchronized`: the last flag of the intact one has left it outside or has just begun
  a frame, and the first flag of this one begins it or repeats), and which numbers were
  delivered (`Numbers`). `Arrived`, that such a packet is delivered when its last byte
  has been read, needs `BufferFits`: the buffers passed to `Receive` are large enough.
  `LinkIsTransparent` needs it too: until the first byte is lost all packets are intact,
  and `InStep` says that those up to `current` have been delivered and nothing else
  (`LosslessByte`: the next byte is of the packet at hand or the first one of the next).
  `Implements` has `[]ErrorsDetected` as its hypothesis, and no other.
- *PeripheralsProofs*: `TypeCorrect` (the power dependencies are 0 or 1: paired),
  `InterruptIsKeyed`, `MainIsKeyed` and `RandomIsWritten`, for any number of draws and
  jobs. `Keyed` says at each step of a job which halves of the key storage and of the
  engine's key are its own: of the interrupt always (`Preempted`), of the main loop until it
  is preempted (`Undisturbed`); neither has a block before its key is set (`NoBlock`); and
  the engine is held by a context exactly while it is in an operation (`Owned`), so that
  the interrupt is refused only while the main loop is in one.
- *NodeProofs*: `TypeCorrect`, `LeftIsQuiet`, `RegisteredBeforeRunning` and
  `ScheduledHasSocket`. `IInv` adds `Tasks`
  (a scheduled task exists), `Session` (topics exist only in a session), `Root` (a root
  has no services but ENMS), `Sockets` (an initialized service has its socket) and
  `Stage` (what each state of the service says of the client and its topics: RUNNING
  is reached only after both acknowledgements of the same session).
  `NothingStranded` is `NeverStranded`, with its exception and without a hypothesis; it
  needs `NotTooLate` (no task is later than MaxLate) for the periods to reach the future.

Only model-checked:

- every liveness property: `RequestServed`, `FrameEnds`, `AllDelivered`, `ServiceRuns`
  (fairness and ENABLED are beyond the prover);
- `ChecksumIsCrc16`: what the table and the CRC compute for packets of every length is
  induction over data, and `Crc` uses `Bitwise`, which a module with a theorem cannot.

## What is not modelled

Timestamps, RSSI and `GetCapabilities` of the radio (data and constants; what the MAC
does with times is in the library); EUI64 and the port's capabilities (constants); the
inside of the stack library: routing, join protocol, slot schedule, the content of ENMS
messages; its diagnostic, trace and logging interfaces and `ring_buffer.h`, which
nothing in the sources here uses; logging over the UART (`_write`), and
`onQuickJoinCredentialsObsolete`, which only prints and is not called for lack of
credentials; the other functions of the library's headers, which the demo does not
call. With these the share of the repository's lines that can be modelled is used up
but for comments, configuration and wording.

## Plan

Done: all components with state, the three refinements, and proofs of every invariant and
every action property that the prover can reach, for all of them. What is left is liveness
by hand-made arguments: `NoEndIsLost` and `LinkIsTransparent` are the safety halves of
`FrameEnds` and `AllDelivered`, and what remains of these is that fair actors act.
