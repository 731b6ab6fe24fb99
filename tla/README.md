# A verification model of deep_bridge

deep_bridge is a ROS node that turns `cmd_vel` velocities into axis commands
for a Deep Robotics M20S, over UDP or DTLS, and reads the status reports the
robot sends back.  The TLA+ modules here model the parts of it in which
something can go wrong between threads, over time or across failures; TLC
checks them on small instances and TLAPS proves the most important properties
for every instance.

## 1. Inventory

Paths are relative to the repository (`src/src/CmdVelBridge.cpp` is `CPP`,
`src/include/deep_bridge/CmdVelBridge.h` is `H`, `src/src/UdpTransport.cpp` is
`UDP`).

| part | state | operations | what makes it correct | module |
|---|---|---|---|---|
| Speed scaling, CPP:26-42, 780-797 | parameters | `Clamp`, `ToRatio`, choice of axis command | executed speed within the limit, order preserved, bad settings stop | `SpeedScaling`, `SpeedCommand` |
| Control loop and gate, CPP:317-347, 700-798 | `last_basic_status_`, `vx_ vy_ vyaw_`, `last_cmd_time_`, `have_cmd_` | `cmdVelCallback`, `controlTimerCallback`, `handleBasicStatus` | no driving on a forbidding, old or missing status or on an old velocity; a lost stop is made good; the gate opens when it should | `ControlLoop`, `DriveLease`, `SteppedClock` |
| Startup steps, CPP:549-698 | the status cache, `ros::ok()` | `applyUsageMode`, `autoStandOnStart`, `applyGaitOnStart`, `logFinalStatus`, `waitForFreshBasicStatus` | readbacks are younger than requests, the robot ends drivable, nothing hangs | `Startup` |
| Node lifecycle, CPP:55-163, main.cpp | `running_`, two threads, `transport_` | constructor, catch block, spin, destructor | no thread on a freed transport, no hanging join, last command a stop, exceptions reach main | `Lifecycle` |
| Transport, UDP | socket, `ssl_ctx_`, `ssl_`, `ssl_mutex_` | constructor, handshake, `send`, `receive`, destructor | objects released once, handshake ends, SSL object not shared concurrently, no waiting for datagrams under the lock, no data left behind | `UdpTransport` |
| Receive path, CPP:175-286 | none of its own | `receiveLoop`, `handleAsdu` | every report goes to the handler of its content, a bad one changes nothing and holds nothing up | `Exchange`, `Asdu` |
| Heartbeat, CPP:709-724 | none | `heartbeatLoop` | the robot keeps reporting from startup to exit, and the exit does not wait for a period | `HeartbeatLink` |
| Requests and ids, CPP:570-611 | `next_msg_id_` | `nextMsgId`, `sendRequest` | ids wrap and are not shared by two requests under way | `Exchange` |
| APDU codec, UdpProtocol.h | none | `encodeApdu`, `decodeApdu` | decoding inverts encoding, a cut datagram is rejected | `Apdu` |
| Display-only reports, CPP:298-315, 349-547 | two caches nobody reads, two topics | five handlers | each group in order is shown, whatever is wrong beside it; nothing controls on them | `Asdu`, `Exchange` |
| JSON, json.hpp | none | `contains`, `at`, `get`, `parse` | external library | `Asdu`, as used |
| Start/stop script, tools/deep_bridge.sh | pid files, processes | start, stop, restart | one node per robot | not modelled |

The parts interact as follows.  The constructor opens the transport, starts the
receive and heartbeat threads, runs the startup steps on the main thread (their
readbacks depend on the receive thread, whose reports depend on heartbeats) and
only then subscribes and creates the control timer.  From then on the spin
thread runs `cmdVelCallback` and `controlTimerCallback`, the receive thread
calls `handleBasicStatus`, and the three threads that send or receive meet in
`UdpTransport`.  The spin and receive threads share the status cache under
`status_mutex_`.  The destructor sends a stop, clears `running_`, joins the two
threads and frees the transport.

What is hard: the callback reads two pieces of state under two locks and sends
holding neither; UDP loses, delays and reorders; every safety decision is a
comparison of time stamps; startup's readbacks race with reports already on
the wire; and each failure path of two constructors must clean up by hand.
`PROJECT.json` lists these hazards at their lines, with the properties that
watch them.

## 2. Modules

**SpeedScaling, SpeedCommand.**  `Clamp`, `ToRatio` and `AxisValue` are the
functions of the code.  A double is an integer number of mm/s, or `NaN`, for
which every comparison is false; `StdMin` and `StdMax` keep the argument order
of `std::min`/`std::max`, which decides what becomes of a NaN.  The code's
threshold 1e-6 lies below one unit.  `Quotient` rounds toward zero, where a
double would round by less than a unit.  `SpeedCommand` feeds a sequence of
requests through one axis.

**ControlLoop.**  `controlTimerCallback` is four actions, one per lock it
takes (`ReadCmd`, `ReadStatus`), one for the gate on the copies (`Decide`) and
one for the send (`SendAxis`); a report is received in two (`ReceiveReport`
stamps it, `StoreReport` takes the lock), because the code stamps before it
locks.  `CmdVelCallback` shares the spin thread and needs `pc = "idle"`.
Reports travel in a set, so they are reordered freely, and may be lost or
rejected (`DropReport`) at any time.  `began`, `withdrawn` and `stale_drives`
are history that no action reads; `born`, in a report, is when the robot
produced it, which no action of the node reads either.

**DriveLease.**  What the node promises and nothing of how: driving is held on
a lease that others grant, and a drive command outlives it by `Grace` at most.
`Permit`, at the end of ControlLoop, is the refinement mapping: the lease ends
at the first of the two timeouts, or when a status that forbids driving was
stored; `Grace` is `Reaction`.

**SteppedClock** extends ControlLoop with a clock that may be set back: stamps
move ahead of the time that has passed, which leaves every age as the code
would compute it.  `cmd_at` and `stepped` are history: when `cmdVelCallback` last
ran, and how far the clock has been set back since.

**Startup.**  One `task` per step, in the order of the constructor; `phase` is
where in the step the main thread is, `left` the ticks until its sleep or
deadline ends.  `BeginWait`, `ReadFresh` and `GiveUp` are
`waitForFreshBasicStatus` together with what its caller does with the result.
The receive thread parses a report and stores it in two steps.  The robot is
external: a stand or a mode switch resets its gait, standing up takes
`RiseTime`, a gait is accepted in RL control only, and requests reach it in
order.  `as_of` counts the requests sent when a report was produced.

**Lifecycle.**  The main thread through constructor, spin and destructor, the
two threads as rounds of "look at `running_`, use the transport, do the rest".
Every call of the constructor that can throw may throw.

**HeartbeatLink** extends Lifecycle and conjoins its actions with durations:
`left` is how long a thread may still be in its call, a sleep may be too long
by `Slack`, a send takes up to `SendMax`.  A call of `receive` lasts longer than
the timeout it is given, which is that of `poll` alone: it may first wait for
`ssl_mutex_` (`LockMax`), then poll for `PollTimeout`, and then wait for the
lock and the read itself (`ReadMax`); `receiving` is which of these it is in.  The
main thread's calls take any time, so startup may last for ever.  `heard` is the
robot's side, the time since a heartbeat reached it.

**Apdu, Asdu, Exchange.**  `Apdu` is the codec on sequences of bytes, with two
bytes each for length and id; `Byte`, the values of a byte, is a parameter.  `Asdu` is what
the node reads out of a JSON value: a value is a record with its kind, a reader
a schema of the fields it insists on and the C++ type it asks `get` for
(`get<int>` takes a boolean, `get<double>` does not), `Branches` the order of
`handleAsdu`'s tests.  `Exchange` composes them: two sending threads draw ids
and send in two steps, the network loses and reorders what is on its way, the
socket queues what has arrived (`inbox`, first in first out), and the receive
thread takes the first datagram through buffer, codec, parser, dispatch and reader into the
caches in one step, because it works on locals until it takes one lock.  Under
DTLS what the buffer does not hold stays and is the next round's packet.  The
`asdu` and `id` of a datagram are history: what the sender put into its bytes.
A datagram of `Noise` is what may have become of a packet (`Damaged`): any of its
end is missing and its header says anything, a length shorter than what it
carries included, which `decodeApdu` accepts.

**UdpTransport.**  `pc` walks through the constructor.  `Cleanup` is what each
failing branch of `startDtls` releases; `live` holds the objects that exist,
and `spoiled` records a release of an object that does not.  `SSL_set_bio`
hands the BIO to the SSL object, so from then on it goes with it.  On an open
transport each thread has a place in `send` or `receive`; `Acquire` takes
`ssl_mutex_`, and every step that leaves the critical section releases it.
One call of `SSL_do_handshake` or `SSL_read` may deal with several records and
wait anew after each (`HandshakeOther`, `ReadOther`); `skipped` counts them.
Record sizes are in units in which the 8192-byte buffer is `BufLen`; 0 is a
record without application data.  Both the plain and the DTLS branch are in.
`ssl_ == nullptr` and `sock_fd_ < 0` cannot occur on an object whose
constructor has returned, so those returns have no action.

## 3. Runs

| run | instance | shows |
|---|---|---|
| speed_command | requests -12..12 and NaN, 4 limits, 5 full scales, 3 modes | limit, order and bad settings, across every saturation boundary and sign |
| control_loop | one velocity beyond the limits, a walking and an emergency-stopped body, all times 1, 2 reports in flight, clock to 4 | type, one stale drive at most, the three stopping bounds, what a drive rests on, the refinement of `DriveLease` |
| control_liveness | navigation mode, no gait asked for, three bodies, clock to 2 | the robot ends up stopped, or driving, when it should |
| startup | both settings of every starting state, lossy network, settling 2 and 3 ticks over a delay of 1, rising 4 | readbacks, drivable at the end, no step adds to the time left, termination |
| lifecycle | two threads, every failure point; period 5, poll step 2, sends up to 2, in receive lock 1, poll 2, read 1, one heartbeat lost in a row | no use after free, clean exit, no hang, heartbeats at every `MaxGap`, prompt exit |
| exchange | `Byte` = 2 (4 ids, texts below 4 bytes), buffer of a header and 2 bytes, 7 kinds of report, 3 of damage, two datagrams at once, plain and DTLS, window 2 | ids, codec, dispatch, the caches and what is published, reports get through |
| udp_transport | plain and DTLS, with and without a CA file, handshake timeout 0 and 4, records up to twice the buffer, 2 datagrams queued, 2 records without data in a row | released once, exclusive SSL, short holds of the lock, nothing left pending, handshake ends and close to its deadline |

Five more runs are expected to find a counterexample; section 6.

*Bounds.*  `MaxTime`, `MaxInFlight`, `MaxInbox`, `MaxRecord` and `MaxFlight`
only cut the state space.  In control_loop every timeout
fits within the clock with room for a report to expire, a callback to straddle
the expiry and another callback to follow; two reports in flight are what reordering needs.  With all
times equal to one tick each bound is reached exactly, so an off-by-one shows.
The proofs make no use of `MaxTime` and `MaxInFlight`.  The largest DTLS record
is 16384 bytes, twice the buffer, which is `MaxRecord`.  In exchange a `Byte`
of two values makes ids wrap after four requests and gives the length bytes
both a low and a high part; one of the reports is longer than the buffer and
one of its siblings fills it exactly.  Requests overtake each other because an
id is taken before its packet is sent.  With `MaxFlight` at two, garbage and
reports queue before a report; `ReportsGetThrough` does not rest on the bound,
because the socket's queue is in order, and no theorem does either.  In
lifecycle the period is no multiple of the poll step, so the last sleep is
shorter.  In startup the times are the least `ReadyWhenDone` allows: change
`ModeSettle` to 1, or `StandSettle` to 2 with `StatusWait` at 3, or `RiseTime`
to 5 in `Startup.cfg`, one violated conjunct of `Patient` (section 5) each, and
TLC finds a startup that ends with a robot the gate rejects.

`MaxDelay`, `MaxStall` and `ControlPeriod` are different: they are assumptions
about the deployment.  A report that has been under way for `MaxDelay` must
arrive or be lost before time passes; a control callback lasts at most
`MaxStall` (its sends may wait for `ssl_mutex_`, see `LockHeldBriefly`); the
timer leaves the spin thread idle for at most `ControlPeriod`.  The stopping
bounds are stated in terms of them, and say nothing of a host that keeps none.
So are `Window` - fewer requests are numbered while one is under way than there
are ids, 65536, which at 22 a second last for most of an hour - and, in
HeartbeatLink, `SendMax`, `LockMax` and `ReadMax`, how long a call may wait for
`ssl_mutex_` and the socket, `Slack` and `MaxLost`: `ExitIsPrompt` and
`ReportsKeepComing` say nothing of a thread kept from the lock for longer.
(`PollTimeout` is the 0.2 s of `receiveLoop`.)

`MaxSkipped` of UdpTransport is an assumption about the peer: that many records
without application data, or that do not complete a flight, are dealt with in
one call of `SSL_read` or `SSL_do_handshake` before it returns.
`HandshakeOnTime` and `LockHeldBriefly` are stated in terms of it, and
`ConstructorEnds` needs there to be such a number: a peer that sends one such
record every 100 ms keeps a call, and with it the constructor, for ever, since
the deadline is looked at between calls only.  The lengths of time of
HeartbeatLink rest on it in the same way.

*Deadlock.*  TLC checks for it in every run: no configuration
switches that off.  In control_loop a callback and a report are always possible,
also when the clock has reached its bound; Startup goes on emitting reports;
Lifecycle, HeartbeatLink and UdpTransport end in an action `Ended` that
stutters; in Exchange a request or a report is always possible or under way.

*Fairness.*  ControlLoop: the timer keeps firing and threads are scheduled
(WF); a command sent again and again is delivered again and again (SF on
`SendAxis(TRUE)`) - without it no protocol stops a robot over UDP.  Nothing
obliges the robot to report or the planner to publish.  Startup: the threads
run, what is not lost arrives, and time cannot be held up by reports that keep
coming (SF on `Tick`).  Lifecycle: threads are scheduled and calls return;
HeartbeatLink adds that time passes.  Exchange: the receive thread is scheduled,
and nothing else.  Its fairness names `SomethingReceived`, what a step of
`ReceiveLoop` does to the socket, under which it is enabled exactly when
`ReceiveLoop` is.
UdpTransport: threads run and time passes (WF), and a thread waiting for
`ssl_mutex_` gets it if it becomes free again and again (SF on `Acquire`):
`std::mutex` promises no order, but the senders pause for at least 50 ms
between sends.

## 4. Properties worth reading first

- `AtMostOneStaleDrive` (ControlLoop).  A report that forbids driving may be
  stored after the gate copied the previous status; one drive command then
  still goes out.  Never two.
- `UnsafeStops`, `CmdLossStops`, `ReportLossStops`.  With
  `Reaction == Gap + MaxStall`, the last command sent is a stop at most
  `Reaction` after the status forbids driving, and after the two timeouts.
- `DriveBacked`.  A drive command rests on a status that was drivable *on the
  robot* at most `MaxDelay + StatusTimeout + MaxStall` earlier, and on the
  latest velocity.  Stamping at receipt is why `MaxDelay` is part of it.
- `ReadyWhenDone` (Startup).  If no request is lost the gate will open after
  startup; the order mode, stand, gait is what makes this true.
- `ImplementsLease` (ControlLoop).  All three reasons to stop in one abstract
  machine: a drive outside lease and grace is impossible, and so is a lease
  that is taken back with effect from the past.
- `ReportsKeepComing`, `ExitIsPrompt` (HeartbeatLink).  The heartbeat needs a
  thread of its own because startup keeps the main thread for seconds, and its
  period is slept in small steps because the destructor joins it.
- `GateFollowsRobot` (Exchange).  Exactly the reports that carry a whole
  BasicStatus replace the stored one: one that carries faults as well does, one
  that lacks only `Sleep`, which the gate never reads, does not.
- `DecodedAsSent` (Exchange).  Ids and texts arrive as written, both ways; a
  packet with a damaged header or without its end, one that `decodeApdu` accepts
  with a cut text included, passes for no report.
- `DisplayFollowsRobot` (Exchange).  A device, location or motion report that
  arrives whole shows exactly the groups that are in order, and no other
  datagram changes what is shown.  What a group in order is, and which report
  goes to which handler, are stated apart from the readers and from `Branches`.
- `ReportsGetThrough` (Exchange).  A status report that has reached the socket
  is stored, whatever is queued in front of it.
- `StartupOnTime` (Startup).  `TimeLeft` adds up the sleeps and deadlines still
  before the constructor; no step may add to it and every tick takes from it,
  so that reports which keep coming, of the wrong state, cannot hold startup up.
- `HandshakeOnTime` (UdpTransport).  The deadline is looked at between calls of
  `SSL_do_handshake` only, and a call waits again after each record that does
  not complete the flight: the constructor can be late by one socket timeout
  per such record and one more.
- `LockHeldBriefly` (UdpTransport).  `SSL_read` holds the lock while it waits
  on the socket, for one socket timeout per record without application data
  and one more: an ICMP error wakes `poll`, a sender's `SSL_write` takes the
  error off the socket, and `SSL_read` then waits for a datagram that is not
  there.  At 20 Hz a hold of 100 ms is two control periods.

## 5. What is proved

Every safety invariant and every action property a passing run checks is also a
theorem, for all values of the constants the assumptions of the modules admit.
Where a theorem needs more, its statement says so.

`SpeedCommandProofs` proves for all integer or NaN requests what
speed_command checks, under the hypothesis `NumericSettings` (the settings are
numbers; section 6 shows why it is needed): `LimitHolds`,
`MisconfigurationHolds`, `OrderHolds`.  They rest on lemmas on what `Clamp` and
`ToRatio` return and on the division by a positive full scale being monotonic.

`ControlLoopProofs` proves, for every set of velocities and bodies and all
times, from the assumptions of `ControlLoop` alone: `TypeCorrect`,
`StaleDriveBound`, `UnsafeStopsHolds`, `CmdLossStopsHolds`,
`ReportLossStopsHolds`, `DriveBackedHolds`.  None of the properties is
inductive.  The strengthening is

    IInv == TypeOK /\ Timing /\ GateInv /\ CmdInv /\ ReportInv /\ WithdrawnInv

whose idea is the *lease*: a permission that ended at time `t` (a velocity that
timed out, a status that expired, a status that was withdrawn) can only have
been used by a callback that began at or before `t`, so the command it left
behind lasts until the next callback finishes.  `Lease(t)` says so for each
place the spin thread can be in, and `CmdInv`, `ReportInv` and `WithdrawnInv`
instantiate it three times.  `GateInv` says what a frame about to be sent rests
on, `Timing` how far the clock can have run.  The proof of `Invariance` has one
step per action.  TLC has checked `IInv` as an invariant of the control_loop
instance as well.

`LeaseImplemented`, the refinement, follows from `IInv`: initial states map to
initial states, `SendAxis` to `Drive` or `Halt`, `Tick` to `Tick`, and what
moves a stamp or withdraws a status to `Regrant`.  `LeaseKeepsPromise` shows of
DriveLease, on its own, that a drive command is in force under the lease or
within the grace after it; `DrivesUnderLeaseHolds` carries that over to the
control loop through the refinement, with nothing of the loop in its proof.

`GateOpens` goes the other way: a gate that never opened would satisfy all of
the above.  From any moment `t`, while velocity and status permit driving and
the velocity stays the same, the last command sent is that velocity's once
`Reaction` has passed.  `Opening(t)` is its invariant: a callback that began
after `t` has found the gate open at each of its steps so far.  The status must
be young enough to outlast a callback, hence `StatusTimeout - MaxStall` in
`Asking`.  TLC shows on the control_loop instance that neither bound can be a
tick smaller.

`SteppedClockProofs` proves of the loop whose clock is set back, by any amounts
and any number of times, what is left of the watchdogs (`WatchdogLateHolds`) and
what is untouched (`SteppedUnsafeStops`, `SteppedStaleDriveBound`).  Their
`SteppedInv` is `IInv` without what it says of the age of a status, and with
`last_cmd_time = cmd_at + stepped`.

`LifecycleProofs` proves `TypeCorrect`, `NoUseAfterFreeHolds` and
`CleanExitHolds` from

    IInv == TypeOK /\ Owned /\ Joins /\ StoppedOutside

which ties the threads that exist and what they hold to the place of the main
thread, and `TerminatesOnlyOutsideTry`: in an execution in which none of the
three calls outside the try block throws, every exception reaches main.
`HeartbeatLinkProofs` shows with `TimedLifecycle` that the lifecycle
with durations implements the one without, so the three facts carry over
(`TimedSafety`), and proves `ReportsKeepComingHolds` and `ExitIsPromptHolds` for
all durations.  The invariant bounds `heard` by the heartbeats lost and by what
is left of the current period: `Budget`, with `RestFalls` for the number of
short sleeps that remain.

`UdpTransportProofs` proves `TypeCorrect`, `SslExclusiveHolds`,
`ReleasedOnceHolds` and `LockHeldBrieflyHolds` from `TypeOK /\ Made /\ Locking
/\ Holding`: which objects exist at each place of the constructor, who is in
the critical section, and how much of the socket timeout its owner has used.
`HandshakeOnTimeHolds` adds `Shaking`: a round of the handshake began before the
deadline, and what has passed since is bounded by the records of the call.
`PendingFirstHolds` says of data left in the SSL object that the receiver is on
its way to it and not in `poll`.

`ExchangeProofs` proves of the codec that `decodeApdu` inverts `encodeApdu` and
rejects what is cut off (`CodecInverse`, `CutPacketRejected`), and of Exchange
`TypeCorrect`, `IdsUniqueHolds`, `DecodedAsSentHolds`, `GateFollowsRobotHolds`
and `DisplayFollowsRobotHolds`, for every byte, window, set of ASDUs, damage and
buffer.  `NextIsNew` is what makes uniqueness inductive: the counter's value is
not an id under way.  For decoding it is that every datagram of the queue was
built as `Datagrams` says, and that the rest of a record never begins with the
sync bytes, because a text has none.  That a damaged packet never parses is
proved (`NoiseIsNotJson`), not assumed: what `decodeApdu` leaves of it is
a text without its end.  `GateFollowsRobotHolds` follows
one datagram through the buffer (`InBufferIs`), the parser (`ParseWhole`), the
dispatch (`HandlerOfStatus`) and the reader (`StatusRead`) to the cache.
`DisplayFollowsRobotHolds` takes the same way (`HandlesTaken`) to another
handler: `HandlerOfDisplay` shows of the order of dispatch that a group decides
only in the absence of those before it, `ReadsInOrder` and
`TemperaturesInOrder` that a reader with its schema takes exactly the groups in
order, `EveryBatteryRead` and `EveryHostRead` that of a list of any length it
takes every entry, by way of the first bad one (`LeastNumber`), and
`DeviceShown` puts the four groups together.  The assumptions are those of the module: texts are not empty,
the buffer is shorter than the longest packet, noise is damaged packets, the
gate's numbers are integers, and what the readers iterate over are containers.

`StartupProofs` proves `TypeCorrect` with no hypothesis,
`ReadbackAfterRequestHolds` under `Settled` (both settling times exceed
`MaxDelay`) and `ReadyWhenDoneHolds` under

    Patient ==
        /\ ModeSettle > MaxDelay /\ StandSettle > 2 * MaxDelay
        /\ StandSettle + StatusWait >= MaxDelay + RiseTime

`Younger` says that a report older than the request has arrived or is lost when
a readback begins.  For readiness `OneRequest` keeps requests apart, `ModeTold`
and `Risen` say what the robot is after each step, and `Rising` that a report
of RL control seen while the robot rises is true: a report from before the stand
request could otherwise end the wait, hence twice the delay.  The hypotheses
cannot be weakened by a tick: section 3 says how TLC shows it for `Patient`, and
startup_stale_readback is what happens without `Settled`.  `GaitMeetsRL` follows
from the same invariant.  `StartupOnTimeHolds` and `StartupBounded` need no
hypothesis: whatever the robot does, five waits and three settling times are all
that is ever before the constructor.

*Only model-checked*: the liveness properties, since fairness and ENABLED are
out of the prover's reach.  What is proved of their subjects are bounds, which
say nothing of time passing but do not rest on fairness either:

| checked by TLC | proved beside it |
|---|---|
| `RobotEventuallyStops` | `UnsafeStopsHolds`, `CmdLossStopsHolds`, `ReportLossStopsHolds` |
| `RobotEventuallyDrives` | `GateOpens` |
| `StartupTerminates` | `StartupOnTimeHolds`, `StartupBounded` |
| `EndsWhenAsked` | `ExitIsPromptHolds` |
| `ConstructorEnds` | `HandshakeOnTimeHolds` |
| `PendingTaken` | `PendingFirstHolds` |
| `ReportsGetThrough` | `DecodedAsSentHolds`, `GateFollowsRobotHolds` |

## 6. Where code and comments disagree

- *speed_command_nan.*  A `full_scale_v*` of NaN passes the test
  `full_scale <= 1e-6`, and `std::min(1.0, NaN)` is 1.0: every request,
  zero included, becomes full speed, against the comment at CPP:35-36.
- *startup_stale_readback.*  Invalidating the cache does not reach a report on
  the wire or in the hands of the receive thread; when a report can travel as
  long as the node settles, a readback accepts a status older than the request,
  against the comment at CPP:551.
- *startup_gait_before_rl.*  The gait is requested although RL control was not
  confirmed, against CPP:672-673 and `config/deep_bridge.yaml:73-74`.
  `GaitMeetsRL` is the other side: with settling times that cover the robot's
  rise, the request of a startup that lost nothing meets RL control anyway.
- *lifecycle_terminate.*  `subscribe`, `createTimer` and the start of the
  second thread can throw outside the try block with a thread running; the
  process then ends in `std::terminate`, against the rule at CPP:102-104.
  `TerminatesOnlyOutsideTry`: these calls are the only ones.
- *stepped_clock.*  When the wall clock is set back, both watchdogs sleep until
  it has caught up, against `H:217`, which promises a stop after
  `cmd_timeout_sec`.  `WatchdogLateHolds`: the command watchdog is late by what
  the clock was set back, and `SteppedUnsafeStops` and `SteppedStaleDriveBound`:
  a report that forbids driving still stops the robot on time.

Two smaller things are about the display only and have no run.  Of a
`BatteryList` or `CPU` group with a bad entry the entries before it are kept,
while CPP:382-383 and H:78-79 speak of the group as the thing lost (H:103 says
of the hosts: those parsed); `DisplayFollowsRobot` leaves open what is kept of
such a list.  And a device report that has neither `BatteryList` nor
`DeviceTemperature` is not recognised (CPP:254), so its other groups are lost
although each is meant to be optional.

## 7. Abstractions and what is left out

ControlLoop has one clock that only moves forward; SteppedClock shows what a
step back does, and Startup and UdpTransport are not told of one.  A datagram
handed to the transport is delivered or lost at once on its way to the robot in
ControlLoop; the polls of 0.02 s and 0.05 s are shorter than a tick (except in
HeartbeatLink, where the latter is `PollStep`).  JSON numbers are integers that
fit an `int`; text, logging and log throttling are left out.  A round of
`receiveLoop` whose `receive` brings nothing changes nothing and is no step of
Exchange.  A sync word counts as one byte of the header, since `decodeApdu`
compares it as a whole.  A datagram holds one packet or part of one: bytes
behind a whole report, which `decodeApdu` ignores, are not in the model.  Values that the code iterates over (`BatteryList`,
`Motor`, `Driver`, `CPU`) have the container kind it expects, which `ContainerAssumption` states for the
two the proofs follow; other groups and all fields may be of any kind.  OpenSSL, the kernel socket, ROS and the robot
are modelled by how the code uses them and are marked external in
`PROJECT.json`.

*Not modelled.*

- `json.hpp` is 25712 of the 27306 lines of C++ and a vendored third-party
  library.  Its parser, serializer and containers are not part of this
  program's logic; what the readers rely on is in `Asdu`.  A share of all lines
  that the model covers says little for that reason: of the program's own files
  it covers 80% of `CmdVelBridge.cpp`, 81% of `UdpTransport.cpp`, 76% of
  `main.cpp`, the codec of `UdpProtocol.h`; the rest is reading parameters,
  logging, comments and declarations.
- `tools/deep_bridge.sh` is an operator's shell tool.  Its state is pid files
  and the host's process table, which the node never sees; its signals are
  `Sigint` in Lifecycle and Startup.
- `handleAbnormalStatus`, `handleGenericResponse`, `warnIfUnexpectedType` and
  `itemsKeys` only log: in Exchange, being selected is all they do.
- The parameters' values, the launch file and the build files: the first are
  CONSTANTS, the others hold no behaviour of the program.

## 8. Plan

Done, in this order: SpeedScaling, SpeedCommand and proofs; ControlLoop and
proofs; Startup; Lifecycle; UdpTransport; DriveLease and its refinement;
SteppedClock; Apdu, Asdu, Exchange; HeartbeatLink; the proofs about Lifecycle,
HeartbeatLink, UdpTransport, Exchange, Startup and SteppedClock.  What would add most next:

1. An abstract specification of what owns the transport, which Lifecycle and
   UdpTransport both implement.
2. Startup after SIGINT, once the code says what it is meant to do: at present
   the remaining requests are still sent (hazard CPP:109).

`MaxStall` stays an assumption.  `LockHeldBrieflyHolds` bounds one hold of
`ssl_mutex_`, but `std::mutex` promises no order, so the number of holds a
sender may wait for, and with it the time, has no bound the code justifies.
