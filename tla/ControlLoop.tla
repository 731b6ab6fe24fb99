---------------------------- MODULE ControlLoop -----------------------------
(***************************************************************************)
(* The running node: cmd_vel callbacks and control timer callbacks on the  *)
(* thread of ros::spin, the receive thread storing status reports, and the *)
(* clock they both stamp with (CmdVelBridge.cpp:317-347, 700-798).         *)
(*                                                                         *)
(* The control callback takes two locks one after the other and sends      *)
(* after releasing both, so it is four steps here; a report is stamped     *)
(* before the receive thread takes status_mutex, so storing it is two.     *)
(***************************************************************************)
EXTENDS SpeedScaling, FiniteSets

CONSTANTS
    Twists,         \* velocities a cmd_vel message can carry, [Axes -> Double]
    Bodies,         \* contents of the BasicStatus reports the robot can send
    UsageMode,      \* usage_mode_
    GaitOnStart,    \* gait_on_start_, negative: the gait is not checked
    MaxV,           \* max_vx_, max_vy_, max_vyaw_
    FullScale,      \* full_scale_vx_, full_scale_vy_, full_scale_vyaw_
    CmdTimeout,     \* cmd_timeout_sec_
    StatusTimeout,  \* status_timeout_sec_
    ControlPeriod,  \* 1/control_rate_hz_: the longest the timer may leave the
                    \* idle spin thread without a callback
    MaxStall,       \* the longest one control callback lasts
    MaxDelay,       \* the longest a report travels, socket buffer included
    MaxInFlight,    \* bound: reports under way at once
    MaxTime         \* bound: where the clock of the model stops

Axes == {"x", "y", "yaw"}
Body == [motion_state : Int, gait : Int, hes : Int, control_usage_mode : Int]

ASSUME TwistAssumption == Twists \subseteq [Axes -> Double]
ASSUME BodyAssumption == Bodies \subseteq Body
ASSUME ModeAssumption == UsageMode \in {Regular, Navigation} /\ GaitOnStart \in Int
ASSUME ScaleAssumption == MaxV \in [Axes -> Double] /\ FullScale \in [Axes -> Double]
ASSUME TimeAssumption ==
    /\ CmdTimeout \in Nat /\ StatusTimeout \in Nat /\ MaxDelay \in Nat
    /\ ControlPeriod \in Nat \ {0} /\ MaxStall \in Nat \ {0}
    /\ MaxInFlight \in Nat /\ MaxTime \in Nat

VARIABLES
    now,                \* ros::Time::now()
    twist,              \* vx_, vy_, vyaw_
    last_cmd_time,      \* last_cmd_time_
    have_cmd,           \* have_cmd_
    last_basic_status,  \* last_basic_status_
    recv,               \* the report handleBasicStatus has stamped, not stored
    inbound,            \* reports between the robot and receiveLoop
    pc,                 \* where the spin thread is in controlTimerCallback
    vel, timed_out,     \* its locals vx, vy, vyaw and timed_out
    status,             \* its local status
    frame,              \* the axis command it is about to send
    axis,               \* the last axis command handed to the transport
    robot_axis,         \* the last one the robot received
    \* History, read by no action.
    began,              \* when the latest control callback started
    withdrawn,          \* when the stored status stopped being drivable
    stale_drives        \* drive commands sent since then

cmd_vars == <<twist, last_cmd_time, have_cmd>>
recv_vars == <<last_basic_status, recv, inbound>>
control_vars == <<pc, vel, timed_out, status, frame>>
wire_vars == <<axis, robot_axis>>
history == <<began, withdrawn, stale_drives>>
vars == <<now, cmd_vars, recv_vars, control_vars, wire_vars, history>>

Zero == [a \in Axes |-> 0]
Stop == Zero

\* A status as the node keeps it; born is when the robot produced it, which
\* the report does not tell the node.
DefaultBody == [motion_state |-> -1, gait |-> -1, hes |-> -1, control_usage_mode |-> -1]
NoStatus == [valid |-> FALSE, stamp |-> 0, body |-> DefaultBody, born |-> 0]
\* Mutant of Stored: the stamp is the time the status expires.
StoredUntil(r) == [valid |-> TRUE, stamp |-> now + StatusTimeout, body |-> r.body, born |-> r.born]
Stored(r) == [valid |-> TRUE, stamp |-> now, body |-> r.body, born |-> r.born]

-----------------------------------------------------------------------------
\* The safety gate of controlTimerCallback.

\* Mutant of StatusFresh: received once is fresh for ever.
ReceivedOnce(s) == s.valid
StatusFresh(s) == s.valid /\ now - s.stamp <= StatusTimeout

\* Mutants of SafeToDrive: the emergency stop is not looked at; a negative
\* gait_on_start_ is compared like any other.
IgnoringHes(s) ==
    /\ StatusFresh(s)
    /\ s.body.control_usage_mode = UsageMode /\ s.body.motion_state = 17
    /\ GaitOnStart < 0 \/ s.body.gait = GaitOnStart
AlwaysComparingGait(s) ==
    /\ StatusFresh(s)
    /\ s.body.hes = 0 /\ s.body.control_usage_mode = UsageMode
    /\ s.body.motion_state = 17 /\ s.body.gait = GaitOnStart

SafeToDrive(s) ==
    /\ StatusFresh(s)
    /\ s.body.hes = 0
    /\ s.body.control_usage_mode = UsageMode
    /\ s.body.motion_state = 17
    /\ GaitOnStart < 0 \/ s.body.gait = GaitOnStart

AxisCommand(tw) ==
    [a \in Axes |-> AxisValue(UsageMode, tw[a], MaxV[a], FullScale[a])]

\* What the properties mean by a status that permits driving, written down
\* apart from the gate they judge.
Drivable(b) ==
    /\ b.motion_state = 17 /\ b.hes = 0 /\ b.control_usage_mode = UsageMode
    /\ GaitOnStart >= 0 => b.gait = GaitOnStart
CacheDrivable == last_basic_status.valid /\ Drivable(last_basic_status.body)

-----------------------------------------------------------------------------
\* The startup steps leave a status in the cache or not; nothing was sent.
Init ==
    /\ now = 0
    /\ twist = Zero /\ last_cmd_time = 0 /\ have_cmd = FALSE
    /\ \/ last_basic_status = NoStatus
       \/ \E b \in Bodies : last_basic_status = [NoStatus EXCEPT !.valid = TRUE, !.body = b]
    /\ recv = NoStatus /\ inbound = {}
    /\ pc = "idle" /\ vel = Zero /\ timed_out = TRUE
    /\ status = NoStatus /\ frame = Stop
    /\ axis = Stop /\ robot_axis = Stop
    /\ began = 0 /\ withdrawn = 0 /\ stale_drives = 0

\* cmdVelCallback: the message is stamped when it is handled.
CmdVelCallback(tw) ==
    /\ pc = "idle"
    /\ twist' = tw /\ last_cmd_time' = now /\ have_cmd' = TRUE
    /\ UNCHANGED <<now, recv_vars, control_vars, wire_vars, history>>

\* Mutant of ReadCmd: have_cmd_ alone decides.
ReadCmdAgeless ==
    /\ pc = "idle"
    /\ pc' = "cmd_read"
    /\ vel' = twist
    /\ timed_out' = ~have_cmd
    /\ began' = now
    /\ UNCHANGED <<now, cmd_vars, recv_vars, status, frame, wire_vars, withdrawn, stale_drives>>

\* Mutant of ReadCmd: the age is taken at the previous callback, as with a
\* time stamp the timer event carries.
ReadCmdEventTime ==
    /\ pc = "idle"
    /\ pc' = "cmd_read"
    /\ vel' = twist
    /\ timed_out' = (~have_cmd \/ began - last_cmd_time > CmdTimeout)
    /\ began' = now
    /\ UNCHANGED <<now, cmd_vars, recv_vars, status, frame, wire_vars, withdrawn, stale_drives>>

\* controlTimerCallback under cmd_mutex_.
ReadCmd ==
    /\ pc = "idle"
    /\ pc' = "cmd_read"
    /\ vel' = twist
    /\ timed_out' = (~have_cmd \/ now - last_cmd_time > CmdTimeout)
    /\ began' = now
    /\ UNCHANGED <<now, cmd_vars, recv_vars, status, frame, wire_vars, withdrawn, stale_drives>>

\* controlTimerCallback under status_mutex_.
ReadStatus ==
    /\ pc = "cmd_read"
    /\ pc' = "status_read"
    /\ status' = last_basic_status
    /\ UNCHANGED <<now, cmd_vars, recv_vars, vel, timed_out, frame, wire_vars, history>>

\* Mutant of Decide: both watchdogs must trip.
DecideBoth ==
    /\ pc = "status_read"
    /\ pc' = "decided"
    /\ frame' = IF timed_out /\ ~SafeToDrive(status) THEN Stop ELSE AxisCommand(vel)
    /\ UNCHANGED <<now, cmd_vars, recv_vars, vel, timed_out, status, wire_vars, history>>

\* The gate, on the copies, with no lock held.
Decide ==
    /\ pc = "status_read"
    /\ pc' = "decided"
    /\ frame' = IF timed_out \/ ~SafeToDrive(status) THEN Stop ELSE AxisCommand(vel)
    /\ UNCHANGED <<now, cmd_vars, recv_vars, vel, timed_out, status, wire_vars, history>>

\* Mutant of SendAxis: a command equal to the last one is not sent again.
SendAxisOnChange(delivered) ==
    /\ pc = "decided"
    /\ pc' = "idle"
    /\ axis' = frame
    /\ robot_axis' = IF delivered /\ frame # axis THEN frame ELSE robot_axis
    /\ stale_drives' = IF frame # Stop /\ ~CacheDrivable THEN stale_drives + 1 ELSE stale_drives
    /\ vel' = Zero /\ timed_out' = TRUE /\ status' = NoStatus /\ frame' = Stop
    /\ UNCHANGED <<now, cmd_vars, recv_vars, began, withdrawn>>

\* sendSpeedCommand: its result is ignored, so a failed send and a datagram
\* the network loses are the same to the node.
SendAxis(delivered) ==
    /\ pc = "decided"
    /\ pc' = "idle"
    /\ axis' = frame
    /\ robot_axis' = IF delivered THEN frame ELSE robot_axis
    /\ stale_drives' = IF frame # Stop /\ ~CacheDrivable THEN stale_drives + 1 ELSE stale_drives
    /\ vel' = Zero /\ timed_out' = TRUE /\ status' = NoStatus /\ frame' = Stop
    /\ UNCHANGED <<now, cmd_vars, recv_vars, began, withdrawn>>

-----------------------------------------------------------------------------
\* The robot produces a report.  Reports travel in a set: UDP may reorder them.
EmitReport(b) ==
    /\ Cardinality(inbound) < MaxInFlight
    /\ inbound' = inbound \cup {[body |-> b, born |-> now]}
    /\ UNCHANGED <<now, cmd_vars, last_basic_status, recv, control_vars, wire_vars, history>>

\* Mutant of DropReport: a rejected report still refreshes the stamp.
DropReportRefreshing(r) ==
    /\ inbound' = inbound \ {r}
    /\ last_basic_status' = [last_basic_status EXCEPT !.stamp = now]
    /\ UNCHANGED <<now, cmd_vars, recv, control_vars, wire_vars, history>>

\* The network loses a report, or handleBasicStatus rejects it: a field of
\* the gate is missing and the previous status stays as it was.
DropReport(r) ==
    /\ inbound' = inbound \ {r}
    /\ UNCHANGED <<now, cmd_vars, last_basic_status, recv, control_vars, wire_vars, history>>

\* handleBasicStatus reads the fields and stamps them; the lock is not held.
ReceiveReport(r) ==
    /\ ~recv.valid
    /\ inbound' = inbound \ {r}
    /\ recv' = Stored(r)
    /\ UNCHANGED <<now, cmd_vars, last_basic_status, control_vars, wire_vars, history>>

\* handleBasicStatus under status_mutex_: the last report stored wins, older
\* or newer.
StoreReport ==
    /\ recv.valid
    /\ last_basic_status' = recv
    /\ recv' = NoStatus
    /\ IF CacheDrivable /\ ~Drivable(recv.body)
       THEN withdrawn' = now /\ stale_drives' = 0
       ELSE UNCHANGED <<withdrawn, stale_drives>>
    /\ UNCHANGED <<now, cmd_vars, inbound, control_vars, wire_vars, began>>

\* Time passes, within the bounds the deployment is assumed to keep.
Tick ==
    /\ now < MaxTime
    /\ pc = "idle" => now - began < ControlPeriod
    /\ pc # "idle" => now - began < MaxStall
    /\ \A r \in inbound : now - r.born < MaxDelay
    /\ now' = now + 1
    /\ UNCHANGED <<cmd_vars, recv_vars, control_vars, wire_vars, history>>

Control == ReadCmd \/ ReadStatus \/ Decide \/ \E delivered \in BOOLEAN : SendAxis(delivered)
Receive == (\E r \in inbound : ReceiveReport(r)) \/ StoreReport

Next ==
    \/ \E tw \in Twists : CmdVelCallback(tw)
    \/ Control
    \/ \E b \in Bodies : EmitReport(b)
    \/ \E r \in inbound : DropReport(r)
    \/ Receive
    \/ Tick

Spec == Init /\ [][Next]_vars

(* The timer keeps firing and the threads keep running; a command sent again
   and again arrives again and again.  Nothing obliges the robot to report or
   the planner to publish. *)
Fairness ==
    /\ WF_vars(Tick)
    /\ WF_vars(ReadCmd) /\ WF_vars(ReadStatus) /\ WF_vars(Decide)
    /\ SF_vars(SendAxis(TRUE)) /\ WF_vars(\E delivered \in BOOLEAN : SendAxis(delivered))
    /\ WF_vars(Receive)

FairSpec == Spec /\ Fairness

-----------------------------------------------------------------------------
\* Safety.

Report == [body : Body, born : Nat]
Status == [valid : BOOLEAN, stamp : Nat, body : Body, born : Nat]

StatusOK(s) ==
    /\ s \in Status
    /\ s.stamp <= now /\ s.born <= s.stamp /\ s.stamp - s.born <= MaxDelay

(* Types, and the facts that tie them: stamps lie in the past, and a stored
   report is no older than MaxDelay when it is stamped. *)
TypeOK ==
    /\ now \in Nat
    /\ twist \in [Axes -> Double] /\ last_cmd_time \in 0 .. now /\ have_cmd \in BOOLEAN
    /\ StatusOK(last_basic_status) /\ StatusOK(recv) /\ StatusOK(status)
    /\ inbound \subseteq Report
    /\ \A r \in inbound : r.born <= now /\ now - r.born <= MaxDelay
    /\ pc \in {"idle", "cmd_read", "status_read", "decided"}
    /\ vel \in [Axes -> Double] /\ timed_out \in BOOLEAN
    /\ frame \in [Axes -> Double] /\ axis \in [Axes -> Double] /\ robot_axis \in [Axes -> Double]
    /\ began \in 0 .. now /\ withdrawn \in 0 .. now /\ stale_drives \in Nat

\* The longest time between two looks at the gate, and between a look that
\* should stop the robot and the command that does.
Gap == IF ControlPeriod > MaxStall THEN ControlPeriod ELSE MaxStall
Reaction == Gap + MaxStall

(* The gate is decided on a copy of the status, and the command leaves after
   the lock is released: when a report that forbids driving is stored in
   between, one drive command still goes out.  Never two, and never one
   before the first report (CmdVelBridge.cpp:739-797). *)
AtMostOneStaleDrive ==
    /\ ~CacheDrivable => stale_drives <= 1
    /\ ~last_basic_status.valid => stale_drives = 0 /\ axis = Stop

(* Once the stored status forbids driving - emergency stop, other mode, other
   state, other gait - the last command sent is a stop within one control
   period and one callback, whatever order reports arrive in
   (CmdVelBridge.cpp:745-778). *)
UnsafeStops ==
    ~CacheDrivable /\ axis # Stop => now <= withdrawn + Reaction

(* The watchdog on cmd_vel: a drive command is the last one sent only while a
   cmd_vel was handled at most cmd_timeout_sec plus one reaction ago
   (CmdVelBridge.h:217, CmdVelBridge.cpp:736). *)
CmdLossStops ==
    axis # Stop => have_cmd /\ now <= last_cmd_time + CmdTimeout + Reaction

(* The watchdog on the reports: a drive command is the last one sent only
   while a report was stored at most status_timeout_sec plus one reaction ago
   (CmdVelBridge.h:70-74, CmdVelBridge.cpp:751-756). *)
ReportLossStops ==
    axis # Stop => now <= last_basic_status.stamp + StatusTimeout + Reaction

(* A drive command is sent only on a status that was drivable on the robot at
   most MaxDelay + status_timeout_sec + MaxStall before, and on a velocity
   handled at most cmd_timeout_sec + MaxStall before, the latest one: the
   bound holds for reports that are reordered or stored late as well. *)
DriveBacked ==
    [][ pc = "decided" /\ pc' = "idle" /\ axis' # Stop =>
          /\ status.valid /\ Drivable(status.body)
          /\ now <= status.born + MaxDelay + StatusTimeout + MaxStall
          /\ now <= last_cmd_time + CmdTimeout + MaxStall
          /\ axis' = AxisCommand(twist) ]_vars

-----------------------------------------------------------------------------
\* Liveness.

Blocked ==
    \/ ~have_cmd \/ now - last_cmd_time > CmdTimeout
    \/ ~CacheDrivable \/ now - last_basic_status.stamp > StatusTimeout
Driving == ~Blocked /\ AxisCommand(twist) # Stop

(* A single stop command can be lost, and nothing acknowledges it.  Because
   the node repeats it, a robot that must stop for good does stop and stays
   stopped (CmdVelBridge.cpp:766-778; the period is CmdVelBridge.h:216). *)
RobotEventuallyStops == <>[]Blocked => <>[](robot_axis = Stop)

(* The gate does not stay shut without a reason: while command and status
   keep permitting it, the robot ends up driving. *)
RobotEventuallyDrives == <>[]Driving => <>[](robot_axis # Stop)
-----------------------------------------------------------------------------
\* The abstract specification this module implements.

Never == -(Reaction + 1)

\* When driving stops being permitted: the latest cmd_vel expires, the stored
\* status expires, or a report has withdrawn the permission already.
Sooner(s, t) == IF s <= t THEN s ELSE t
Expiry ==
    IF ~have_cmd \/ ~last_basic_status.valid THEN Never
    ELSE LET unrenewed == Sooner(last_cmd_time + CmdTimeout,
                                 last_basic_status.stamp + StatusTimeout)
         IN  IF CacheDrivable THEN unrenewed ELSE Sooner(unrenewed, withdrawn)

Permit == INSTANCE DriveLease
              WITH clock <- now, expiry <- Expiry, driving <- axis # Stop, Grace <- Reaction

(* The control loop holds the robot's motion on a lease that the publisher
   and the robot must both keep renewing: each step of each thread is a step
   of DriveLease or none.  Unlike the bounds above it speaks of all three
   reasons to stop at once, and of no step that could make up for a drive
   command sent after the lease (CmdVelBridge.cpp:700-798). *)
ImplementsLease == Permit!Spec
=============================================================================
