------------------------------ MODULE Startup -------------------------------
(***************************************************************************)
(* The startup steps of the constructor (CmdVelBridge.cpp:549-698): switch *)
(* the usage mode, stand up, set the gait, log the final status.  Each     *)
(* sends one request, sleeps, and reads the reports back through           *)
(* waitForFreshBasicStatus while the receive thread stores them.           *)
(*                                                                         *)
(* Time is counted in ticks longer than the 0.02 s between two polls, and  *)
(* kept as the ticks a wait has left and the age of what is on the wire.   *)
(***************************************************************************)
EXTENDS Integers, Sequences, FiniteSets

CONSTANTS
    UsageMode, GaitOnStart,     \* usage_mode_, gait_on_start_ (negative: none)
    SetMode, AutoStand,         \* set_usage_mode_on_start_, auto_stand_on_start_
    ModeSettle, StandSettle,    \* mode_settle_sec_, stand_settle_sec_
    StatusWait,                 \* status_wait_timeout_sec_
    DefaultGait,                \* the gait a stand or a mode switch resets to
    RiseTime,                   \* the time the robot takes from stand (1) to RL (17)
    MaxDelay,                   \* the longest a request or a report takes
    Lossy,                      \* whether requests can be lost
    MaxInFlight                 \* bound: reports under way at once

ASSUME FlagAssumption == {SetMode, AutoStand, Lossy} \subseteq BOOLEAN
ASSUME SettingAssumption ==
    UsageMode \in {0, 1} /\ GaitOnStart \in Int /\ DefaultGait \in Int
ASSUME TimeAssumption ==
    /\ {ModeSettle, StandSettle, StatusWait, MaxDelay, MaxInFlight} \subseteq Nat
    /\ RiseTime \in Nat \ {0}

VARIABLES
    task, phase,        \* which startup step, and where in it
    waiting,            \* inside waitForFreshBasicStatus, cache invalidated
    left,               \* ticks until the current sleep or deadline ends
    confirmed,          \* in_rl_control
    ok,                 \* ros::ok()
    last_basic_status,  \* last_basic_status_
    recv,               \* the report handleBasicStatus has parsed, not stored
    reports, requests,  \* what is on the wire to the node and to the robot
    robot,              \* external: the state the robot reports
    rising,             \* external: ticks until it enters RL control
    \* History, read by no action.
    sent,               \* requests sent so far
    lost                \* some request was lost

main_vars == <<task, phase, waiting, left, confirmed>>
recv_vars == <<last_basic_status, recv, reports>>
robot_vars == <<robot, rising>>
vars == <<main_vars, ok, recv_vars, requests, robot_vars, sent, lost>>

Lying == 4
Standing == 1
RLControl == 17

\* A report carries the robot's state; as_of counts the requests sent when it
\* was produced, which the node cannot see.
NoStatus == [valid |-> FALSE, body |-> <<>>, as_of |-> 0, age |-> 0]

\* The order of the steps, those switched off left out.
Enabled(t) ==
    CASE t = "mode"  -> SetMode
      [] t = "stand" -> AutoStand
      [] t = "gait"  -> GaitOnStart >= 0
      [] OTHER       -> TRUE

\* Mutant of Order: the gait is set before standing up.
GaitFirst == <<"mode", "gait", "stand", "final", "done">>
Order == <<"mode", "stand", "gait", "final", "done">>

After(t) ==
    LET at == CHOOSE i \in 1 .. Len(Order) : Order[i] = t
        next == CHOOSE j \in at + 1 .. Len(Order) :
                   Enabled(Order[j]) /\ \A i \in at + 1 .. j - 1 : ~Enabled(Order[i])
    IN  Order[next]

FirstPhase(t) ==
    CASE t = "mode"              -> "check"
      [] t \in {"stand", "gait"} -> "request"
      [] t = "final"             -> "readback"
      [] t = "done"              -> "done"

\* Mutant of Proceed: the next step starts as if it were still waiting.
ProceedWaiting(t) ==
    /\ task' = t /\ phase' = FirstPhase(t)
    /\ waiting' = waiting /\ left' = 0

\* The step is over: its successor starts.
Proceed(t) ==
    /\ task' = t /\ phase' = FirstPhase(t)
    /\ waiting' = FALSE /\ left' = 0

-----------------------------------------------------------------------------
Init ==
    /\ LET first == IF SetMode THEN "mode" ELSE After("mode")
       IN  task = first /\ phase = FirstPhase(first)
    /\ waiting = FALSE /\ left = 0 /\ confirmed = FALSE /\ ok = TRUE
    /\ last_basic_status = NoStatus /\ recv = NoStatus
    /\ reports = {} /\ requests = <<>>
    /\ robot \in [motion_state : {Lying, RLControl},
                  gait : {DefaultGait, GaitOnStart}, control_usage_mode : {0, 1}]
    /\ rising = 0
    /\ sent = 0 /\ lost = FALSE

\* sendRequest for the step; a failed or lost send is not noticed.
SendRequest(arrives) ==
    /\ phase = "request"
    /\ arrives \/ Lossy
    /\ requests' = IF arrives THEN Append(requests, [kind |-> task, age |-> 0]) ELSE requests
    /\ lost' = (lost \/ ~arrives)
    /\ sent' = sent + 1
    /\ phase' = "settle"
    /\ left' = IF task = "stand" THEN StandSettle ELSE ModeSettle
    /\ UNCHANGED <<task, waiting, confirmed, ok, recv_vars, robot_vars>>

\* The sleep is over.  autoStandOnStart fixes the deadline of all its waits here.
EndSettle ==
    /\ phase = "settle" /\ left = 0
    /\ phase' = "readback"
    /\ left' = StatusWait
    /\ UNCHANGED <<task, waiting, confirmed, ok, recv_vars, requests, robot_vars, sent, lost>>

\* Mutants of BeginWait: the old status is kept; every wait of
\* autoStandOnStart gets the whole timeout again.
BeginWaitKeeping ==
    /\ phase \in {"check", "readback"} /\ ~waiting
    /\ task = "stand" => ok /\ left > 0
    /\ waiting' = TRUE
    /\ left' = IF task = "stand" THEN left ELSE StatusWait
    /\ UNCHANGED <<task, phase, confirmed, ok, recv_vars, requests, robot_vars, sent, lost>>
BeginWaitAnew ==
    /\ phase \in {"check", "readback"} /\ ~waiting
    /\ task = "stand" => ok /\ left > 0
    /\ last_basic_status' = [last_basic_status EXCEPT !.valid = FALSE]
    /\ waiting' = TRUE
    /\ left' = StatusWait
    /\ UNCHANGED <<task, phase, confirmed, ok, recv, reports, requests, robot_vars, sent, lost>>

\* waitForFreshBasicStatus drops the status it has.
BeginWait ==
    /\ phase \in {"check", "readback"} /\ ~waiting
    /\ task = "stand" => ok /\ left > 0
    /\ last_basic_status' = [last_basic_status EXCEPT !.valid = FALSE]
    /\ waiting' = TRUE
    /\ left' = IF task = "stand" THEN left ELSE StatusWait
    /\ UNCHANGED <<task, phase, confirmed, ok, recv, reports, requests, robot_vars, sent, lost>>

\* A poll of waitForFreshBasicStatus finds a status, and its caller acts on it.
ReadFresh ==
    /\ waiting /\ ok /\ left > 0 /\ last_basic_status.valid
    /\ LET body == last_basic_status.body IN
       \/ /\ task = "mode" /\ phase = "check" /\ body.control_usage_mode # UsageMode
          /\ phase' = "request" /\ waiting' = FALSE /\ left' = 0
          /\ UNCHANGED <<task, confirmed>>
       \/ /\ task = "stand" /\ body.motion_state # RLControl
          /\ waiting' = FALSE
          /\ UNCHANGED <<task, phase, left, confirmed>>
       \/ /\ ~(task = "mode" /\ phase = "check" /\ body.control_usage_mode # UsageMode)
          /\ ~(task = "stand" /\ body.motion_state # RLControl)
          /\ Proceed(After(task))
          /\ confirmed' = (confirmed \/ task = "stand")
    /\ UNCHANGED <<ok, recv_vars, requests, robot_vars, sent, lost>>

\* The deadline passes or the node is shutting down.  Every step goes on all
\* the same: the usage mode is requested blindly, the others only warn.
GiveUp ==
    /\ phase \in {"check", "readback"}
    /\ waiting \/ task = "stand"
    /\ left = 0 \/ ~ok
    /\ IF phase = "check"
       THEN phase' = "request" /\ waiting' = FALSE /\ left' = 0 /\ UNCHANGED task
       ELSE Proceed(After(task))
    /\ UNCHANGED <<confirmed, ok, recv_vars, requests, robot_vars, sent, lost>>

Sigint ==
    /\ ok
    /\ ok' = FALSE
    /\ UNCHANGED <<main_vars, recv_vars, requests, robot_vars, sent, lost>>

-----------------------------------------------------------------------------
\* The receive thread.

ReceiveReport(r) ==
    /\ ~recv.valid
    /\ reports' = reports \ {r}
    /\ recv' = r
    /\ UNCHANGED <<main_vars, ok, last_basic_status, requests, robot_vars, sent, lost>>

StoreReport ==
    /\ recv.valid
    /\ last_basic_status' = [recv EXCEPT !.age = 0]
    /\ recv' = NoStatus
    /\ UNCHANGED <<main_vars, ok, reports, requests, robot_vars, sent, lost>>

-----------------------------------------------------------------------------
\* External: the robot and the network.

EmitReport ==
    /\ Cardinality(reports) < MaxInFlight
    /\ reports' = reports \cup {[valid |-> TRUE, body |-> robot, as_of |-> sent, age |-> 0]}
    /\ UNCHANGED <<main_vars, ok, last_basic_status, recv, requests, robot_vars, sent, lost>>

DropReport(r) ==
    /\ reports' = reports \ {r}
    /\ UNCHANGED <<main_vars, ok, last_basic_status, recv, requests, robot_vars, sent, lost>>

\* A gait is accepted in RL control only; a stand or a mode switch resets it.
Obey(kind) ==
    CASE kind = "mode"  -> [robot EXCEPT !.control_usage_mode = UsageMode, !.gait = DefaultGait]
      [] kind = "stand" -> [robot EXCEPT !.motion_state = Standing, !.gait = DefaultGait]
      [] kind = "gait"  -> IF robot.motion_state = RLControl
                           THEN [robot EXCEPT !.gait = GaitOnStart] ELSE robot

DeliverRequest ==
    /\ requests # <<>>
    /\ requests' = Tail(requests)
    /\ robot' = Obey(Head(requests).kind)
    /\ rising' = IF Head(requests).kind = "stand" THEN RiseTime ELSE rising
    /\ UNCHANGED <<main_vars, ok, recv_vars, sent, lost>>

\* One tick.  Nothing on the wire outlives MaxDelay, a poll happens within a
\* tick, and a sleep that is over ends.
Tick ==
    /\ left > 0
    /\ phase \in {"check", "readback"} => waiting /\ ok /\ ~last_basic_status.valid
    /\ \A r \in reports \cup {recv} : r.age < MaxDelay
    /\ \A i \in DOMAIN requests : requests[i].age < MaxDelay
    /\ left' = left - 1
    /\ reports' = {[r EXCEPT !.age = @ + 1] : r \in reports}
    /\ recv' = IF recv.valid THEN [recv EXCEPT !.age = @ + 1] ELSE recv
    /\ requests' = [i \in DOMAIN requests |-> [requests[i] EXCEPT !.age = @ + 1]]
    /\ rising' = IF rising > 0 THEN rising - 1 ELSE 0
    /\ robot' = IF rising = 1 THEN [robot EXCEPT !.motion_state = RLControl] ELSE robot
    /\ UNCHANGED <<task, phase, waiting, confirmed, ok, last_basic_status, sent, lost>>

-----------------------------------------------------------------------------
MainStep ==
    \/ \E arrives \in BOOLEAN : SendRequest(arrives)
    \/ EndSettle \/ BeginWait \/ ReadFresh \/ GiveUp

Receive == (\E r \in reports : ReceiveReport(r)) \/ StoreReport

\* A report that has been under way for MaxDelay arrives now or never.
ArriveOrVanish ==
    \E r \in reports : r.age = MaxDelay /\ (ReceiveReport(r) \/ DropReport(r))

Next ==
    \/ MainStep
    \/ Sigint
    \/ Receive
    \/ EmitReport
    \/ \E r \in reports : DropReport(r)
    \/ DeliverRequest
    \/ Tick

Spec == Init /\ [][Next]_vars

(* The threads run and the network delivers what it does not lose; nothing
   obliges the robot to report.  Reports cannot hold time still: Tick is
   strongly fair. *)
Fairness ==
    /\ WF_vars(MainStep) /\ WF_vars(Receive)
    /\ WF_vars(ArriveOrVanish) /\ WF_vars(DeliverRequest)
    /\ SF_vars(Tick)

FairSpec == Spec /\ Fairness

-----------------------------------------------------------------------------
Body == [motion_state : {Lying, Standing, RLControl},
         gait : {DefaultGait, GaitOnStart}, control_usage_mode : {0, 1}]

\* Types, and where the control can be.
TypeOK ==
    /\ task \in {"mode", "stand", "gait", "final", "done"}
    /\ phase \in {"check", "request", "settle", "readback", "done"}
    /\ waiting => phase \in {"check", "readback"}
    /\ (phase = "done") <=> (task = "done")
    /\ left \in Nat /\ {confirmed, ok, lost, waiting} \subseteq BOOLEAN
    /\ \A s \in reports \cup {recv, last_basic_status} :
          s.valid => s.body \in Body /\ s.as_of <= sent /\ s.age <= MaxDelay
    /\ robot \in Body /\ rising \in 0 .. RiseTime
    /\ (robot.motion_state = Standing) <=> rising > 0
    /\ sent \in 0 .. 3 /\ Len(requests) <= sent

(* waitForFreshBasicStatus: the status a readback acts on was produced after
   the request it reads back was sent - "first drop the old frame, so that
   what we wait for is a state produced after the request" (CmdVelBridge.cpp:551).*)
ReadbackAfterRequest ==
    [][ ReadFresh /\ phase = "readback" => last_basic_status.as_of = sent ]_vars

(* The gait request leaves only after a report has confirmed RL control:
   "it must wait until standing up has reached 17" (CmdVelBridge.cpp:672-673),
   "the startup flow reads BasicStatus back and continues once 17 is confirmed"
   (config/deep_bridge.yaml:73-74). *)
GaitAfterRL ==
    task = "gait" /\ phase \in {"settle", "readback"} /\ ok => confirmed

(* A startup in which no request is lost ends with the robot in the state the
   control loop's gate asks for, from whatever state it started in, although
   a mode switch and a stand each reset the gait and reports may be lost,
   late or absent (CmdVelBridge.cpp:105-115, 745-764). *)
ReadyWhenDone ==
    task = "done" /\ ok /\ ~lost =>
        /\ SetMode => robot.control_usage_mode = UsageMode
        /\ AutoStand => robot.motion_state = RLControl
        /\ AutoStand /\ GaitOnStart >= 0 => robot.gait = GaitOnStart

\* The longest each step lasts by its settings, and the longest the constructor
\* can still take: what is left of this step, and the steps after it.
Longest ==
    [ mode  |-> IF SetMode THEN StatusWait + ModeSettle + StatusWait ELSE 0,
      stand |-> IF AutoStand THEN StandSettle + StatusWait ELSE 0,
      gait  |-> IF GaitOnStart >= 0 THEN ModeSettle + StatusWait ELSE 0,
      final |-> StatusWait ]
LongestAfter ==
    [ mode |-> Longest.stand + Longest.gait + Longest.final,
      stand |-> Longest.gait + Longest.final, gait |-> Longest.final, final |-> 0, done |-> 0 ]
TimeLeft ==
    LET settle == IF task = "stand" THEN StandSettle ELSE ModeSettle
        wait == IF waiting \/ task = "stand" THEN left ELSE StatusWait
        here == CASE phase = "check"    -> wait + ModeSettle + StatusWait
                  [] phase = "request"  -> settle + StatusWait
                  [] phase = "settle"   -> left + StatusWait
                  [] phase = "readback" -> wait
                  [] phase = "done"     -> 0
    IN  here + LongestAfter[task]

OnTime == TimeLeft' <= TimeLeft /\ (Tick => TimeLeft' < TimeLeft)

(* Startup keeps to its settings: however many reports of the wrong state
   arrive and however often autoStandOnStart waits anew, no step adds to the
   time the constructor can still take, and time that passes uses it up
   (CmdVelBridge.cpp:556-568, 650-660). *)
StartupOnTime == [][OnTime]_vars

(* The constructor does not hang: a robot that says nothing, or that never
   stands up, ends every wait by its deadline (CmdVelBridge.cpp:556-568,
   650-660). *)
StartupTerminates == <>(task = "done")
=============================================================================
