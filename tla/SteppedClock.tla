---------------------------- MODULE SteppedClock ----------------------------
(***************************************************************************)
(* The control loop on a machine whose clock is set back while it runs.    *)
(* ros::Time::now() is the wall clock, so every stamp taken before the     *)
(* step lies ahead of it afterwards: ages turn negative, and the two tests *)
(* `age > timeout` fail until the clock has caught up (CmdVelBridge.cpp:   *)
(* 343, 705, 736, 753).  Here `now` stays the time that has passed and the *)
(* stamps move instead, which leaves every age the same.                   *)
(***************************************************************************)
EXTENDS ControlLoop

CONSTANT Steps      \* positive: by how much the clock may be set back

VARIABLES           \* history, read by no action
    cmd_at,         \* when cmdVelCallback last ran
    stepped         \* how far the clock has been set back since then

Ahead(s, d) == IF s.valid THEN [s EXCEPT !.stamp = @ + d] ELSE s

StepBack(d) ==
    /\ last_cmd_time' = last_cmd_time + d
    /\ last_basic_status' = Ahead(last_basic_status, d)
    /\ recv' = Ahead(recv, d)
    /\ status' = Ahead(status, d)
    /\ stepped' = stepped + d
    /\ UNCHANGED <<now, twist, have_cmd, inbound, pc, vel, timed_out, frame,
                   wire_vars, history, cmd_at>>

SteppedInit == Init /\ cmd_at = 0 /\ stepped = 0

SteppedNext ==
    \/ \E tw \in Twists : CmdVelCallback(tw) /\ cmd_at' = now /\ stepped' = 0
    \/ /\ \/ Control
          \/ \E b \in Bodies : EmitReport(b)
          \/ \E r \in inbound : DropReport(r)
          \/ Receive
          \/ Tick
       /\ UNCHANGED <<cmd_at, stepped>>
    \/ \E d \in Steps : StepBack(d)

stepped_vars == <<vars, cmd_at, stepped>>

SteppedSpec == SteppedInit /\ [][SteppedNext]_stepped_vars

-----------------------------------------------------------------------------
(* "No new cmd_vel for longer than this and zero speed is sent (safety
   watchdog)" (CmdVelBridge.h:217), in time that has really passed: what
   CmdLossStops says of the clock readings. *)
WatchdogBoundsDrive ==
    axis # Stop => now <= cmd_at + CmdTimeout + Reaction

(* What is left of it: the watchdog is late by no more than the clock was set
   back since the last cmd_vel, however often (CmdVelBridge.cpp:705, 736).
   UnsafeStops and AtMostOneStaleDrive, which speak of what a report says and
   not of how old it is, are left whole. *)
WatchdogLate ==
    axis # Stop => have_cmd /\ now <= cmd_at + CmdTimeout + Reaction + stepped
=============================================================================
