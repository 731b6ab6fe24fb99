--------------------------- MODULE MCControlLoop ----------------------------
(***************************************************************************)
(* Values of the constants of ControlLoop for TLC.                         *)
(***************************************************************************)
EXTENDS ControlLoop

PerAxis(x, y, yaw) == [a \in Axes |-> CASE a = "x" -> x [] a = "y" -> y [] a = "yaw" -> yaw]

\* The defaults of config/deep_bridge.yaml, in mm/s and mrad/s.
DefaultMaxV == PerAxis(750, 600, 1000)
DefaultFullScale == PerAxis(2000, 1000, 2000)

\* A velocity beyond the limits, so that the command is saturated.
Forward == PerAxis(1200, 0, -300)
OneTwist == {Forward}
TwoTwists == {Forward, Zero}

Walking == [motion_state |-> 17, gait |-> 4097, hes |-> 0, control_usage_mode |-> 0]
EStopped == [Walking EXCEPT !.hes = 1]
OtherGait == [Walking EXCEPT !.gait = 12290]
TwoBodies == {Walking, EStopped}

\* Navigation mode, no gait asked for: the robot may walk in any gait.
NoGait == -1
Navigating == [OtherGait EXCEPT !.control_usage_mode = 1]
NavigationBodies == {Navigating, OtherGait, [Navigating EXCEPT !.motion_state = 4]}
=============================================================================
