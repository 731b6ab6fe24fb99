--------------------------- MODULE MCSpeedCommand ---------------------------
(***************************************************************************)
(* Values of the constants of SpeedCommand for TLC: both signs, both sides *)
(* of every limit and full scale, and the NaN that a Twist or a parameter  *)
(* can hold.                                                               *)
(***************************************************************************)
EXTENDS SpeedCommand

SomeRequests == (-12 .. 12) \cup {NaN}
SomeLimits == {-1, 0, 3, 7}
SomeFullScales == {-2, 0, 2, 5, 9}
NaNFullScale == {5, NaN}
=============================================================================
