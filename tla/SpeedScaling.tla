---------------------------- MODULE SpeedScaling ----------------------------
(***************************************************************************)
(* The arithmetic between a requested velocity and the number an axis      *)
(* command carries: Clamp, ToRatio and the choice between the two kinds of *)
(* axis command (CmdVelBridge.cpp).                                        *)
(*                                                                         *)
(* A double is an integer number of mm/s (mrad/s for yaw), or NaN.  The    *)
(* code's threshold 1e-6 is below one such unit, so "<= 1e-6" is "<= 0".   *)
(* A ratio is an integer number of 1/Unit, so 1.0 is Unit.                 *)
(***************************************************************************)
EXTENDS Integers

CONSTANTS
    NaN,    \* the not-a-number double: every comparison with it is false
    Unit    \* the ratio 1.0

ASSUME NaNAssumption == NaN \notin Int
ASSUME UnitAssumption == Unit \in Nat \ {0}

Double == Int \cup {NaN}

\* usage_mode: only regular and navigation are supported, anything else in
\* the parameters falls back to regular.
Regular == 0
Navigation == 1
EffectiveUsageMode(mode) == IF mode = Navigation THEN Navigation ELSE Regular

Less(a, b) == a # NaN /\ b # NaN /\ a < b
Negated(a) == IF a = NaN THEN NaN ELSE -a

\* std::min(a, b) is "b < a ? b : a", std::max(a, b) is "a < b ? b : a": which
\* argument survives a NaN depends on the order the caller wrote them in.
StdMin(a, b) == IF Less(b, a) THEN b ELSE a
StdMax(a, b) == IF Less(a, b) THEN b ELSE a

\* The test "x <= 1e-6" that both functions use to recognise a bad setting.
NotPositive(x) == x # NaN /\ x <= 0

\* Mutants of Clamp: one bound forgotten; the test of the setting forgotten.
ClampAboveOnly(v, max_v) == IF NotPositive(max_v) THEN 0 ELSE StdMin(max_v, v)
ClampUntested(v, max_v) == StdMax(Negated(max_v), StdMin(max_v, v))

Clamp(v, max_v) ==
    IF NotPositive(max_v) THEN 0
    ELSE StdMax(Negated(max_v), StdMin(max_v, v))

\* v / full_scale in units of 1/Unit, rounded toward zero.
Quotient(v, full_scale) ==
    CASE v = NaN \/ full_scale = NaN -> NaN
      [] OTHER -> IF v >= 0 THEN (v * Unit) \div full_scale
                            ELSE -((-v * Unit) \div full_scale)

\* Mutant of ToRatio: std::min and std::max exchanged.
ToRatioSwapped(v, full_scale) ==
    IF NotPositive(full_scale) THEN 0
    ELSE StdMin(-Unit, StdMax(Unit, Quotient(v, full_scale)))

ToRatio(v, full_scale) ==
    IF NotPositive(full_scale) THEN 0
    ELSE StdMax(-Unit, StdMin(Unit, Quotient(v, full_scale)))

\* One component of the axis command: a speed in navigation mode, a ratio of
\* the robot's full scale otherwise.
AxisValue(mode, v, max_v, full_scale) ==
    IF mode = Navigation THEN Clamp(v, max_v)
                         ELSE ToRatio(Clamp(v, max_v), full_scale)
=============================================================================
