---------------------------- MODULE SpeedCommand ----------------------------
(***************************************************************************)
(* One axis of the node: parameters read once by the constructor, then a   *)
(* sequence of requested velocities turned into axis commands.             *)
(***************************************************************************)
EXTENDS SpeedScaling

CONSTANTS
    Requests,       \* velocities an axis may be asked for
    Limits,         \* values of max_v*
    FullScales,     \* values of full_scale_v*
    Modes           \* values of the usage_mode parameter

ASSUME InputAssumption ==
    Requests \subseteq Double /\ Limits \subseteq Double /\ FullScales \subseteq Double

VARIABLES
    config,         \* the parameters read by the constructor
    request,        \* velocity of the latest cmd_vel, one axis of it
    axis            \* component of the axis command sent for it

vars == <<config, request, axis>>

Sent(c, v) == AxisValue(EffectiveUsageMode(c.mode), v, c.max_v, c.full_scale)

Init ==
    /\ config \in [mode : Modes, max_v : Limits, full_scale : FullScales]
    /\ request = 0
    /\ axis = Sent(config, 0)

Command(v) ==
    /\ request' = v
    /\ axis' = Sent(config, v)
    /\ UNCHANGED config

Next == \E v \in Requests : Command(v)

Spec == Init /\ [][Next]_vars

-----------------------------------------------------------------------------

Magnitude(x) == IF x < 0 THEN -x ELSE x
Navigating == config.mode = 1

(* The speed the robot executes never exceeds the configured limit, whatever
   kind of command carries it: a ratio is executed as a share of full_scale.
   The limit is the only one there is in navigation mode
   (CmdVelBridge.cpp:780-797). *)
ExecutedWithinLimit ==
    LET limit == IF config.max_v > 0 THEN config.max_v ELSE 0
    IN  IF Navigating THEN Magnitude(axis) <= limit
        ELSE config.full_scale > 0 => Magnitude(axis) * config.full_scale <= limit * Unit

(* A larger request never produces a smaller command, and a request that goes
   back to zero produces zero: across every saturation boundary and for both
   signs the conversion preserves order (CmdVelBridge.cpp:26-42). *)
OrderPreserved ==
    [][ /\ (request # NaN /\ request' # NaN /\ request <= request') => axis <= axis'
        /\ request' = 0 => axis' = 0 ]_vars

(* A limit or full scale that is not a positive number means a command of
   zero, never a large one: "better not to move" (CmdVelBridge.cpp:27,34-36).*)
MisconfigurationStops ==
    /\ ~(config.max_v # NaN /\ config.max_v > 0) => axis = 0
    /\ ~Navigating /\ ~(config.full_scale # NaN /\ config.full_scale > 0) => axis = 0

=============================================================================
