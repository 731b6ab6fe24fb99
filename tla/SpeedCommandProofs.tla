------------------------- MODULE SpeedCommandProofs -------------------------
(***************************************************************************)
(* Theorems about SpeedCommand for every set of requested velocities and   *)
(* of settings.  The settings are numbers: with a NaN among them they do   *)
(* not hold, which a run of MCSpeedCommand shows.                          *)
(***************************************************************************)
EXTENDS SpeedCommand, TLAPS

-----------------------------------------------------------------------------
\* Multiplication and division of integers.

LEMMA QuotientBound ==
    ASSUME NEW a \in Nat, NEW f \in Nat, f > 0
    PROVE  a \div f \in Nat /\ (a \div f) * f <= a
OBVIOUS

LEMMA QuotientMonotone ==
    ASSUME NEW a \in Nat, NEW b \in Nat, a <= b, NEW f \in Nat, f > 0
    PROVE  a \div f <= b \div f
OBVIOUS

LEMMA ProductMonotone ==
    ASSUME NEW a \in Int, NEW b \in Int, a <= b, NEW f \in Nat
    PROVE  a * f <= b * f
OBVIOUS

-----------------------------------------------------------------------------
\* Clamp.

(* Whatever is asked for, NaN included, Clamp returns a number within the
   limit, and zero for a limit that is not positive (CmdVelBridge.cpp:26-32).*)
LEMMA ClampBound ==
    ASSUME NEW v \in Double, NEW m \in Int
    PROVE  /\ Clamp(v, m) \in Int
           /\ m > 0 => Magnitude(Clamp(v, m)) <= m
           /\ m <= 0 => Clamp(v, m) = 0
BY NaNAssumption DEF Clamp, NotPositive, StdMax, StdMin, Less, Negated, Magnitude, Double

LEMMA ClampNumber ==
    ASSUME NEW v \in Int, NEW m \in Int, m > 0
    PROVE  Clamp(v, m) = IF v > m THEN m ELSE IF v < -m THEN -m ELSE v
<1>1. v # NaN /\ m # NaN /\ -m # NaN
  BY NaNAssumption
<1> QED BY <1>1 DEF Clamp, NotPositive, StdMax, StdMin, Less, Negated

LEMMA ClampMonotone ==
    ASSUME NEW v \in Int, NEW w \in Int, v <= w, NEW m \in Int
    PROVE  Clamp(v, m) <= Clamp(w, m)
<1>1. CASE m > 0
  BY <1>1, ClampNumber
<1>2. CASE m <= 0
  BY <1>2, NaNAssumption DEF Clamp, NotPositive
<1> QED BY <1>1, <1>2

LEMMA ClampZero ==
    ASSUME NEW m \in Int
    PROVE  Clamp(0, m) = 0
BY NaNAssumption DEF Clamp, NotPositive, StdMax, StdMin, Less, Negated

-----------------------------------------------------------------------------
\* ToRatio.

LEMMA QuotientFacts ==
    ASSUME NEW v \in Int, NEW f \in Nat, f > 0
    PROVE  /\ Quotient(v, f) \in Int
           /\ v >= 0 => Quotient(v, f) >= 0 /\ Quotient(v, f) * f <= v * Unit
           /\ v <= 0 => Quotient(v, f) <= 0 /\ -Quotient(v, f) * f <= -v * Unit
<1>1. Quotient(v, f) = IF v >= 0 THEN (v * Unit) \div f ELSE -((-v * Unit) \div f)
  BY NaNAssumption DEF Quotient
<1>2. CASE v >= 0
  <2>1. v * Unit \in Nat
    BY <1>2, UnitAssumption
  <2>2. (v * Unit) \div f \in Nat /\ ((v * Unit) \div f) * f <= v * Unit
    BY <2>1, QuotientBound
  <2>3. v <= 0 => v * Unit = 0 /\ (v * Unit) \div f = 0
    BY <1>2, UnitAssumption
  <2> QED BY <1>1, <1>2, <2>2, <2>3, UnitAssumption
<1>3. CASE v < 0
  <2>1. -v * Unit \in Nat
    BY <1>3, UnitAssumption
  <2>2. (-v * Unit) \div f \in Nat /\ ((-v * Unit) \div f) * f <= -v * Unit
    BY <2>1, QuotientBound
  <2> QED BY <1>1, <1>3, <2>2
<1> QED BY <1>2, <1>3

(* A ratio stays within -1.0 .. 1.0, and the speed it stands for is at most
   the speed it was made from (CmdVelBridge.cpp:37-42). *)
LEMMA RatioBound ==
    ASSUME NEW v \in Int, NEW f \in Nat, f > 0
    PROVE  /\ ToRatio(v, f) \in Int
           /\ Magnitude(ToRatio(v, f)) <= Unit
           /\ Magnitude(ToRatio(v, f)) * f <= Magnitude(v) * Unit
<1> DEFINE q == Quotient(v, f)
           r == ToRatio(v, f)
<1>1. q \in Int /\ Magnitude(q) * f <= Magnitude(v) * Unit
  <2>1. CASE v >= 0
    BY <2>1, QuotientFacts DEF Magnitude
  <2>2. CASE v < 0
    <3>1. q \in Int /\ q <= 0 /\ -q * f <= -v * Unit
      BY <2>2, QuotientFacts
    <3>2. Magnitude(v) = -v /\ Magnitude(q) = -q
      BY <2>2, <3>1 DEF Magnitude
    <3>3. (-q) * f = -q * f /\ (-v) * Unit = -v * Unit
      BY <3>1, UnitAssumption
    <3> QED BY <3>1, <3>2, <3>3
  <2> QED BY <2>1, <2>2
<1>2. r \in Int /\ Magnitude(r) <= Unit /\ Magnitude(r) <= Magnitude(q)
  BY <1>1, UnitAssumption, NaNAssumption DEF ToRatio, NotPositive, StdMax, StdMin, Less, Magnitude
<1>3. Magnitude(r) * f <= Magnitude(q) * f
  BY <1>1, <1>2, ProductMonotone DEF Magnitude
<1> QED BY <1>1, <1>2, <1>3, UnitAssumption DEF Magnitude

LEMMA RatioMonotone ==
    ASSUME NEW v \in Int, NEW w \in Int, v <= w, NEW f \in Int
    PROVE  ToRatio(v, f) <= ToRatio(w, f)
<1>1. CASE f <= 0
  BY <1>1, NaNAssumption DEF ToRatio, NotPositive
<1>2. CASE f > 0
  <2>1. Quotient(v, f) \in Int /\ Quotient(w, f) \in Int
    BY <1>2, QuotientFacts
  <2>2. Quotient(v, f) <= Quotient(w, f)
    <3>1. CASE v >= 0
      <4>1. v * Unit \in Nat /\ w * Unit \in Nat /\ v * Unit <= w * Unit
        BY <3>1, UnitAssumption, ProductMonotone
      <4> QED BY <1>2, <3>1, <4>1, QuotientMonotone, NaNAssumption DEF Quotient
    <3>2. CASE v < 0 /\ w >= 0
      <4>1. Quotient(v, f) <= 0 /\ Quotient(w, f) >= 0
        BY <1>2, <3>2, QuotientFacts
      <4> QED BY <2>1, <4>1
    <3>3. CASE w < 0
      <4>1. -v * Unit \in Nat /\ -w * Unit \in Nat /\ -w * Unit <= -v * Unit
        BY <3>3, UnitAssumption, ProductMonotone
      <4>2. (-w * Unit) \div f <= (-v * Unit) \div f
        BY <1>2, <4>1, QuotientMonotone
      <4>3. Quotient(v, f) = -((-v * Unit) \div f) /\ Quotient(w, f) = -((-w * Unit) \div f)
        BY <1>2, <3>3, NaNAssumption DEF Quotient
      <4>4. (-v * Unit) \div f \in Int /\ (-w * Unit) \div f \in Int
        BY <1>2, <4>1, QuotientBound
      <4> QED BY <4>2, <4>3, <4>4
    <3> QED BY <3>1, <3>2, <3>3
  <2> QED BY <1>2, <2>1, <2>2, UnitAssumption, NaNAssumption
         DEF ToRatio, NotPositive, StdMax, StdMin, Less
<1> QED BY <1>1, <1>2

LEMMA RatioZero ==
    ASSUME NEW f \in Int
    PROVE  ToRatio(0, f) = 0
<1>1. CASE f <= 0
  BY <1>1, NaNAssumption DEF ToRatio, NotPositive
<1>2. CASE f > 0
  <2>1. Quotient(0, f) = 0
    BY <1>2, QuotientFacts
  <2> QED BY <1>2, <2>1, UnitAssumption, NaNAssumption DEF ToRatio, NotPositive, StdMax, StdMin, Less
<1> QED BY <1>1, <1>2

-----------------------------------------------------------------------------
\* The axis command.

Settings == [mode : Modes, max_v : Limits, full_scale : FullScales]
NumericSettings == Limits \subseteq Int /\ FullScales \subseteq Int

SentInv == config \in Settings /\ request \in Double /\ axis = Sent(config, request)

LEMMA SentNext == SentInv /\ [Next]_vars => SentInv'
BY InputAssumption DEF SentInv, Settings, Next, Command, vars

LEMMA SentHolds == Spec => []SentInv
<1>1. Init => SentInv
  BY DEF Init, SentInv, Settings, Double
<1> QED BY <1>1, SentNext, PTL DEF Spec

LEMMA SentIs ==
    ASSUME NEW v
    PROVE  Sent(config, v) =
              IF Navigating THEN Clamp(v, config.max_v)
                            ELSE ToRatio(Clamp(v, config.max_v), config.full_scale)
BY DEF Sent, AxisValue, EffectiveUsageMode, Navigating, Navigation, Regular

(* For every numeric setting and every request, NaN included, the speed the
   robot executes is at most the configured limit (CmdVelBridge.cpp:780-797).*)
THEOREM LimitHolds ==
    ASSUME NumericSettings
    PROVE  Spec => []ExecutedWithinLimit
<1>1. SentInv => ExecutedWithinLimit
  <2> SUFFICES ASSUME SentInv PROVE ExecutedWithinLimit
    OBVIOUS
  <2> DEFINE m == config.max_v
             f == config.full_scale
             limit == IF m > 0 THEN m ELSE 0
             c == Clamp(request, m)
  <2>1. m \in Int /\ f \in Int /\ request \in Double
    BY DEF SentInv, Settings, NumericSettings
  <2>2. c \in Int /\ Magnitude(c) <= limit /\ Magnitude(c) \in Int /\ limit \in Nat
    BY <2>1, ClampBound DEF Magnitude
  <2>3. CASE Navigating
    BY <2>2, <2>3, SentIs DEF SentInv, ExecutedWithinLimit
  <2>4. CASE ~Navigating /\ f > 0
    <3>1. axis = ToRatio(c, f)
      BY <2>4, SentIs DEF SentInv
    <3>2. Magnitude(axis) * f <= Magnitude(c) * Unit
      BY <2>1, <2>2, <2>4, <3>1, RatioBound
    <3>3. Magnitude(c) * Unit <= limit * Unit
      BY <2>2, UnitAssumption, ProductMonotone
    <3>4. Magnitude(axis) * f \in Int /\ Magnitude(c) * Unit \in Int /\ limit * Unit \in Int
      <4>1. axis \in Int /\ Magnitude(axis) \in Int
        BY <2>1, <2>2, <2>4, <3>1, RatioBound DEF Magnitude
      <4> QED BY <2>1, <2>2, <4>1, UnitAssumption
    <3>5. Magnitude(axis) * f <= limit * Unit
      BY <3>2, <3>3, <3>4
    <3> QED BY <2>4, <3>5 DEF ExecutedWithinLimit
  <2>5. CASE ~Navigating /\ ~(f > 0)
    BY <2>5 DEF ExecutedWithinLimit
  <2> QED BY <2>3, <2>4, <2>5
<1> QED BY <1>1, SentHolds, PTL

(* Every numeric setting that is not positive makes the command zero
   (CmdVelBridge.cpp:27, 34-36). *)
THEOREM MisconfigurationHolds ==
    ASSUME NumericSettings
    PROVE  Spec => []MisconfigurationStops
<1>1. SentInv => MisconfigurationStops
  <2> SUFFICES ASSUME SentInv PROVE MisconfigurationStops
    OBVIOUS
  <2>1. config.max_v \in Int /\ config.full_scale \in Int /\ request \in Double
    BY DEF SentInv, Settings, NumericSettings
  <2>2. config.max_v <= 0 => axis = 0
    BY <2>1, ClampBound, RatioZero, SentIs DEF SentInv
  <2>3. ~Navigating /\ config.full_scale <= 0 => axis = 0
    BY <2>1, SentIs, NaNAssumption DEF SentInv, ToRatio, NotPositive
  <2> QED BY <2>1, <2>2, <2>3, NaNAssumption DEF MisconfigurationStops
<1> QED BY <1>1, SentHolds, PTL

(* Under every numeric setting a larger request is never executed as a
   smaller command, and a request of zero is a command of zero
   (CmdVelBridge.cpp:26-42). *)
THEOREM OrderHolds ==
    ASSUME NumericSettings
    PROVE  Spec => OrderPreserved
<1>1. SentInv /\ [Next]_vars =>
        [ /\ (request # NaN /\ request' # NaN /\ request <= request') => axis <= axis'
          /\ request' = 0 => axis' = 0 ]_vars
  <2> SUFFICES ASSUME SentInv, Next
               PROVE  /\ (request # NaN /\ request' # NaN /\ request <= request') => axis <= axis'
                      /\ request' = 0 => axis' = 0
    OBVIOUS
  <2>1. config.max_v \in Int /\ config.full_scale \in Int
    BY DEF SentInv, Settings, NumericSettings
  <2>2. request \in Double /\ request' \in Double /\ config' = config
        /\ axis = Sent(config, request) /\ axis' = Sent(config, request')
    BY InputAssumption DEF SentInv, Next, Command
  <2>3. ASSUME request # NaN, request' # NaN, request <= request' PROVE axis <= axis'
    <3>1. request \in Int /\ request' \in Int
      BY <2>2, <2>3 DEF Double
    <3>2. /\ Clamp(request, config.max_v) <= Clamp(request', config.max_v)
          /\ Clamp(request, config.max_v) \in Int /\ Clamp(request', config.max_v) \in Int
      BY <2>1, <2>2, <2>3, <3>1, ClampMonotone, ClampBound
    <3>3. ToRatio(Clamp(request, config.max_v), config.full_scale)
             <= ToRatio(Clamp(request', config.max_v), config.full_scale)
      BY <2>1, <3>2, RatioMonotone
    <3> QED BY <2>2, <3>2, <3>3, SentIs
  <2>4. request' = 0 => axis' = 0
    BY <2>1, <2>2, ClampZero, RatioZero, SentIs
  <2> QED BY <2>3, <2>4
<1> QED BY <1>1, SentHolds, PTL DEF Spec, OrderPreserved
=============================================================================
