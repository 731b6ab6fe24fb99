-------------------------- MODULE ControlLoopProofs --------------------------
(***************************************************************************)
(* Theorems about ControlLoop for every value of its constants.            *)
(***************************************************************************)
EXTENDS ControlLoop, TLAPS

-----------------------------------------------------------------------------
\* The inductive invariant.

\* The clock never runs further from the start of the latest callback than
\* the deployment allows.
Timing ==
    /\ pc = "idle" => now - began <= Gap
    /\ pc # "idle" => now - began <= MaxStall

\* A permission that ended at t: a callback that drives began before t, so the
\* command it left behind lasts until the next callback at most.
Lease(t) ==
    /\ pc = "idle" /\ axis # Stop => began <= t
    /\ pc # "idle" /\ axis # Stop => began <= t + Gap
    /\ frame # Stop => began <= t

\* What a drive command that is about to be sent rests on.
GateInv ==
    /\ pc # "idle" => vel = twist
    /\ pc \in {"idle", "cmd_read"} => ~status.valid
    /\ frame # Stop =>
          /\ pc = "decided" /\ ~timed_out /\ frame = AxisCommand(vel)
          /\ status.valid /\ Drivable(status.body)
          /\ began <= status.stamp + StatusTimeout

CmdInv ==
    /\ Lease(last_cmd_time + CmdTimeout)
    /\ pc # "idle" /\ ~timed_out => have_cmd /\ began <= last_cmd_time + CmdTimeout
    /\ axis # Stop => have_cmd

ReportInv ==
    /\ Lease(last_basic_status.stamp + StatusTimeout)
    /\ recv.valid => last_basic_status.stamp <= recv.stamp
    /\ status.stamp <= last_basic_status.stamp

\* While the stored status forbids driving, at most the one callback that had
\* copied the previous status can still drive.
WithdrawnInv ==
    /\ ~CacheDrivable =>
          /\ Lease(withdrawn)
          /\ stale_drives <= 1
          /\ status.valid /\ Drivable(status.body) =>
                began <= withdrawn /\ stale_drives = 0
    /\ ~last_basic_status.valid =>
          stale_drives = 0 /\ axis = Stop /\ ~status.valid

IInv == TypeOK /\ Timing /\ GateInv /\ CmdInv /\ ReportInv /\ WithdrawnInv

-----------------------------------------------------------------------------
\* Operators of the model.

(* An axis command is a vector of doubles whatever velocities are asked for,
   NaN included: the code never divides by a full scale that is not positive
   (CmdVelBridge.cpp:26-42, 782-797). *)
LEMMA AxisCommandType ==
    ASSUME NEW tw \in [Axes -> Double]
    PROVE  AxisCommand(tw) \in [Axes -> Double]
<1>1. ASSUME NEW v \in Double, NEW m \in Double
      PROVE  Clamp(v, m) \in Double
  BY NaNAssumption DEF Clamp, NotPositive, StdMax, StdMin, Less, Negated, Double
<1>2. ASSUME NEW v \in Double, NEW f \in Double, ~NotPositive(f)
      PROVE  Quotient(v, f) \in Double
  <2>1. CASE v = NaN \/ f = NaN
    BY <2>1 DEF Quotient, Double
  <2>2. CASE v # NaN /\ f # NaN
    <3>1. v \in Int /\ f \in Int /\ f > 0
      BY <1>2, <2>2 DEF Double, NotPositive
    <3>2. v * Unit \in Int /\ -v * Unit \in Int
      BY <3>1, UnitAssumption
    <3>3. (v * Unit) \div f \in Int /\ (-v * Unit) \div f \in Int
      BY <3>1, <3>2
    <3> QED BY <2>2, <3>1, <3>3 DEF Quotient, Double
  <2> QED BY <2>1, <2>2
<1>3. ASSUME NEW v \in Double, NEW f \in Double
      PROVE  ToRatio(v, f) \in Double
  <2>1. CASE NotPositive(f)
    BY <2>1 DEF ToRatio, Double
  <2>2. CASE ~NotPositive(f)
    <3>1. Quotient(v, f) \in Double
      BY <1>2, <2>2
    <3> QED BY <3>1, <2>2, UnitAssumption DEF ToRatio, StdMax, StdMin, Double
  <2> QED BY <2>1, <2>2
<1>4. ASSUME NEW a \in Axes
      PROVE  AxisValue(UsageMode, tw[a], MaxV[a], FullScale[a]) \in Double
  BY <1>1, <1>3, <1>4, ScaleAssumption DEF AxisValue
<1> QED BY <1>4 DEF AxisCommand

(* The gate of the code admits only what the properties call drivable
   (CmdVelBridge.cpp:755-764). *)
LEMMA GateSound ==
    ASSUME NEW s, SafeToDrive(s)
    PROVE  s.valid /\ now - s.stamp <= StatusTimeout /\ Drivable(s.body)
BY ModeAssumption DEF SafeToDrive, StatusFresh, Drivable

LEMMA ConstantFacts ==
    /\ Zero \in [Axes -> Double] /\ Stop \in [Axes -> Double]
    /\ DefaultBody \in Body
    /\ NoStatus \in Status /\ ~NoStatus.valid /\ NoStatus.stamp = 0 /\ NoStatus.born = 0
    /\ Gap \in Nat /\ ControlPeriod <= Gap /\ MaxStall <= Gap
<1>1. Zero \in [Axes -> Double] /\ Stop \in [Axes -> Double]
  BY DEF Zero, Stop, Double
<1>2. DefaultBody \in Body
  BY DEF DefaultBody, Body
<1>3. NoStatus \in Status /\ ~NoStatus.valid /\ NoStatus.stamp = 0 /\ NoStatus.born = 0
  BY <1>2 DEF NoStatus, Status
<1>4. Gap \in Nat /\ ControlPeriod <= Gap /\ MaxStall <= Gap
  BY TimeAssumption DEF Gap
<1> QED BY <1>1, <1>2, <1>3, <1>4

-----------------------------------------------------------------------------
\* Type correctness.

LEMMA TypeInit == Init => TypeOK
<1> SUFFICES ASSUME Init PROVE TypeOK
  OBVIOUS
<1>1. now = 0
  BY DEF Init
<1>2. StatusOK(NoStatus)
  BY <1>1, ConstantFacts, TimeAssumption DEF StatusOK
<1>3. StatusOK(last_basic_status)
  <2>1. CASE last_basic_status = NoStatus
    BY <1>2, <2>1
  <2>2. ASSUME NEW b \in Bodies,
               last_basic_status = [NoStatus EXCEPT !.valid = TRUE, !.body = b]
        PROVE  StatusOK(last_basic_status)
    <3>1. b \in Body
      BY BodyAssumption
    <3>2. last_basic_status = [valid |-> TRUE, stamp |-> 0, body |-> b, born |-> 0]
      BY <2>2 DEF NoStatus
    <3>3. last_basic_status \in Status
      BY <3>1, <3>2 DEF Status
    <3> QED BY <1>1, <3>2, <3>3, TimeAssumption DEF StatusOK
  <2> QED BY <2>1, <2>2 DEF Init
<1>4. recv = NoStatus /\ status = NoStatus /\ twist = Zero /\ vel = Zero
      /\ frame = Stop /\ axis = Stop /\ robot_axis = Stop
  BY DEF Init
<1>5. StatusOK(recv) /\ StatusOK(status)
  BY <1>2, <1>4
<1>6. inbound = {} /\ pc = "idle" /\ timed_out = TRUE /\ have_cmd = FALSE
      /\ last_cmd_time = 0 /\ began = 0 /\ withdrawn = 0 /\ stale_drives = 0
  BY DEF Init
<1>7. last_cmd_time \in 0 .. now /\ began \in 0 .. now /\ withdrawn \in 0 .. now
  BY <1>1, <1>6
<1>8. inbound \subseteq Report /\ \A r \in inbound : r.born <= now /\ now - r.born <= MaxDelay
  BY <1>6
<1>9. now \in Nat /\ stale_drives \in Nat /\ timed_out \in BOOLEAN /\ have_cmd \in BOOLEAN
  BY <1>1, <1>6
<1> QED BY <1>3, <1>4, <1>5, <1>6, <1>7, <1>8, <1>9, ConstantFacts, Zenon DEF TypeOK

LEMMA TypeNext == TypeOK /\ [Next]_vars => TypeOK'
<1> SUFFICES ASSUME TypeOK, [Next]_vars PROVE TypeOK'
  OBVIOUS
<1> USE DEF TypeOK
<1>1. ASSUME NEW tw \in Twists, CmdVelCallback(tw) PROVE TypeOK'
  BY <1>1, TwistAssumption DEF CmdVelCallback, recv_vars, control_vars, wire_vars, history, StatusOK
<1>2. CASE ReadCmd
  BY <1>2 DEF ReadCmd, cmd_vars, recv_vars, wire_vars, StatusOK
<1>3. CASE ReadStatus
  BY <1>3 DEF ReadStatus, cmd_vars, recv_vars, wire_vars, history, StatusOK
<1>4. CASE Decide
  <2>1. frame' \in [Axes -> Double]
    BY <1>4, AxisCommandType, ConstantFacts DEF Decide
  <2> QED BY <1>4, <2>1 DEF Decide, cmd_vars, recv_vars, wire_vars, history, StatusOK
<1>5. ASSUME NEW delivered \in BOOLEAN, SendAxis(delivered) PROVE TypeOK'
  <2>1. stale_drives' \in Nat
    BY <1>5 DEF SendAxis
  <2>2. StatusOK(status)'
    BY <1>5, ConstantFacts, TimeAssumption DEF SendAxis, StatusOK
  <2>3. vel' \in [Axes -> Double] /\ frame' \in [Axes -> Double]
        /\ axis' \in [Axes -> Double] /\ robot_axis' \in [Axes -> Double]
    BY <1>5, ConstantFacts DEF SendAxis
  <2> QED BY <1>5, <2>1, <2>2, <2>3 DEF SendAxis, cmd_vars, recv_vars, StatusOK
<1>6. ASSUME NEW b \in Bodies, EmitReport(b) PROVE TypeOK'
  <2>1. [body |-> b, born |-> now] \in Report
    BY BodyAssumption DEF Report
  <2>2. inbound' \subseteq Report /\ \A r \in inbound' : r.born <= now /\ now - r.born <= MaxDelay
    BY <1>6, <2>1, TimeAssumption DEF EmitReport
  <2> QED BY <1>6, <2>2 DEF EmitReport, cmd_vars, control_vars, wire_vars, history, StatusOK
<1>7. ASSUME NEW r \in inbound, DropReport(r) PROVE TypeOK'
  BY <1>7 DEF DropReport, cmd_vars, control_vars, wire_vars, history, StatusOK
<1>8. ASSUME NEW r \in inbound, ReceiveReport(r) PROVE TypeOK'
  <2>1. r \in Report /\ r.born <= now /\ now - r.born <= MaxDelay
    OBVIOUS
  <2>2. StatusOK(recv)'
    BY <1>8, <2>1 DEF ReceiveReport, Stored, StatusOK, Status, Report
  <2> QED BY <1>8, <2>2 DEF ReceiveReport, cmd_vars, control_vars, wire_vars, history, StatusOK
<1>9. CASE StoreReport
  <2>1. StatusOK(recv)'
    BY <1>9, ConstantFacts, TimeAssumption DEF StoreReport, StatusOK
  <2>2. withdrawn' \in 0 .. now /\ stale_drives' \in Nat
    BY <1>9 DEF StoreReport
  <2> QED BY <1>9, <2>1, <2>2 DEF StoreReport, cmd_vars, control_vars, wire_vars, StatusOK
<1>10. CASE Tick
  <2>1. ASSUME NEW r \in inbound PROVE r.born <= now + 1 /\ (now + 1) - r.born <= MaxDelay
    <3>1. r.born \in Nat /\ r.born <= now /\ now - r.born < MaxDelay
      BY <1>10 DEF Tick, Report
    <3> QED BY <3>1, TimeAssumption
  <2>2. StatusOK(last_basic_status)' /\ StatusOK(recv)' /\ StatusOK(status)'
    <3>1. now' = now + 1 /\ UNCHANGED <<last_basic_status, recv, status>>
      BY <1>10 DEF Tick, recv_vars, control_vars
    <3>2. ASSUME NEW s \in Status, s.stamp <= now PROVE s.stamp <= now + 1
      BY <3>2 DEF Status
    <3> QED BY <3>1, <3>2 DEF StatusOK
  <2>3. now' \in Nat /\ last_cmd_time' \in 0 .. now' /\ began' \in 0 .. now' /\ withdrawn' \in 0 .. now'
    BY <1>10 DEF Tick, cmd_vars, history
  <2>4. inbound' \subseteq Report /\ \A r \in inbound' : r.born <= now' /\ now' - r.born <= MaxDelay
    BY <1>10, <2>1 DEF Tick, recv_vars
  <2>5. UNCHANGED <<twist, have_cmd, pc, vel, timed_out, frame, axis, robot_axis, stale_drives>>
    BY <1>10 DEF Tick, cmd_vars, control_vars, wire_vars, history
  <2> QED BY <2>2, <2>3, <2>4, <2>5, Zenon
<1>11. CASE UNCHANGED vars
  BY <1>11 DEF vars, cmd_vars, recv_vars, control_vars, wire_vars, history, StatusOK
<1> QED BY <1>1, <1>2, <1>3, <1>4, <1>5, <1>6, <1>7, <1>8, <1>9, <1>10, <1>11
       DEF Next, Control, Receive

(* The typing of the state, with the facts that every stamp lies in the past
   and that no stored report was older than MaxDelay when it was stamped
   (CmdVelBridge.cpp:317-347). *)
THEOREM TypeCorrect == Spec => []TypeOK
<1>1. Init => TypeOK
  BY TypeInit
<1>2. TypeOK /\ [Next]_vars => TypeOK'
  BY TypeNext
<1> QED BY <1>1, <1>2, PTL DEF Spec

-----------------------------------------------------------------------------
\* The inductive invariant is inductive.

LEMMA InvInit == Init => IInv
<1> SUFFICES ASSUME Init PROVE IInv
  OBVIOUS
<1>1. TypeOK
  BY TypeInit
<1>2. /\ now = 0 /\ began = 0 /\ pc = "idle" /\ axis = Stop /\ frame = Stop
      /\ stale_drives = 0 /\ ~status.valid /\ ~recv.valid /\ status.stamp = 0
  BY ConstantFacts DEF Init
<1>3. last_basic_status.stamp \in Nat
  BY <1>1 DEF TypeOK, StatusOK, Status
<1>4. Timing
  BY <1>2, ConstantFacts, TimeAssumption DEF Timing
<1>5. GateInv
  BY <1>2 DEF GateInv
<1>6. CmdInv
  BY <1>2 DEF CmdInv, Lease
<1>7. ReportInv
  BY <1>2, <1>3 DEF ReportInv, Lease
<1>8. WithdrawnInv
  BY <1>2 DEF WithdrawnInv, Lease
<1> QED BY <1>1, <1>4, <1>5, <1>6, <1>7, <1>8 DEF IInv

\* The numbers the invariant compares, with the bounds that relate them.
LEMMA Numbers ==
    ASSUME TypeOK
    PROVE  /\ now \in Nat /\ began \in Nat /\ withdrawn \in Nat /\ last_cmd_time \in Nat
           /\ began <= now /\ withdrawn <= now /\ last_cmd_time <= now
           /\ last_basic_status.stamp \in Nat /\ recv.stamp \in Nat /\ status.stamp \in Nat
           /\ last_basic_status.stamp <= now /\ recv.stamp <= now
           /\ stale_drives \in Nat
           /\ CmdTimeout \in Nat /\ StatusTimeout \in Nat
           /\ ControlPeriod \in Nat /\ MaxStall \in Nat
           /\ Gap \in Nat /\ ControlPeriod <= Gap /\ MaxStall <= Gap
BY ConstantFacts, TimeAssumption DEF TypeOK, StatusOK, Status

LEMMA InvNext == IInv /\ [Next]_vars => IInv'
<1> SUFFICES ASSUME IInv, [Next]_vars PROVE IInv'
  OBVIOUS
<1> USE DEF IInv
<1>1. TypeOK'
  BY TypeNext
<1>2. /\ now \in Nat /\ began \in Nat /\ withdrawn \in Nat /\ last_cmd_time \in Nat
      /\ began <= now /\ withdrawn <= now /\ last_cmd_time <= now
      /\ last_basic_status.stamp \in Nat /\ recv.stamp \in Nat /\ status.stamp \in Nat
      /\ last_basic_status.stamp <= now /\ recv.stamp <= now
      /\ stale_drives \in Nat
      /\ CmdTimeout \in Nat /\ StatusTimeout \in Nat
      /\ ControlPeriod \in Nat /\ MaxStall \in Nat
      /\ Gap \in Nat /\ ControlPeriod <= Gap /\ MaxStall <= Gap
  BY Numbers
<1> HIDE DEF IInv
<1>3. Timing /\ GateInv /\ CmdInv /\ ReportInv /\ WithdrawnInv
  BY DEF IInv
<1>4. ASSUME NEW tw \in Twists, CmdVelCallback(tw) PROVE IInv'
  <2>1. Timing'
    BY <1>2, <1>3, <1>4 DEF CmdVelCallback, recv_vars, control_vars, wire_vars, history, Timing
  <2>2. GateInv'
    BY <1>2, <1>3, <1>4 DEF CmdVelCallback, recv_vars, control_vars, wire_vars, history, GateInv
  <2>3. CmdInv'
    BY <1>2, <1>3, <1>4 DEF CmdVelCallback, recv_vars, control_vars, wire_vars, history, CmdInv, Lease
  <2>4. ReportInv'
    BY <1>2, <1>3, <1>4 DEF CmdVelCallback, recv_vars, control_vars, wire_vars, history, ReportInv, Lease
  <2>5. WithdrawnInv'
    BY <1>2, <1>3, <1>4 DEF CmdVelCallback, recv_vars, control_vars, wire_vars, history, WithdrawnInv, Lease, CacheDrivable
  <2> QED BY <1>1, <2>1, <2>2, <2>3, <2>4, <2>5 DEF IInv
<1>5. CASE ReadCmd
  <2>0. timed_out' = FALSE => have_cmd /\ ~(now - last_cmd_time > CmdTimeout)
    BY <1>5, Zenon DEF ReadCmd
  <2>1. Timing'
    BY <1>2, <1>3, <1>5, ConstantFacts DEF ReadCmd, cmd_vars, recv_vars, wire_vars, Timing, GateInv
  <2>2. GateInv'
    BY <1>2, <1>3, <1>5, ConstantFacts DEF ReadCmd, cmd_vars, recv_vars, wire_vars, GateInv, Timing
  <2>3. CmdInv'
    BY <1>2, <1>3, <1>5, ConstantFacts, <2>0 DEF ReadCmd, cmd_vars, recv_vars, wire_vars, CmdInv, Lease, GateInv, Timing
  <2>4. ReportInv'
    BY <1>2, <1>3, <1>5, ConstantFacts DEF ReadCmd, cmd_vars, recv_vars, wire_vars, ReportInv, Lease, GateInv, Timing
  <2>5. WithdrawnInv'
    BY <1>2, <1>3, <1>5, ConstantFacts DEF ReadCmd, cmd_vars, recv_vars, wire_vars, WithdrawnInv, Lease, CacheDrivable, GateInv, Timing
  <2> QED BY <1>1, <2>1, <2>2, <2>3, <2>4, <2>5 DEF IInv
<1>6. CASE ReadStatus
  <2>1. Timing'
    BY <1>2, <1>3, <1>6 DEF ReadStatus, cmd_vars, recv_vars, wire_vars, history, Timing
  <2>2. GateInv'
    BY <1>2, <1>3, <1>6 DEF ReadStatus, cmd_vars, recv_vars, wire_vars, history, GateInv
  <2>3. CmdInv'
    BY <1>2, <1>3, <1>6 DEF ReadStatus, cmd_vars, recv_vars, wire_vars, history, CmdInv, Lease
  <2>4. ReportInv'
    BY <1>2, <1>3, <1>6 DEF ReadStatus, cmd_vars, recv_vars, wire_vars, history, ReportInv, Lease
  <2>5. WithdrawnInv'
    BY <1>2, <1>3, <1>6 DEF ReadStatus, cmd_vars, recv_vars, wire_vars, history, WithdrawnInv, Lease, CacheDrivable
  <2> QED BY <1>1, <2>1, <2>2, <2>3, <2>4, <2>5 DEF IInv
<1>7. CASE Decide
  <2>1. Timing'
    BY <1>2, <1>3, <1>7 DEF Decide, cmd_vars, recv_vars, wire_vars, history, Timing, GateInv
  <2>2. GateInv'
    BY <1>2, <1>3, <1>7, GateSound DEF Decide, cmd_vars, recv_vars, wire_vars, history, GateInv
  <2>3. CmdInv'
    BY <1>2, <1>3, <1>7, GateSound DEF Decide, cmd_vars, recv_vars, wire_vars, history, CmdInv, Lease, GateInv
  <2>4. ReportInv'
    BY <1>2, <1>3, <1>7, GateSound DEF Decide, cmd_vars, recv_vars, wire_vars, history, ReportInv, Lease, GateInv
  <2>5. WithdrawnInv'
    BY <1>2, <1>3, <1>7, GateSound DEF Decide, cmd_vars, recv_vars, wire_vars, history, WithdrawnInv, Lease, CacheDrivable, GateInv
  <2> QED BY <1>1, <2>1, <2>2, <2>3, <2>4, <2>5 DEF IInv
<1>8. ASSUME NEW delivered \in BOOLEAN, SendAxis(delivered) PROVE IInv'
  <2>1. Timing'
    BY <1>2, <1>3, <1>8, ConstantFacts DEF SendAxis, cmd_vars, recv_vars, Timing, GateInv
  <2>2. GateInv'
    BY <1>2, <1>3, <1>8, ConstantFacts DEF SendAxis, cmd_vars, recv_vars, GateInv, Timing
  <2>3. CmdInv'
    BY <1>2, <1>3, <1>8, ConstantFacts DEF SendAxis, cmd_vars, recv_vars, CmdInv, Lease, GateInv, Timing
  <2>4. ReportInv'
    BY <1>2, <1>3, <1>8, ConstantFacts DEF SendAxis, cmd_vars, recv_vars, ReportInv, Lease, GateInv, Timing
  <2>5. WithdrawnInv'
    BY <1>2, <1>3, <1>8, ConstantFacts DEF SendAxis, cmd_vars, recv_vars, WithdrawnInv, Lease, CacheDrivable, GateInv, Timing
  <2> QED BY <1>1, <2>1, <2>2, <2>3, <2>4, <2>5 DEF IInv
<1>9. ASSUME NEW b \in Bodies, EmitReport(b) PROVE IInv'
  <2>1. Timing'
    BY <1>2, <1>3, <1>9 DEF EmitReport, cmd_vars, control_vars, wire_vars, history, Timing
  <2>2. GateInv'
    BY <1>2, <1>3, <1>9 DEF EmitReport, cmd_vars, control_vars, wire_vars, history, GateInv
  <2>3. CmdInv'
    BY <1>2, <1>3, <1>9 DEF EmitReport, cmd_vars, control_vars, wire_vars, history, CmdInv, Lease
  <2>4. ReportInv'
    BY <1>2, <1>3, <1>9 DEF EmitReport, cmd_vars, control_vars, wire_vars, history, ReportInv, Lease
  <2>5. WithdrawnInv'
    BY <1>2, <1>3, <1>9 DEF EmitReport, cmd_vars, control_vars, wire_vars, history, WithdrawnInv, Lease, CacheDrivable
  <2> QED BY <1>1, <2>1, <2>2, <2>3, <2>4, <2>5 DEF IInv
<1>10. ASSUME NEW r \in inbound, DropReport(r) PROVE IInv'
  <2>1. Timing'
    BY <1>2, <1>3, <1>10 DEF DropReport, cmd_vars, control_vars, wire_vars, history, Timing
  <2>2. GateInv'
    BY <1>2, <1>3, <1>10 DEF DropReport, cmd_vars, control_vars, wire_vars, history, GateInv
  <2>3. CmdInv'
    BY <1>2, <1>3, <1>10 DEF DropReport, cmd_vars, control_vars, wire_vars, history, CmdInv, Lease
  <2>4. ReportInv'
    BY <1>2, <1>3, <1>10 DEF DropReport, cmd_vars, control_vars, wire_vars, history, ReportInv, Lease
  <2>5. WithdrawnInv'
    BY <1>2, <1>3, <1>10 DEF DropReport, cmd_vars, control_vars, wire_vars, history, WithdrawnInv, Lease, CacheDrivable
  <2> QED BY <1>1, <2>1, <2>2, <2>3, <2>4, <2>5 DEF IInv
<1>11. ASSUME NEW r \in inbound, ReceiveReport(r) PROVE IInv'
  <2>1. Timing'
    BY <1>2, <1>3, <1>11 DEF ReceiveReport, Stored, cmd_vars, control_vars, wire_vars, history, Timing
  <2>2. GateInv'
    BY <1>2, <1>3, <1>11 DEF ReceiveReport, Stored, cmd_vars, control_vars, wire_vars, history, GateInv
  <2>3. CmdInv'
    BY <1>2, <1>3, <1>11 DEF ReceiveReport, Stored, cmd_vars, control_vars, wire_vars, history, CmdInv, Lease
  <2>4. ReportInv'
    BY <1>2, <1>3, <1>11 DEF ReceiveReport, Stored, cmd_vars, control_vars, wire_vars, history, ReportInv, Lease
  <2>5. WithdrawnInv'
    BY <1>2, <1>3, <1>11 DEF ReceiveReport, Stored, cmd_vars, control_vars, wire_vars, history, WithdrawnInv, Lease, CacheDrivable
  <2> QED BY <1>1, <2>1, <2>2, <2>3, <2>4, <2>5 DEF IInv
<1>12. CASE StoreReport
  <2>1. Timing'
    BY <1>2, <1>3, <1>12, ConstantFacts DEF StoreReport, cmd_vars, control_vars, wire_vars, Timing
  <2>2. GateInv'
    BY <1>2, <1>3, <1>12, ConstantFacts DEF StoreReport, cmd_vars, control_vars, wire_vars, GateInv
  <2>3. CmdInv'
    BY <1>2, <1>3, <1>12, ConstantFacts DEF StoreReport, cmd_vars, control_vars, wire_vars, CmdInv, Lease
  <2>4. ReportInv'
    BY <1>2, <1>3, <1>12, ConstantFacts DEF StoreReport, cmd_vars, control_vars, wire_vars, ReportInv, Lease
  <2>5. WithdrawnInv'
    BY <1>2, <1>3, <1>12, ConstantFacts DEF StoreReport, cmd_vars, control_vars, wire_vars, WithdrawnInv, Lease, CacheDrivable
  <2> QED BY <1>1, <2>1, <2>2, <2>3, <2>4, <2>5 DEF IInv
<1>13. CASE Tick
  <2>1. Timing'
    BY <1>2, <1>3, <1>13 DEF Tick, cmd_vars, recv_vars, control_vars, wire_vars, history, Timing
  <2>2. GateInv'
    BY <1>2, <1>3, <1>13 DEF Tick, cmd_vars, recv_vars, control_vars, wire_vars, history, GateInv
  <2>3. CmdInv'
    BY <1>2, <1>3, <1>13 DEF Tick, cmd_vars, recv_vars, control_vars, wire_vars, history, CmdInv, Lease
  <2>4. ReportInv'
    BY <1>2, <1>3, <1>13 DEF Tick, cmd_vars, recv_vars, control_vars, wire_vars, history, ReportInv, Lease
  <2>5. WithdrawnInv'
    BY <1>2, <1>3, <1>13 DEF Tick, cmd_vars, recv_vars, control_vars, wire_vars, history, WithdrawnInv, Lease, CacheDrivable
  <2> QED BY <1>1, <2>1, <2>2, <2>3, <2>4, <2>5 DEF IInv
<1>14. CASE UNCHANGED vars
  BY <1>1, <1>3, <1>14 DEF IInv, vars, cmd_vars, recv_vars, control_vars, wire_vars, history,
     Timing, GateInv, CmdInv, ReportInv, WithdrawnInv, Lease, CacheDrivable
<1> QED BY <1>4, <1>5, <1>6, <1>7, <1>8, <1>9, <1>10, <1>11, <1>12, <1>13, <1>14
       DEF Next, Control, Receive

-----------------------------------------------------------------------------
\* The properties.

LEMMA Invariance == Spec => []IInv
<1>1. Init => IInv
  BY InvInit
<1>2. IInv /\ [Next]_vars => IInv'
  BY InvNext
<1> QED BY <1>1, <1>2, PTL DEF Spec

(* Storing a report that forbids driving lets at most one more drive command
   out, for every timing and every order of the reports
   (CmdVelBridge.cpp:739-797). *)
THEOREM StaleDriveBound == Spec => []AtMostOneStaleDrive
<1>1. IInv => AtMostOneStaleDrive
  BY DEF IInv, WithdrawnInv, AtMostOneStaleDrive
<1> QED BY <1>1, Invariance, PTL

(* The robot is sent a stop within one period and one callback of the stored
   status forbidding it to drive (CmdVelBridge.cpp:745-778). *)
THEOREM UnsafeStopsHolds == Spec => []UnsafeStops
<1>1. IInv => UnsafeStops
  BY Numbers DEF IInv, Timing, WithdrawnInv, Lease, UnsafeStops, Reaction
<1> QED BY <1>1, Invariance, PTL

(* The robot is sent a stop within cmd_timeout_sec, one period and one
   callback of the last cmd_vel (CmdVelBridge.cpp:736, CmdVelBridge.h:217). *)
THEOREM CmdLossStopsHolds == Spec => []CmdLossStops
<1>1. IInv => CmdLossStops
  BY Numbers DEF IInv, Timing, CmdInv, Lease, CmdLossStops, Reaction
<1> QED BY <1>1, Invariance, PTL

(* The robot is sent a stop within status_timeout_sec, one period and one
   callback of the last report (CmdVelBridge.cpp:751-756). *)
THEOREM ReportLossStopsHolds == Spec => []ReportLossStops
<1>1. IInv => ReportLossStops
  BY Numbers DEF IInv, Timing, ReportInv, Lease, ReportLossStops, Reaction
<1> QED BY <1>1, Invariance, PTL

(* No drive command is sent on a status or a velocity older than the bounds
   of the watchdogs, the time a report travels and the time a callback lasts
   (CmdVelBridge.cpp:726-797). *)
THEOREM DriveBackedHolds == Spec => DriveBacked
<1> DEFINE Backed ==
      pc = "decided" /\ pc' = "idle" /\ axis' # Stop =>
          /\ status.valid /\ Drivable(status.body)
          /\ now <= status.born + MaxDelay + StatusTimeout + MaxStall
          /\ now <= last_cmd_time + CmdTimeout + MaxStall
          /\ axis' = AxisCommand(twist)
<1>1. IInv /\ [Next]_vars => [Backed]_vars
  <2> SUFFICES ASSUME IInv, Next, pc = "decided", pc' = "idle", axis' # Stop
               PROVE  Backed
    BY DEF Backed
  <2>1. axis' = frame
    <3>1. ASSUME NEW delivered \in BOOLEAN, SendAxis(delivered) PROVE axis' = frame
      BY <3>1 DEF SendAxis
    <3> QED
      BY <3>1 DEF Next, Control, Receive, CmdVelCallback, ReadCmd, ReadStatus, Decide,
         EmitReport, DropReport, ReceiveReport, StoreReport, Tick, control_vars
  <2>2. /\ ~timed_out /\ frame = AxisCommand(vel) /\ vel = twist
        /\ status.valid /\ Drivable(status.body)
        /\ began <= status.stamp + StatusTimeout
    BY <2>1 DEF IInv, GateInv
  <2>3. began <= last_cmd_time + CmdTimeout /\ now - began <= MaxStall
    BY <2>2 DEF IInv, CmdInv, Timing
  <2>4. /\ status.stamp \in Nat /\ status.born \in Nat /\ MaxDelay \in Nat
        /\ status.stamp - status.born <= MaxDelay
    BY TimeAssumption DEF IInv, TypeOK, StatusOK, Status
  <2>5. /\ now <= status.born + MaxDelay + StatusTimeout + MaxStall
        /\ now <= last_cmd_time + CmdTimeout + MaxStall
    BY <2>2, <2>3, <2>4, Numbers DEF IInv
  <2> QED BY <2>1, <2>2, <2>5
<1>2. Spec => [][Backed]_vars
  BY <1>1, Invariance, PTL DEF Spec
<1> QED BY <1>2 DEF DriveBacked

-----------------------------------------------------------------------------
\* The gate opens.

\* Velocity and status permit driving, the status for long enough to outlast
\* the callback that has copied it.
Asking ==
    /\ have_cmd /\ now - last_cmd_time <= CmdTimeout
    /\ CacheDrivable /\ now - last_basic_status.stamp <= StatusTimeout - MaxStall

Answered(t) == now > t + Reaction => axis = AxisCommand(twist)

\* A callback that began after t has found the gate open at each of its steps.
Opening(t) ==
    /\ began > t /\ pc # "idle" => ~timed_out
    /\ began > t /\ pc = "status_read" =>
          /\ status.valid /\ Drivable(status.body)
          /\ began + MaxStall <= status.stamp + StatusTimeout
    /\ began > t /\ pc = "decided" => frame = AxisCommand(twist)
    /\ began > t /\ pc = "idle" => axis = AxisCommand(twist)
    /\ began > t + Gap /\ pc # "idle" => axis = AxisCommand(twist)

(* The gate of the code admits all that the properties call drivable
   (CmdVelBridge.cpp:755-764). *)
LEMMA GateComplete ==
    ASSUME NEW s, s.valid, now - s.stamp <= StatusTimeout, Drivable(s.body), s.body \in Body
    PROVE  SafeToDrive(s)
<1>1. GaitOnStart \in Int
  BY ModeAssumption
<1> QED BY <1>1 DEF SafeToDrive, StatusFresh, Drivable, Body

LEMMA OpeningNext ==
    ASSUME NEW t \in Nat, IInv, Opening(t), Asking, [Next]_vars, [twist' = twist]_vars
    PROVE  Opening(t)'
<1>1. /\ now \in Nat /\ began \in Nat /\ last_cmd_time \in Nat
      /\ last_basic_status.stamp \in Nat /\ status.stamp \in Nat
      /\ began <= now /\ CmdTimeout \in Nat /\ StatusTimeout \in Nat
      /\ MaxStall \in Nat /\ Gap \in Nat
  BY Numbers DEF IInv
<1>2. twist' = twist
  BY DEF vars, cmd_vars
<1>3. pc # "idle" => vel = twist
  BY DEF IInv, GateInv
<1>4. (pc = "idle" => now - began <= Gap) /\ (pc # "idle" => now - began <= MaxStall)
  BY DEF IInv, Timing
<1>5. CASE ReadCmd
  <2>1. pc = "idle" /\ pc' = "cmd_read" /\ began' = now /\ axis' = axis
    BY <1>5 DEF ReadCmd, wire_vars
  <2>2. ~timed_out'
    <3>1. have_cmd /\ ~(now - last_cmd_time > CmdTimeout)
      BY <1>1 DEF Asking
    <3>2. timed_out' = (~have_cmd \/ now - last_cmd_time > CmdTimeout)
      BY <1>5 DEF ReadCmd
    <3> QED BY <3>1, <3>2, Zenon
  <2>3. began' > t + Gap => axis' = AxisCommand(twist')
    BY <1>1, <1>2, <1>4, <2>1 DEF Opening
  <2> QED BY <2>1, <2>2, <2>3 DEF Opening
<1>6. CASE ReadStatus
  <2>1. /\ pc = "cmd_read" /\ pc' = "status_read" /\ status' = last_basic_status
        /\ UNCHANGED <<timed_out, began, axis>>
    BY <1>6 DEF ReadStatus, wire_vars, history
  <2>2. /\ status'.valid /\ Drivable(status'.body)
        /\ began' + MaxStall <= status'.stamp + StatusTimeout
    BY <1>1, <2>1 DEF Asking, CacheDrivable
  <2> QED BY <1>2, <2>1, <2>2 DEF Opening, Drivable
<1>7. CASE Decide
  <2>1. /\ pc = "status_read" /\ pc' = "decided" /\ UNCHANGED <<timed_out, began, axis>>
        /\ frame' = IF timed_out \/ ~SafeToDrive(status) THEN Stop ELSE AxisCommand(vel)
    BY <1>7 DEF Decide, wire_vars, history
  <2>2. ASSUME began > t
        PROVE  frame' = AxisCommand(twist')
    <3>1. /\ ~timed_out /\ status.valid /\ Drivable(status.body)
          /\ now - status.stamp <= StatusTimeout
      BY <1>1, <1>4, <2>1, <2>2 DEF Opening
    <3>2. status.body \in Body
      BY DEF IInv, TypeOK, StatusOK, Status
    <3>3. SafeToDrive(status)
      BY <3>1, <3>2, GateComplete
    <3> QED BY <1>2, <1>3, <2>1, <3>1, <3>3
  <2> QED BY <1>2, <2>1, <2>2 DEF Opening
<1>8. ASSUME NEW delivered \in BOOLEAN, SendAxis(delivered)
      PROVE  Opening(t)'
  <2>1. pc = "decided" /\ pc' = "idle" /\ axis' = frame /\ began' = began
    BY <1>8 DEF SendAxis
  <2> QED BY <1>2, <2>1 DEF Opening
<1>9. ASSUME UNCHANGED <<pc, timed_out, status, frame, axis, began>>
      PROVE  Opening(t)'
  BY <1>2, <1>9 DEF Opening, Drivable
<1>10. ASSUME NEW tw \in Twists, CmdVelCallback(tw) PROVE Opening(t)'
  BY <1>9, <1>10 DEF CmdVelCallback, control_vars, wire_vars, history
<1>11. ASSUME NEW b \in Bodies, EmitReport(b) PROVE Opening(t)'
  BY <1>9, <1>11 DEF EmitReport, control_vars, wire_vars, history
<1>12. ASSUME NEW r \in inbound, DropReport(r) \/ ReceiveReport(r) PROVE Opening(t)'
  BY <1>9, <1>12 DEF DropReport, ReceiveReport, control_vars, wire_vars, history
<1>13. CASE StoreReport
  BY <1>9, <1>13 DEF StoreReport, control_vars, wire_vars
<1>14. CASE Tick \/ UNCHANGED vars
  BY <1>9, <1>14 DEF Tick, vars, control_vars, wire_vars, history
<1> QED BY <1>5, <1>6, <1>7, <1>8, <1>10, <1>11, <1>12, <1>13, <1>14 DEF Next, Control, Receive

(* The gate does not stay shut without a reason, and not for long: from any
   moment on, while velocity and status permit driving and the velocity stays
   the same, the last command sent is that velocity's once a reaction time has
   passed.  It is the bounded form of RobotEventuallyDrives, up to what the
   network loses (CmdVelBridge.cpp:726-797). *)
THEOREM GateOpens ==
    ASSUME NEW t \in Nat
    PROVE  Spec => [](now = t /\ []Asking /\ [][twist' = twist]_vars => []Answered(t))
<1>1. IInv /\ now = t => Opening(t)
  <2> SUFFICES ASSUME IInv, now = t PROVE Opening(t)
    OBVIOUS
  <2>1. began \in Nat /\ began <= t /\ Gap \in Nat
    BY Numbers DEF IInv
  <2> QED BY <2>1 DEF Opening
<1>2. IInv /\ Opening(t) /\ Asking /\ [Next]_vars /\ [twist' = twist]_vars => Opening(t)'
  BY OpeningNext
<1>3. IInv /\ Opening(t) => Answered(t)
  <2> SUFFICES ASSUME IInv, Opening(t), now > t + Reaction PROVE axis = AxisCommand(twist)
    BY DEF Answered
  <2>1. /\ now \in Nat /\ began \in Nat /\ MaxStall \in Nat /\ Gap \in Nat
        /\ pc = "idle" => now - began <= Gap
        /\ pc # "idle" => now - began <= MaxStall
    BY Numbers DEF IInv, Timing
  <2> QED BY <2>1 DEF Opening, Reaction
<1>4. IInv /\ [][Next]_vars => []IInv
  BY InvNext, PTL
<1> QED BY <1>1, <1>2, <1>3, <1>4, Invariance, PTL DEF Spec

-----------------------------------------------------------------------------
\* The control loop implements DriveLease.

LEMMA ExpiryType ==
    ASSUME IInv
    PROVE  Expiry \in Int /\ Reaction \in Nat /\ Never \in Int
BY Numbers DEF IInv, Expiry, Sooner, Never, Reaction

\* While a drive command is in force or about to be, the lease covers every
\* moment up to the end of the callback or of the pause after it: each of the
\* three parts of the inductive invariant is one reason for it to end.
LEMMA CoveredUntil ==
    ASSUME IInv, axis # Stop \/ frame # Stop,
           NEW t \in Nat,
           pc = "idle" => t - began <= Gap,
           pc # "idle" => t - began <= MaxStall
    PROVE  t <= Expiry + Reaction
<1>1. /\ began \in Nat /\ last_cmd_time \in Nat /\ withdrawn \in Nat
      /\ last_basic_status.stamp \in Nat
      /\ CmdTimeout \in Nat /\ StatusTimeout \in Nat /\ Gap \in Nat /\ MaxStall \in Nat
  BY Numbers DEF IInv
<1>2. ASSUME NEW u \in Nat, Lease(u)
      PROVE  t <= u + Reaction
  <2>1. CASE axis # Stop
    BY <1>1, <1>2, <2>1 DEF Lease, Reaction
  <2>2. CASE frame # Stop
    BY <1>1, <1>2, <2>2 DEF Lease, Reaction, IInv, GateInv
  <2> QED BY <2>1, <2>2
<1>3. have_cmd /\ t <= last_cmd_time + CmdTimeout + Reaction
  <2>1. have_cmd
    BY DEF IInv, GateInv, CmdInv
  <2>2. Lease(last_cmd_time + CmdTimeout)
    BY DEF IInv, CmdInv
  <2> QED BY <1>1, <1>2, <2>1, <2>2
<1>4. t <= last_basic_status.stamp + StatusTimeout + Reaction
  <2>1. Lease(last_basic_status.stamp + StatusTimeout)
    BY DEF IInv, ReportInv
  <2> QED BY <1>1, <1>2, <2>1
<1>5. last_basic_status.valid
  BY DEF IInv, GateInv, WithdrawnInv
<1>6. ~CacheDrivable => t <= withdrawn + Reaction
  <2>1. ~CacheDrivable => Lease(withdrawn)
    BY DEF IInv, WithdrawnInv
  <2> QED BY <1>1, <1>2, <2>1
<1> QED BY <1>3, <1>4, <1>5, <1>6 DEF Expiry, Sooner

LEMMA LeaseInit == Init => Permit!Init
<1> SUFFICES ASSUME Init PROVE Permit!Init
  OBVIOUS
<1>1. IInv
  BY InvInit
<1>2. now \in Int /\ Expiry \in Int
  BY <1>1, Numbers, ExpiryType DEF IInv
<1>3. axis = Stop
  BY DEF Init
<1> QED BY <1>2, <1>3 DEF Permit!Init

\* A step that stamps a velocity or a status, or withdraws the permission,
\* ends no lease before the present.
LEMMA RegrantStep ==
    ASSUME IInv,
           \/ \E tw \in Twists : CmdVelCallback(tw)
           \/ StoreReport
    PROVE  Permit!Regrant
<1>1. /\ now \in Nat /\ last_cmd_time \in Nat /\ withdrawn \in Nat
      /\ last_cmd_time <= now /\ withdrawn <= now
      /\ last_basic_status.stamp \in Nat /\ recv.stamp \in Nat
      /\ CmdTimeout \in Nat /\ StatusTimeout \in Nat
  BY Numbers DEF IInv
<1>2. Reaction \in Nat
  BY ExpiryType
<1>3. ASSUME NEW tw \in Twists, CmdVelCallback(tw) PROVE Permit!Regrant
  <2>1. /\ last_cmd_time' = now /\ have_cmd' = TRUE
        /\ UNCHANGED <<now, last_basic_status, withdrawn, axis>>
    BY <1>3 DEF CmdVelCallback, recv_vars, wire_vars, history
  <2>2. CacheDrivable' = CacheDrivable /\ Never' = Never
    BY <2>1 DEF CacheDrivable, Never
  <2>3. Expiry' \in Int /\ (Expiry' >= now \/ Expiry' >= Expiry)
    BY <1>1, <1>2, <2>1, <2>2 DEF Expiry, Sooner, Never
  <2> QED BY <2>1, <2>3 DEF Permit!Regrant
<1>4. CASE StoreReport
  <2>1. /\ recv.valid /\ last_basic_status' = recv
        /\ last_basic_status.stamp <= recv.stamp
        /\ UNCHANGED <<now, have_cmd, last_cmd_time, axis>>
    BY <1>4 DEF StoreReport, cmd_vars, wire_vars, IInv, ReportInv
  <2>2. /\ withdrawn' = now \/ withdrawn' = withdrawn
        /\ CacheDrivable /\ ~CacheDrivable' => withdrawn' = now
    BY <1>4, <2>1 DEF StoreReport, CacheDrivable
  <2>3. Expiry' \in Int /\ (Expiry' >= now \/ Expiry' >= Expiry)
    <3>1. Never' = Never
      BY DEF Never, Reaction, Gap
    <3> QED BY <1>1, <1>2, <2>1, <2>2, <3>1 DEF Expiry, Sooner, Never
  <2> QED BY <2>1, <2>3 DEF Permit!Regrant
<1> QED BY <1>3, <1>4

LEMMA SendStep ==
    ASSUME IInv, NEW delivered \in BOOLEAN, SendAxis(delivered)
    PROVE  Permit!Drive \/ Permit!Halt
<1>1. /\ axis' = frame /\ pc = "decided"
      /\ UNCHANGED <<now, have_cmd, last_cmd_time, last_basic_status, withdrawn>>
  BY DEF SendAxis, cmd_vars, recv_vars
<1>2. UNCHANGED Expiry
  BY <1>1 DEF Expiry, Sooner, CacheDrivable
<1>3. CASE frame = Stop
  BY <1>1, <1>2, <1>3 DEF Permit!Halt
<1>4. CASE frame # Stop
  <2>1. now \in Nat /\ now - began <= MaxStall
    BY <1>1, Numbers DEF IInv, Timing
  <2>2. now <= Expiry + Reaction
    BY <1>1, <1>4, <2>1, CoveredUntil
  <2> QED BY <1>1, <1>2, <1>4, <2>2 DEF Permit!Drive, Permit!Covered
<1> QED BY <1>3, <1>4

LEMMA TickStep ==
    ASSUME IInv, Tick
    PROVE  Permit!Tick
<1>1. /\ now' = now + 1
      /\ UNCHANGED <<have_cmd, last_cmd_time, last_basic_status, withdrawn, axis>>
  BY DEF Tick, cmd_vars, recv_vars, wire_vars, history
<1>2. UNCHANGED Expiry
  BY <1>1 DEF Expiry, Sooner, CacheDrivable
<1>3. axis # Stop => now + 1 <= Expiry + Reaction
  <2>1. /\ now \in Nat /\ began \in Nat /\ Gap \in Nat /\ MaxStall \in Nat
        /\ ControlPeriod \in Nat /\ ControlPeriod <= Gap
    BY Numbers DEF IInv
  <2>2. /\ pc = "idle" => (now + 1) - began <= Gap
        /\ pc # "idle" => (now + 1) - began <= MaxStall
    BY <2>1 DEF Tick
  <2> QED BY <2>1, <2>2, CoveredUntil
<1> QED BY <1>1, <1>2, <1>3 DEF Permit!Tick, Permit!Covered

LEMMA LeaseStep == IInv /\ [Next]_vars => [Permit!Next]_(Permit!vars)
<1> SUFFICES ASSUME IInv, [Next]_vars
             PROVE  [Permit!Next]_(Permit!vars)
  OBVIOUS
<1>1. CASE (\E tw \in Twists : CmdVelCallback(tw)) \/ StoreReport
  BY <1>1, RegrantStep DEF Permit!Next
<1>2. ASSUME NEW delivered \in BOOLEAN, SendAxis(delivered)
      PROVE  [Permit!Next]_(Permit!vars)
  BY <1>2, SendStep DEF Permit!Next
<1>3. CASE Tick
  BY <1>3, TickStep DEF Permit!Next
<1>4. CASE UNCHANGED <<now, have_cmd, last_cmd_time, last_basic_status, withdrawn, axis>>
  BY <1>4 DEF Permit!vars, Expiry, Sooner, CacheDrivable
<1>5. CASE ReadCmd \/ ReadStatus \/ Decide
  BY <1>4, <1>5 DEF ReadCmd, ReadStatus, Decide, cmd_vars, recv_vars, wire_vars, history
<1>6. ASSUME NEW b \in Bodies, EmitReport(b) PROVE [Permit!Next]_(Permit!vars)
  BY <1>4, <1>6 DEF EmitReport, cmd_vars, wire_vars, history
<1>7. ASSUME NEW r \in inbound, DropReport(r) \/ ReceiveReport(r)
      PROVE  [Permit!Next]_(Permit!vars)
  BY <1>4, <1>7 DEF DropReport, ReceiveReport, cmd_vars, wire_vars, history
<1>8. CASE UNCHANGED vars
  BY <1>4, <1>8 DEF vars, cmd_vars, recv_vars, wire_vars, history
<1> QED BY <1>1, <1>2, <1>3, <1>5, <1>6, <1>7, <1>8 DEF Next, Control, Receive

(* Whatever the velocities, the reports, their losses and the interleaving of
   the threads, the control loop is a lease: a drive command is in force only
   while the publisher and the robot both permit it, and for one reaction time
   after (CmdVelBridge.cpp:700-798). *)
THEOREM LeaseImplemented == Spec => ImplementsLease
<1>1. Init => Permit!Init
  BY LeaseInit
<1>2. IInv /\ [Next]_vars => [Permit!Next]_(Permit!vars)
  BY LeaseStep
<1>3. Spec => Permit!Init /\ [][Permit!Next]_(Permit!vars)
  BY <1>1, <1>2, Invariance, PTL DEF Spec
<1> QED BY <1>3 DEF ImplementsLease, Permit!Spec

\* The lease keeps its promise: what renews or ends it never ends it in the
\* past, so the command in force stays covered.
LEMMA LeaseKeepsPromise ==
    Permit!Init /\ [][Permit!Next]_(Permit!vars) => []Permit!DrivesUnderLease
<1> DEFINE Held == now \in Int /\ Expiry \in Int /\ Permit!DrivesUnderLease
<1>1. Permit!Init => Held
  BY DEF Permit!Init, Permit!DrivesUnderLease
<1>2. Held /\ [Permit!Next]_(Permit!vars) => Held'
  <2> SUFFICES ASSUME Held, [Permit!Next]_(Permit!vars) PROVE Held'
    OBVIOUS
  <2>1. Reaction \in Nat
    BY ConstantFacts, TimeAssumption DEF Reaction
  <2>2. CASE Permit!Regrant
    <3>1. /\ Expiry' \in Int /\ (Expiry' >= now \/ Expiry' >= Expiry)
          /\ now' = now /\ (axis # Stop)' = (axis # Stop)
      BY <2>2 DEF Permit!Regrant
    <3>2. axis # Stop => now <= Expiry + Reaction
      BY DEF Permit!DrivesUnderLease, Permit!Covered
    <3>3. axis # Stop => now' <= Expiry' + Reaction
      <4>1. ASSUME NEW t \in Int, NEW e \in Int, NEW f \in Int, NEW r \in Nat,
                   t <= e + r, f >= t \/ f >= e
            PROVE  t <= f + r
        BY <4>1
      <4>2. now \in Int /\ Expiry \in Int
        OBVIOUS
      <4> QED BY <2>1, <3>1, <3>2, <4>1, <4>2
    <3>4. (axis # Stop => now <= Expiry + Reaction)'
      BY <3>1, <3>3
    <3> QED BY <3>1, <3>4 DEF Permit!DrivesUnderLease, Permit!Covered
  <2>3. CASE Permit!Drive \/ Permit!Halt
    BY <2>1, <2>3 DEF Permit!Drive, Permit!Halt, Permit!DrivesUnderLease, Permit!Covered
  <2>4. CASE Permit!Tick
    BY <2>1, <2>4 DEF Permit!Tick, Permit!DrivesUnderLease, Permit!Covered
  <2>5. CASE UNCHANGED Permit!vars
    BY <2>1, <2>5 DEF Permit!vars, Permit!DrivesUnderLease, Permit!Covered
  <2> QED BY <2>2, <2>3, <2>4, <2>5 DEF Permit!Next
<1>3. Held => Permit!DrivesUnderLease
  OBVIOUS
<1> QED BY <1>1, <1>2, <1>3, PTL

(* The promise of the lease, on the control loop: a drive command is the last
   one sent only until one reaction after the first of three things - the last
   cmd_vel expires, the last report expires, a report forbids driving.  It
   follows from the refinement alone (CmdVelBridge.cpp:700-798). *)
THEOREM DrivesUnderLeaseHolds == Spec => []Permit!DrivesUnderLease
<1> QED BY LeaseImplemented, LeaseKeepsPromise, PTL DEF ImplementsLease, Permit!Spec
=============================================================================
