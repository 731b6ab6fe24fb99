------------------------- MODULE SteppedClockProofs -------------------------
(***************************************************************************)
(* What the control loop keeps on a clock that is set back, any number of  *)
(* times and at any step, for every value of the constants.                *)
(***************************************************************************)
EXTENDS SteppedClock, ControlLoopProofs

-----------------------------------------------------------------------------
\* The inductive invariant: that of ControlLoop without what it says of the
\* age of a status, because a stamp may now lie ahead of the clock.

Stamps ==
    /\ now \in Nat /\ began \in Nat /\ withdrawn \in Nat /\ cmd_at \in Nat
    /\ stepped \in Nat /\ stale_drives \in Nat
    /\ began <= now /\ withdrawn <= now
    /\ last_cmd_time = cmd_at + stepped
    /\ last_basic_status \in Status /\ recv \in Status /\ status \in Status
    /\ inbound \subseteq Report

SteppedGate ==
    /\ pc \in {"idle", "cmd_read"} => ~status.valid
    /\ frame # Stop =>
          /\ pc = "decided" /\ ~timed_out
          /\ status.valid /\ Drivable(status.body)

SteppedInv == Stamps /\ Timing /\ SteppedGate /\ CmdInv /\ WithdrawnInv

-----------------------------------------------------------------------------
LEMMA SteppedNumbers ==
    ASSUME Stamps
    PROVE  /\ now \in Nat /\ began \in Nat /\ withdrawn \in Nat /\ last_cmd_time \in Nat
           /\ cmd_at \in Nat /\ stepped \in Nat /\ stale_drives \in Nat
           /\ began <= now /\ withdrawn <= now /\ last_cmd_time = cmd_at + stepped
           /\ CmdTimeout \in Nat /\ ControlPeriod \in Nat /\ MaxStall \in Nat
           /\ Gap \in Nat /\ ControlPeriod <= Gap /\ MaxStall <= Gap
BY ConstantFacts, TimeAssumption DEF Stamps

LEMMA SteppedInitially == SteppedInit => SteppedInv
<1> SUFFICES ASSUME SteppedInit PROVE SteppedInv
  OBVIOUS
<1>1. IInv
  BY InvInit DEF SteppedInit
<1>2. /\ now = 0 /\ last_cmd_time = 0 /\ cmd_at = 0 /\ stepped = 0
      /\ frame = Stop /\ status = NoStatus
  BY DEF SteppedInit, Init
<1>3. Stamps
  BY <1>1, <1>2, Numbers DEF Stamps, IInv, TypeOK, StatusOK
<1>4. SteppedGate
  BY <1>2, ConstantFacts DEF SteppedGate
<1> QED BY <1>1, <1>3, <1>4 DEF SteppedInv, IInv

\* Setting the clock back moves stamps and nothing else.
LEMMA AheadKeeps ==
    ASSUME NEW s \in Status, NEW d \in Nat
    PROVE  /\ Ahead(s, d) \in Status
           /\ Ahead(s, d).valid = s.valid /\ Ahead(s, d).body = s.body
<1>1. CASE s.valid
  <2>1. s = [valid |-> s.valid, stamp |-> s.stamp, body |-> s.body, born |-> s.born]
        /\ s.stamp \in Nat
    BY DEF Status
  <2>2. Ahead(s, d) = [valid |-> s.valid, stamp |-> s.stamp + d, body |-> s.body, born |-> s.born]
    BY <1>1, <2>1 DEF Ahead, Status
  <2> QED BY <2>1, <2>2 DEF Status
<1>2. CASE ~s.valid
  BY <1>2 DEF Ahead
<1> QED BY <1>1, <1>2

LEMMA StepBackKeeps ==
    ASSUME SteppedInv, NEW d \in Nat, StepBack(d)
    PROVE  SteppedInv'
<1>1. /\ last_cmd_time' = last_cmd_time + d /\ stepped' = stepped + d
      /\ last_basic_status' = Ahead(last_basic_status, d)
      /\ recv' = Ahead(recv, d) /\ status' = Ahead(status, d)
      /\ UNCHANGED <<now, twist, have_cmd, inbound, pc, vel, timed_out, frame, axis, began,
                     withdrawn, stale_drives, cmd_at>>
  BY DEF StepBack, wire_vars, history
<1>2. /\ last_basic_status' \in Status /\ recv' \in Status /\ status' \in Status
      /\ status'.valid = status.valid /\ status'.body = status.body
      /\ last_basic_status'.valid = last_basic_status.valid
      /\ last_basic_status'.body = last_basic_status.body
  BY <1>1, AheadKeeps DEF SteppedInv, Stamps
<1>3. CacheDrivable' = CacheDrivable
  BY <1>2 DEF CacheDrivable
<1>4. Stamps'
  BY <1>1, <1>2, SteppedNumbers DEF SteppedInv, Stamps
<1>5. Timing' /\ SteppedGate'
  BY <1>1, <1>2 DEF SteppedInv, Timing, SteppedGate, Drivable
<1>6. CmdInv'
  BY <1>1, SteppedNumbers DEF SteppedInv, CmdInv, Lease
<1>7. WithdrawnInv'
  BY <1>1, <1>2, <1>3 DEF SteppedInv, WithdrawnInv, Lease, Drivable
<1> QED BY <1>4, <1>5, <1>6, <1>7 DEF SteppedInv

\* The steps of the control loop itself; a cmd_vel starts the count anew.
LEMMA LoopKeeps ==
    ASSUME SteppedInv,
           \/ \E tw \in Twists : CmdVelCallback(tw) /\ cmd_at' = now /\ stepped' = 0
           \/ /\ \/ Control \/ Receive \/ Tick
                 \/ \E b \in Bodies : EmitReport(b)
                 \/ \E r \in inbound : DropReport(r)
              /\ UNCHANGED <<cmd_at, stepped>>
    PROVE  SteppedInv'
<1>1. /\ now \in Nat /\ began \in Nat /\ withdrawn \in Nat /\ last_cmd_time \in Nat
      /\ cmd_at \in Nat /\ stepped \in Nat /\ stale_drives \in Nat
      /\ began <= now /\ withdrawn <= now /\ last_cmd_time = cmd_at + stepped
      /\ CmdTimeout \in Nat /\ ControlPeriod \in Nat /\ MaxStall \in Nat
      /\ Gap \in Nat /\ ControlPeriod <= Gap /\ MaxStall <= Gap
  BY SteppedNumbers DEF SteppedInv
<1>2. Stamps /\ Timing /\ SteppedGate /\ CmdInv /\ WithdrawnInv
  BY DEF SteppedInv
<1>3. ASSUME NEW tw \in Twists, CmdVelCallback(tw), cmd_at' = now, stepped' = 0
      PROVE  SteppedInv'
  <2>1. Stamps'
    BY <1>1, <1>2, <1>3
    DEF CmdVelCallback, recv_vars, control_vars, wire_vars, history, Stamps
  <2>2. Timing'
    BY <1>1, <1>2, <1>3
    DEF CmdVelCallback, recv_vars, control_vars, wire_vars, history, Timing, SteppedGate
  <2>3. SteppedGate'
    BY <1>1, <1>2, <1>3
    DEF CmdVelCallback, recv_vars, control_vars, wire_vars, history, SteppedGate, Timing
  <2>4. CmdInv'
    BY <1>1, <1>2, <1>3
    DEF CmdVelCallback, recv_vars, control_vars, wire_vars, history, CmdInv, Lease, SteppedGate, Timing
  <2>5. WithdrawnInv'
    BY <1>1, <1>2, <1>3
    DEF CmdVelCallback, recv_vars, control_vars, wire_vars, history, WithdrawnInv, Lease, CacheDrivable, SteppedGate, Timing
  <2> QED BY <2>1, <2>2, <2>3, <2>4, <2>5 DEF SteppedInv
<1>4. ASSUME ReadCmd, UNCHANGED <<cmd_at, stepped>> PROVE SteppedInv'
  <2>0. timed_out' = FALSE => have_cmd /\ ~(now - last_cmd_time > CmdTimeout)
    BY <1>4, Zenon DEF ReadCmd
  <2>1. Stamps'
    BY <1>1, <1>2, <1>4, ConstantFacts
    DEF ReadCmd, cmd_vars, recv_vars, wire_vars, Stamps
  <2>2. Timing'
    BY <1>1, <1>2, <1>4, ConstantFacts
    DEF ReadCmd, cmd_vars, recv_vars, wire_vars, Timing, SteppedGate
  <2>3. SteppedGate'
    BY <1>1, <1>2, <1>4, ConstantFacts
    DEF ReadCmd, cmd_vars, recv_vars, wire_vars, SteppedGate, Timing
  <2>4. CmdInv'
    BY <1>1, <1>2, <1>4, ConstantFacts, <2>0
    DEF ReadCmd, cmd_vars, recv_vars, wire_vars, CmdInv, Lease, SteppedGate, Timing
  <2>5. WithdrawnInv'
    BY <1>1, <1>2, <1>4, ConstantFacts
    DEF ReadCmd, cmd_vars, recv_vars, wire_vars, WithdrawnInv, Lease, CacheDrivable, SteppedGate, Timing
  <2> QED BY <2>1, <2>2, <2>3, <2>4, <2>5 DEF SteppedInv
<1>5. ASSUME ReadStatus, UNCHANGED <<cmd_at, stepped>> PROVE SteppedInv'
  <2>1. Stamps'
    BY <1>1, <1>2, <1>5
    DEF ReadStatus, cmd_vars, recv_vars, wire_vars, history, Stamps
  <2>2. Timing'
    BY <1>1, <1>2, <1>5
    DEF ReadStatus, cmd_vars, recv_vars, wire_vars, history, Timing, SteppedGate
  <2>3. SteppedGate'
    BY <1>1, <1>2, <1>5
    DEF ReadStatus, cmd_vars, recv_vars, wire_vars, history, SteppedGate, Timing
  <2>4. CmdInv'
    BY <1>1, <1>2, <1>5
    DEF ReadStatus, cmd_vars, recv_vars, wire_vars, history, CmdInv, Lease, SteppedGate, Timing
  <2>5. WithdrawnInv'
    BY <1>1, <1>2, <1>5
    DEF ReadStatus, cmd_vars, recv_vars, wire_vars, history, WithdrawnInv, Lease, CacheDrivable, SteppedGate, Timing
  <2> QED BY <2>1, <2>2, <2>3, <2>4, <2>5 DEF SteppedInv
<1>6. ASSUME Decide, UNCHANGED <<cmd_at, stepped>> PROVE SteppedInv'
  <2>1. Stamps'
    BY <1>1, <1>2, <1>6, GateSound
    DEF Decide, cmd_vars, recv_vars, wire_vars, history, Stamps
  <2>2. Timing'
    BY <1>1, <1>2, <1>6, GateSound
    DEF Decide, cmd_vars, recv_vars, wire_vars, history, Timing, SteppedGate
  <2>3. SteppedGate'
    BY <1>1, <1>2, <1>6, GateSound
    DEF Decide, cmd_vars, recv_vars, wire_vars, history, SteppedGate, Timing
  <2>4. CmdInv'
    BY <1>1, <1>2, <1>6, GateSound
    DEF Decide, cmd_vars, recv_vars, wire_vars, history, CmdInv, Lease, SteppedGate, Timing
  <2>5. WithdrawnInv'
    BY <1>1, <1>2, <1>6, GateSound
    DEF Decide, cmd_vars, recv_vars, wire_vars, history, WithdrawnInv, Lease, CacheDrivable, SteppedGate, Timing
  <2> QED BY <2>1, <2>2, <2>3, <2>4, <2>5 DEF SteppedInv
<1>7. ASSUME NEW delivered \in BOOLEAN, SendAxis(delivered), UNCHANGED <<cmd_at, stepped>>
      PROVE  SteppedInv'
  <2>1. Stamps'
    BY <1>1, <1>2, <1>7, ConstantFacts
    DEF SendAxis, cmd_vars, recv_vars, Stamps
  <2>2. Timing'
    BY <1>1, <1>2, <1>7, ConstantFacts
    DEF SendAxis, cmd_vars, recv_vars, Timing, SteppedGate
  <2>3. SteppedGate'
    BY <1>1, <1>2, <1>7, ConstantFacts
    DEF SendAxis, cmd_vars, recv_vars, SteppedGate, Timing
  <2>4. CmdInv'
    BY <1>1, <1>2, <1>7, ConstantFacts
    DEF SendAxis, cmd_vars, recv_vars, CmdInv, Lease, SteppedGate, Timing
  <2>5. WithdrawnInv'
    BY <1>1, <1>2, <1>7, ConstantFacts
    DEF SendAxis, cmd_vars, recv_vars, WithdrawnInv, Lease, CacheDrivable, SteppedGate, Timing
  <2> QED BY <2>1, <2>2, <2>3, <2>4, <2>5 DEF SteppedInv
<1>8. ASSUME StoreReport, UNCHANGED <<cmd_at, stepped>> PROVE SteppedInv'
  <2>1. Stamps'
    BY <1>1, <1>2, <1>8, ConstantFacts
    DEF StoreReport, cmd_vars, control_vars, wire_vars, Stamps
  <2>2. Timing'
    BY <1>1, <1>2, <1>8, ConstantFacts
    DEF StoreReport, cmd_vars, control_vars, wire_vars, Timing, SteppedGate
  <2>3. SteppedGate'
    BY <1>1, <1>2, <1>8, ConstantFacts
    DEF StoreReport, cmd_vars, control_vars, wire_vars, SteppedGate, Timing
  <2>4. CmdInv'
    BY <1>1, <1>2, <1>8, ConstantFacts
    DEF StoreReport, cmd_vars, control_vars, wire_vars, CmdInv, Lease, SteppedGate, Timing
  <2>5. WithdrawnInv'
    BY <1>1, <1>2, <1>8, ConstantFacts
    DEF StoreReport, cmd_vars, control_vars, wire_vars, WithdrawnInv, Lease, CacheDrivable, SteppedGate, Timing
  <2> QED BY <2>1, <2>2, <2>3, <2>4, <2>5 DEF SteppedInv
<1>9. ASSUME Tick, UNCHANGED <<cmd_at, stepped>> PROVE SteppedInv'
  <2>1. Stamps'
    BY <1>1, <1>2, <1>9
    DEF Tick, cmd_vars, recv_vars, control_vars, wire_vars, history, Stamps
  <2>2. Timing'
    BY <1>1, <1>2, <1>9
    DEF Tick, cmd_vars, recv_vars, control_vars, wire_vars, history, Timing, SteppedGate
  <2>3. SteppedGate'
    BY <1>1, <1>2, <1>9
    DEF Tick, cmd_vars, recv_vars, control_vars, wire_vars, history, SteppedGate, Timing
  <2>4. CmdInv'
    BY <1>1, <1>2, <1>9
    DEF Tick, cmd_vars, recv_vars, control_vars, wire_vars, history, CmdInv, Lease, SteppedGate, Timing
  <2>5. WithdrawnInv'
    BY <1>1, <1>2, <1>9
    DEF Tick, cmd_vars, recv_vars, control_vars, wire_vars, history, WithdrawnInv, Lease, CacheDrivable, SteppedGate, Timing
  <2> QED BY <2>1, <2>2, <2>3, <2>4, <2>5 DEF SteppedInv
<1>10. ASSUME UNCHANGED <<now, cmd_vars, last_basic_status, control_vars, wire_vars, history>>,
              recv' \in Status, inbound' \subseteq Report, UNCHANGED <<cmd_at, stepped>>
       PROVE  SteppedInv'
  BY <1>1, <1>2, <1>10
  DEF cmd_vars, control_vars, wire_vars, history, SteppedInv, Stamps, Timing, SteppedGate,
      CmdInv, WithdrawnInv, Lease, CacheDrivable
<1>11. ASSUME NEW b \in Bodies, EmitReport(b), UNCHANGED <<cmd_at, stepped>>
       PROVE  SteppedInv'
  BY <1>2, <1>10, <1>11, BodyAssumption DEF EmitReport, Stamps, Report
<1>12. ASSUME NEW r \in inbound, DropReport(r), UNCHANGED <<cmd_at, stepped>>
       PROVE  SteppedInv'
  BY <1>2, <1>10, <1>12 DEF DropReport, Stamps
<1>13. ASSUME NEW r \in inbound, ReceiveReport(r), UNCHANGED <<cmd_at, stepped>>
       PROVE  SteppedInv'
  BY <1>1, <1>2, <1>10, <1>13 DEF ReceiveReport, Stored, Stamps, Status, Report
<1> QED BY <1>3, <1>4, <1>5, <1>6, <1>7, <1>8, <1>9, <1>11, <1>12, <1>13 DEF Control, Receive

LEMMA SteppedInvariance ==
    ASSUME Steps \subseteq Nat
    PROVE  SteppedSpec => []SteppedInv
<1>1. SteppedInv /\ [SteppedNext]_stepped_vars => SteppedInv'
  <2> SUFFICES ASSUME SteppedInv, [SteppedNext]_stepped_vars PROVE SteppedInv'
    OBVIOUS
  <2>1. ASSUME NEW d \in Steps, StepBack(d) PROVE SteppedInv'
    BY <2>1, StepBackKeeps
  <2>2. CASE UNCHANGED stepped_vars
    BY <2>2 DEF stepped_vars, vars, cmd_vars, recv_vars, control_vars, wire_vars, history, SteppedInv,
       Stamps, Timing, SteppedGate, CmdInv, WithdrawnInv, Lease, CacheDrivable
  <2> QED BY <2>1, <2>2, LoopKeeps DEF SteppedNext
<1> QED BY <1>1, SteppedInitially, PTL DEF SteppedSpec

-----------------------------------------------------------------------------
(* A clock set back delays the cmd_vel watchdog by what it was set back since
   the last cmd_vel and no more (CmdVelBridge.cpp:705, 736). *)
THEOREM WatchdogLateHolds ==
    ASSUME Steps \subseteq Nat
    PROVE  SteppedSpec => []WatchdogLate
<1>1. SteppedInv => WatchdogLate
  BY SteppedNumbers DEF SteppedInv, Timing, CmdInv, Lease, WatchdogLate, Reaction
<1> QED BY <1>1, SteppedInvariance, PTL

(* It delays no stop the robot's own report asks for
   (CmdVelBridge.cpp:745-778). *)
THEOREM SteppedUnsafeStops ==
    ASSUME Steps \subseteq Nat
    PROVE  SteppedSpec => []UnsafeStops
<1>1. SteppedInv => UnsafeStops
  BY SteppedNumbers DEF SteppedInv, Timing, WithdrawnInv, Lease, UnsafeStops, Reaction
<1> QED BY <1>1, SteppedInvariance, PTL

(* And it lets no second drive command out after such a report
   (CmdVelBridge.cpp:739-797). *)
THEOREM SteppedStaleDriveBound ==
    ASSUME Steps \subseteq Nat
    PROVE  SteppedSpec => []AtMostOneStaleDrive
<1>1. SteppedInv => AtMostOneStaleDrive
  BY DEF SteppedInv, WithdrawnInv, AtMostOneStaleDrive
<1> QED BY <1>1, SteppedInvariance, PTL
=============================================================================
