------------------------- MODULE HeartbeatLinkProofs ------------------------
(***************************************************************************)
(* Theorems about HeartbeatLink for all durations.                         *)
(***************************************************************************)
EXTENDS HeartbeatLink, LifecycleProofs

(* The timed steps are steps of Lifecycle or take no step of it, so all that
   is proved of Lifecycle holds of the node in time
   (CmdVelBridge.cpp:55-163, 175-197, 709-724). *)
THEOREM TimedLifecycle == LinkSpec => Spec
<1>1. LinkInit => Init
  BY DEF LinkInit
<1>2. [LinkNext]_linkVars => [Next]_vars
  <2> SUFFICES ASSUME [LinkNext]_linkVars PROVE [Next]_vars
    OBVIOUS
  <2>1. CASE MainStep
    BY <2>1 DEF MainStep, Next
  <2>2. CASE HeartbeatThread
    <3>1. \/ ThreadStep("heartbeat")
          \/ UNCHANGED vars
      BY <2>2 DEF HeartbeatThread, LoopHead, SendHeartbeat, Doze, Wake, DozeEnds
    <3> QED BY <3>1 DEF Next, Threads
  <2>3. CASE ReceiveThread
    <3>1. ThreadStep("recv") \/ UNCHANGED vars
      BY <2>3 DEF ReceiveThread, LoopHead, ReceiveReturns, StartPoll, PollWakes, ReceiveGoesOn
    <3> QED BY <3>1 DEF Next, Threads
  <2>4. CASE Tick
    BY <2>4 DEF Tick
  <2>5. CASE UNCHANGED linkVars
    BY <2>5 DEF linkVars
  <2> QED BY <2>1, <2>2, <2>3, <2>4, <2>5 DEF LinkNext
<1> QED BY <1>1, <1>2, PTL DEF LinkSpec, Spec

-----------------------------------------------------------------------------
\* How long the rest of the pause between two heartbeats can still take.
Rest(r) == r + ((r + PollStep - 1) \div PollStep) * Slack

\* One more turn of the inner loop pays for its own sleep.
LEMMA RestFalls ==
    ASSUME NEW r \in Nat, r > 0
    PROVE  /\ Rest(r) \in Nat /\ Rest(0) = 0
           /\ LET step == Less(PollStep, r)
              IN  step \in Nat /\ r - step \in Nat /\ step + Slack + Rest(r - step) <= Rest(r)
<1> DEFINE Turns(n) == (n + PollStep - 1) \div PollStep
<1>1. PollStep \in Nat /\ PollStep > 0 /\ Slack \in Nat
  BY DurationAssumption
<1>2. ASSUME NEW a \in Nat
      PROVE  /\ a \div PollStep \in Nat
             /\ PollStep * (a \div PollStep) <= a
             /\ a < PollStep * (a \div PollStep) + PollStep
  BY <1>1
<1>3. Turns(r) \in Nat /\ Turns(r) >= 1
  <2>1. r + PollStep - 1 \in Nat /\ r + PollStep - 1 >= PollStep
    BY <1>1
  <2>2. ~(Turns(r) = 0)
    BY <1>1, <1>2, <2>1
  <2> QED BY <1>2, <2>1, <2>2
<1>4. Turns(0) = 0
  <2>1. PollStep - 1 \in Nat
    BY <1>1
  <2>2. CASE (PollStep - 1) \div PollStep >= 1
    <3>1. PollStep * ((PollStep - 1) \div PollStep) >= PollStep
      BY <1>1, <1>2, <2>1, <2>2
    <3> QED BY <1>1, <1>2, <2>1, <3>1
  <2> QED BY <1>1, <1>2, <2>1, <2>2
<1>5. Rest(0) = 0
  BY <1>1, <1>4 DEF Rest
<1>6. Rest(r) = r + Turns(r) * Slack /\ Turns(r) * Slack \in Nat
  BY <1>1, <1>3 DEF Rest
<1>7. CASE r <= PollStep
  <2>1. Less(PollStep, r) = r
    BY <1>1, <1>7 DEF Less
  <2>2. Turns(r) * Slack >= Slack
    BY <1>1, <1>3
  <2> HIDE DEF Turns
  <2> QED BY <1>1, <1>5, <1>6, <2>1, <2>2
<1>8. CASE r > PollStep
  <2>1. Less(PollStep, r) = PollStep
    BY <1>1, <1>8 DEF Less
  <2>2. r - PollStep \in Nat /\ r - PollStep + PollStep - 1 = r - 1 /\ r - 1 \in Nat
    BY <1>1, <1>8
  <2>3. Turns(r) = Turns(r - PollStep) + 1
    <3> DEFINE q == Turns(r)  p == Turns(r - PollStep)
    <3>1. p = (r - 1) \div PollStep /\ p \in Nat
          /\ PollStep * p <= r - 1 /\ r - 1 < PollStep * p + PollStep
      BY <1>2, <2>2
    <3>2. q \in Nat /\ PollStep * q <= r + PollStep - 1 /\ r + PollStep - 1 < PollStep * q + PollStep
      BY <1>1, <1>2
    <3> HIDE DEF p, q
    <3>3. ASSUME q >= p + 2 PROVE FALSE
      <4>1. PollStep * q >= PollStep * p + PollStep + PollStep
        BY <1>1, <3>1, <3>2, <3>3
      <4> QED BY <1>1, <3>1, <3>2, <4>1
    <3>4. ASSUME q <= p PROVE FALSE
      <4>1. PollStep * q <= PollStep * p
        BY <1>1, <3>1, <3>2, <3>4
      <4> QED BY <1>1, <3>1, <3>2, <4>1
    <3>5. q = p + 1
      BY <3>1, <3>2, <3>3, <3>4
    <3> QED BY <3>5 DEF p, q
  <2>4. Turns(r - PollStep) \in Nat
    BY <1>2, <2>2
  <2>5. Rest(r - PollStep) = r - PollStep + Turns(r - PollStep) * Slack
    BY DEF Rest
  <2> HIDE DEF Turns
  <2>6. Turns(r) * Slack = Turns(r - PollStep) * Slack + Slack
    BY <1>1, <2>3, <2>4
  <2>7. Turns(r - PollStep) * Slack \in Nat
    BY <1>1, <2>4
  <2> QED BY <1>1, <1>5, <1>6, <2>1, <2>2, <2>5, <2>6, <2>7
<1> QED BY <1>1, <1>7, <1>8

-----------------------------------------------------------------------------
\* The inductive invariant.

TimingOK ==
    /\ left \in [Threads -> Nat] /\ waited \in 0 .. Period
    /\ heard \in Nat /\ lost \in 0 .. MaxLost /\ asked \in Nat
    /\ receiving \in {"lock", "poll", "read"}

\* running_ is set when no thread has run yet, and never again once cleared.
Started ==
    /\ main \in {"open", "start_recv"} => \A t \in Threads : thread[t] = "none"
    /\ main \in {"open", "start_recv", "start_heartbeat"} => thread["heartbeat"] = "none"
    /\ main \in {"open", "start_recv"} => asked = 0
    /\ main = "start_heartbeat" => running
    /\ running => asked = 0

\* What may still follow the wait that receive() is in.
Later ==
    IF thread["recv"] # "io" THEN 0
    ELSE IF receiving = "lock" THEN PollTimeout + Slack + ReadMax
    ELSE IF receiving = "poll" THEN ReadMax ELSE 0

\* A thread's call ends before its next look at running_, and each call has
\* its longest duration.
CallsEnd ==
    /\ \A t \in Threads : thread[t] \in {"none", "check"} => left[t] = 0
    /\ thread["recv"] = "io" => left["recv"] + Later <= ReceiveMax
    /\ thread["recv"] = "work" => left["recv"] = 0
    /\ thread["heartbeat"] = "io" => left["heartbeat"] <= SendMax
    /\ thread["heartbeat"] = "work" => left["heartbeat"] <= PollStep + Slack

\* What the robot may have to wait for the next heartbeat is paid for by the
\* gaps of the heartbeats lost so far and of one more.
Allowance == (lost + 1) * MaxGap
Budget ==
    /\ thread["heartbeat"] = "none" => heard = 0 /\ lost = 0
    /\ running =>
          /\ thread["heartbeat"] = "check" => heard + SendMax <= Allowance
          /\ thread["heartbeat"] = "io" => heard + left["heartbeat"] <= Allowance
          /\ thread["heartbeat"] = "work" =>
                heard + left["heartbeat"] + Rest(Period - waited) + SendMax <= Allowance

Larger(a, b) == IF a < b THEN b ELSE a
Longest == Larger(SendMax, Larger(ReceiveMax, PollStep + Slack))

\* Once running_ is cleared a thread has the rest of its call and no more.
Prompt ==
    ~running =>
        /\ Alive("heartbeat") => asked + left["heartbeat"] <= Longest
        /\ Alive("recv") => asked + left["recv"] + Later <= Longest

LinkInv == TimingOK /\ Started /\ CallsEnd /\ Budget /\ Prompt

-----------------------------------------------------------------------------
LEMMA Durations ==
    /\ Period \in Nat /\ Period > 0 /\ PollStep \in Nat /\ PollStep > 0
    /\ Slack \in Nat /\ SendMax \in Nat /\ MaxLost \in Nat
    /\ LockMax \in Nat /\ PollTimeout \in Nat /\ ReadMax \in Nat
    /\ ReceiveMax \in Nat /\ ReceiveMax = LockMax + PollTimeout + Slack + ReadMax
    /\ Longest \in Nat /\ SendMax <= Longest /\ ReceiveMax <= Longest
    /\ PollStep + Slack <= Longest
    /\ Longest \in {SendMax, ReceiveMax, PollStep + Slack}
BY DurationAssumption DEF Longest, Larger, ReceiveMax

LEMMA LaterIsTime == Later \in Nat /\ Later' \in Nat
BY Durations DEF Later

LEMMA Gaps ==
    /\ MaxGap \in Nat /\ MaxGap = SendMax + Rest(Period) /\ Rest(Period) \in Nat
    /\ \A n \in Nat : (n + 1) * MaxGap \in Nat /\ (n + 2) * MaxGap = (n + 1) * MaxGap + MaxGap
    /\ \A n \in 0 .. MaxLost : (n + 1) * MaxGap <= (MaxLost + 1) * MaxGap
<1>1. Rest(Period) \in Nat
  BY Durations, RestFalls
<1>2. MaxGap = SendMax + Rest(Period)
  <2>1. Rest(Period) = Period + Polls * Slack
    BY DEF Rest, Polls
  <2>2. MaxGap = SendMax + Period + Polls * Slack
    BY DEF MaxGap
  <2>3. Rest(Period) - Period = Polls * Slack /\ Polls * Slack \in Int
    <3>1. Polls \in Int
      BY Durations DEF Polls
    <3> QED BY <2>1, <3>1, Durations
  <2> QED BY <2>1, <2>2, <2>3, Durations
<1>3. MaxGap \in Nat
  BY <1>1, <1>2, Durations
<1> HIDE DEF MaxGap
<1>4. ASSUME NEW n \in Nat
      PROVE  (n + 1) * MaxGap \in Nat /\ (n + 2) * MaxGap = (n + 1) * MaxGap + MaxGap
  BY <1>3
<1>5. ASSUME NEW n \in 0 .. MaxLost
      PROVE  (n + 1) * MaxGap <= (MaxLost + 1) * MaxGap
  <2>1. n + 1 \in Nat /\ MaxLost - n \in Nat
    BY Durations
  <2>2. (MaxLost + 1) * MaxGap = (n + 1) * MaxGap + (MaxLost - n) * MaxGap
    BY <1>3, <2>1, Durations
  <2>3. (MaxLost - n) * MaxGap \in Nat /\ (n + 1) * MaxGap \in Nat
    BY <1>3, <2>1
  <2> QED BY <2>2, <2>3
<1> QED BY <1>1, <1>2, <1>3, <1>4, <1>5

LEMMA LinkInvInit == LinkInit => LinkInv
BY Durations, Gaps
DEF LinkInit, Init, LinkInv, TimingOK, Started, CallsEnd, Budget, Prompt, Alive, Later, Threads

LEMMA MainKeepsTime ==
    ASSUME TypeOK, LinkInv, MainStep
    PROVE  LinkInv'
<1> USE DEF Threads
<1> SUFFICES Started' /\ CallsEnd' /\ Budget' /\ Prompt'
  BY DEF LinkInv, TimingOK, MainStep, timing
<1>1. UNCHANGED <<left, receiving, waited, heard, lost, asked>>
  BY DEF MainStep, timing
<1>2. Allowance' = Allowance
  BY <1>1 DEF Allowance
<1>3. CASE /\ UNCHANGED <<running, thread>>
           /\ main' = main \/ main' \notin {"open", "start_recv", "start_heartbeat"}
  BY <1>1, <1>2, <1>3 DEF LinkInv, Started, CallsEnd, Budget, Prompt, Alive, Later
<1>4. CASE OpenTransport
  <2>1. UNCHANGED <<running, thread>> /\ main = "open"
        /\ main' \in {"start_recv", "unwind"}
    BY <1>4 DEF OpenTransport, Goto, Throw
  <2> QED
    BY <1>1, <1>2, <2>1 DEF LinkInv, Started, CallsEnd, Budget, Prompt, Alive, Later
<1>5. ASSUME NEW t \in Threads, NEW at \in {"start_recv", "start_heartbeat"},
             NEW next \in {"start_heartbeat", "startup"}, StartThread(t, at, next),
             at = "start_recv" => t = "recv" /\ next = "start_heartbeat",
             at = "start_heartbeat" => t = "heartbeat" /\ next = "startup"
      PROVE  LinkInv'
  <2>1. /\ main = at /\ running'
        /\ \/ main' = next /\ thread' = [thread EXCEPT ![t] = "check"]
           \/ main' = "unwind" /\ thread' = thread
    BY <1>5 DEF StartThread, Goto, Throw
  <2>2. /\ thread["heartbeat"] = "none" /\ left["heartbeat"] = 0
        /\ heard = 0 /\ lost = 0 /\ asked = 0 /\ thread[t] = "none" /\ left[t] = 0
        /\ at = "start_recv" => ~(\E u \in Threads : Alive(u))
    BY <1>5, <2>1 DEF LinkInv, Started, CallsEnd, Budget, Alive
  <2>3. SendMax <= Allowance'
    BY <1>2, <2>2, Gaps, Durations DEF Allowance
  <2>4. Started'
    BY <1>1, <1>5, <2>1, <2>2 DEF TypeOK, LinkInv, Started
  <2>5. CallsEnd'
    BY <1>1, <1>5, <2>1, <2>2 DEF TypeOK, LinkInv, CallsEnd, Later
  <2>6. Budget'
    <3>1. thread'["heartbeat"] \in {"none", "check"}
      BY <1>5, <2>1, <2>2 DEF TypeOK
    <3> QED BY <1>1, <2>2, <2>3, <3>1, Durations DEF Budget
  <2>7. Prompt'
    BY <2>1 DEF Prompt
  <2> QED BY <1>1, <2>4, <2>5, <2>6, <2>7 DEF LinkInv, TimingOK
<1>6. CASE StartRecv \/ StartHeartbeat
  BY <1>5, <1>6 DEF StartRecv, StartHeartbeat, LinkInv
<1>7. CASE ClearRunning
  <2>1. /\ ~running' /\ thread' = thread
        /\ main' \notin {"open", "start_recv", "start_heartbeat"}
    BY <1>7 DEF ClearRunning, Goto
  <2>2. Prompt'
    <3>1. CASE running
      BY <1>1, <2>1, <3>1, Durations DEF LinkInv, TimingOK, Started, CallsEnd, Prompt, Alive, Later
    <3>2. CASE ~running
      BY <1>1, <2>1, <3>2 DEF LinkInv, Prompt, Alive, Later
    <3> QED BY <3>1, <3>2
  <2> QED BY <1>1, <2>1, <2>2 DEF LinkInv, Started, CallsEnd, Budget, Later
<1>8. CASE \/ RunStartup \/ Subscribe \/ Unwind \/ SpinThrows \/ SpinReturns \/ SendStop
           \/ JoinRecv \/ JoinHeartbeat \/ ResetTransport \/ Sigint \/ Ended
           \/ \E axis \in {"drive", "stop"} : SpinSend(axis)
  <2>1. /\ UNCHANGED <<running, thread>>
        /\ main' = main \/ main' \notin {"open", "start_recv", "start_heartbeat"}
    BY <1>8 DEF RunStartup, Subscribe, Unwind, SpinThrows, SpinReturns, SendStop, JoinRecv,
       JoinHeartbeat, ResetTransport, Sigint, Ended, SpinSend, Goto, Throw, vars
  <2> QED BY <1>3, <2>1
<1> QED BY <1>4, <1>6, <1>7, <1>8 DEF MainStep, Construct, Destroy

LEMMA HeartbeatKeepsTime ==
    ASSUME TypeOK, LinkInv, HeartbeatThread
    PROVE  LinkInv'
<1> USE DEF Threads
<1>6. Later' = Later /\ Later \in Nat
  <2>1. receiving' = receiving
    BY DEF HeartbeatThread, LoopHead, SendHeartbeat, Doze, Wake, DozeEnds, timing
  <2>2. \/ thread' = thread
        \/ \E at \in {"check", "io", "work", "exited"} :
              thread' = [thread EXCEPT !["heartbeat"] = at]
    BY DEF HeartbeatThread, LoopHead, SendHeartbeat, Doze, Wake, DozeEnds, timing, vars,
       ThreadStep, Check, Io, Work
  <2>3. thread'["recv"] = thread["recv"]
    BY <2>2 DEF TypeOK
  <2> QED BY <2>1, <2>3, LaterIsTime DEF Later
<1>1. CASE LoopHead("heartbeat")
  <2>1. /\ thread["heartbeat"] = "check" /\ UNCHANGED <<main, running, receiving, waited, heard, lost, asked>>
        /\ thread' = [thread EXCEPT !["heartbeat"] = IF running THEN "io" ELSE "exited"]
        /\ left' = [left EXCEPT !["heartbeat"] = IF ~running THEN 0 ELSE SendMax]
    BY <1>1 DEF LoopHead, ThreadStep, Check, Io, Work
  <2>2. /\ thread'["heartbeat"] = (IF running THEN "io" ELSE "exited")
        /\ left'["heartbeat"] = (IF running THEN SendMax ELSE 0)
        /\ thread'["recv"] = thread["recv"] /\ left'["recv"] = left["recv"]
        /\ left' \in [Threads -> Nat]
    BY <2>1, Durations DEF TypeOK, LinkInv, TimingOK
  <2>3. TimingOK' /\ Started'
    BY <2>1, <2>2 DEF LinkInv, TimingOK, Started
  <2>4. CallsEnd' /\ Prompt'
    BY <1>6, <2>1, <2>2, Durations DEF LinkInv, CallsEnd, Prompt, Alive
  <2>5. Budget'
    BY <2>1, <2>2, Durations DEF LinkInv, TimingOK, Budget, Allowance
  <2> QED BY <2>3, <2>4, <2>5 DEF LinkInv
<1>2. ASSUME NEW arrives \in BOOLEAN, SendHeartbeat(arrives)
      PROVE  LinkInv'
  <2>1. /\ thread["heartbeat"] = "io" /\ UNCHANGED <<main, running, receiving, asked>>
        /\ thread' = [thread EXCEPT !["heartbeat"] = "work"]
        /\ left' = [left EXCEPT !["heartbeat"] = 0] /\ waited' = 0
        /\ \/ heard' = 0 /\ lost' = 0
           \/ lost < MaxLost /\ lost' = lost + 1 /\ heard' = heard
    BY <1>2 DEF SendHeartbeat, ThreadStep, Check, Io, Work
  <2>2. /\ thread'["heartbeat"] = "work" /\ left'["heartbeat"] = 0
        /\ thread'["recv"] = thread["recv"] /\ left'["recv"] = left["recv"]
        /\ left' \in [Threads -> Nat]
        /\ Period - waited' = Period
    <3>1. thread'["heartbeat"] = "work" /\ thread'["recv"] = thread["recv"]
      BY <2>1 DEF TypeOK
    <3>2. left'["heartbeat"] = 0 /\ left'["recv"] = left["recv"] /\ left' \in [Threads -> Nat]
      BY <2>1 DEF LinkInv, TimingOK
    <3>3. Period - waited' = Period
      BY <2>1, Durations
    <3> QED BY <3>1, <3>2, <3>3
  <2>3. TimingOK' /\ Started'
    <3>1. heard' \in Nat /\ lost' \in 0 .. MaxLost
      BY <2>1, Durations DEF LinkInv, TimingOK
    <3>2. waited' \in 0 .. Period /\ asked' \in Nat
      BY <2>1, Durations DEF LinkInv, TimingOK
    <3> QED BY <2>1, <2>2, <3>1, <3>2 DEF LinkInv, TimingOK, Started
  <2>4. CallsEnd' /\ Prompt'
    <3>1. left["heartbeat"] \in Nat /\ asked \in Nat
      BY DEF LinkInv, TimingOK
    <3> QED BY <1>6, <2>1, <2>2, <3>1, Durations DEF LinkInv, CallsEnd, Prompt, Alive
  <2>5. running => heard' + Rest(Period) + SendMax <= Allowance'
    <3>1. CASE heard' = 0 /\ lost' = 0
      BY <3>1, Gaps, Durations DEF Allowance
    <3>2. CASE lost < MaxLost /\ lost' = lost + 1 /\ heard' = heard
      <4>1. Allowance' = Allowance + MaxGap /\ Allowance \in Nat
        BY <3>2, Gaps, Durations DEF LinkInv, TimingOK, Allowance
      <4>2. /\ heard \in Nat /\ left["heartbeat"] \in Nat
            /\ running => heard + left["heartbeat"] <= Allowance
        BY <2>1 DEF LinkInv, TimingOK, Budget
      <4> QED BY <3>2, <4>1, <4>2, Gaps, Durations
    <3> QED BY <2>1, <3>1, <3>2
  <2>6. Budget'
    <3>1. heard' \in Nat
      BY <2>3 DEF TimingOK
    <3> QED BY <2>1, <2>2, <2>5, <3>1, Gaps, Durations DEF Budget
  <2> QED BY <2>3, <2>4, <2>6 DEF LinkInv
<1>3. CASE Doze
  <2> DEFINE step == Less(PollStep, Period - waited)
  <2>1. /\ thread["heartbeat"] = "work" /\ left["heartbeat"] = 0 /\ running /\ waited < Period
        /\ UNCHANGED <<main, running, receiving, thread, heard, lost, asked>>
        /\ left' = [left EXCEPT !["heartbeat"] = step + Slack] /\ waited' = waited + step
    BY <1>3 DEF Doze, vars
  <2>2. /\ Period - waited \in Nat /\ Period - waited > 0
        /\ step \in Nat /\ step <= PollStep /\ step <= Period - waited
    BY <2>1, Durations DEF LinkInv, TimingOK, Less
  <2>3. /\ Period - waited' = Period - waited - step
        /\ step + Slack + Rest(Period - waited') <= Rest(Period - waited)
        /\ Rest(Period - waited) \in Nat /\ Rest(Period - waited') \in Nat
    <3>1. Period - waited' = Period - waited - step /\ Period - waited' \in Nat
      BY <2>1, <2>2, Durations DEF LinkInv, TimingOK
    <3>2. Rest(Period - waited') \in Nat
      BY <3>1, RestFalls
    <3> QED BY <2>2, <3>1, <3>2, RestFalls
  <2>4. TimingOK' /\ Started'
    BY <2>1, <2>2, Durations DEF LinkInv, TimingOK, Started
  <2>5. CallsEnd' /\ Prompt'
    BY <1>6, <2>1, <2>2, Durations DEF LinkInv, TimingOK, CallsEnd, Prompt, Alive
  <2>6. Budget'
    <3>1. heard + left["heartbeat"] + Rest(Period - waited) + SendMax <= Allowance
      BY <2>1 DEF LinkInv, Budget
    <3>2. Allowance' = Allowance /\ Allowance \in Nat
      BY <2>1, Gaps, Durations DEF LinkInv, TimingOK, Allowance
    <3>3. left'["heartbeat"] = step + Slack
      BY <2>1 DEF LinkInv, TimingOK
    <3>4. heard' + left'["heartbeat"] + Rest(Period - waited') + SendMax <= Allowance'
      BY <2>1, <2>2, <2>3, <3>1, <3>2, <3>3, Durations DEF LinkInv, TimingOK
    <3> QED BY <2>1, <3>4 DEF LinkInv, Budget
  <2> QED BY <2>4, <2>5, <2>6 DEF LinkInv
<1>4. CASE Wake
  <2>1. /\ thread["heartbeat"] = "work" /\ left["heartbeat"] \in 1 .. Slack
        /\ UNCHANGED <<main, running, receiving, thread, waited, heard, lost, asked>>
        /\ left' = [left EXCEPT !["heartbeat"] = 0]
    BY <1>4 DEF Wake, vars
  <2>2. TimingOK' /\ Started'
    BY <2>1 DEF LinkInv, TimingOK, Started
  <2>3. CallsEnd' /\ Prompt'
    BY <1>6, <2>1, Durations DEF LinkInv, TimingOK, CallsEnd, Prompt, Alive
  <2>4. Period - waited \in Nat /\ Rest(Period - waited) \in Nat
    <3>1. Period - waited \in Nat
      BY Durations DEF LinkInv, TimingOK
    <3> QED BY <3>1, RestFalls
  <2>5. Budget'
    <3>1. running => heard + left["heartbeat"] + Rest(Period - waited) + SendMax <= Allowance
      BY <2>1 DEF LinkInv, Budget
    <3>2. Allowance' = Allowance /\ Allowance \in Nat
      BY <2>1, Gaps, Durations DEF LinkInv, TimingOK, Allowance
    <3>3. left'["heartbeat"] = 0 /\ left["heartbeat"] \in Nat /\ heard \in Nat
      BY <2>1 DEF LinkInv, TimingOK
    <3>4. running => heard + 0 + Rest(Period - waited) + SendMax <= Allowance
      BY <2>4, <3>1, <3>2, <3>3, Durations
    <3> QED BY <2>1, <3>2, <3>3, <3>4 DEF LinkInv, Budget
  <2> QED BY <2>2, <2>3, <2>5 DEF LinkInv
<1>5. CASE DozeEnds
  <2>1. /\ thread["heartbeat"] = "work" /\ left["heartbeat"] = 0
        /\ ~running \/ waited >= Period
        /\ UNCHANGED <<main, running, receiving, left, waited, heard, lost, asked>>
        /\ thread' = [thread EXCEPT !["heartbeat"] = "check"]
    BY <1>5 DEF DozeEnds, ThreadStep, Check, Io, Work, timing
  <2>2. TimingOK' /\ Started'
    BY <2>1 DEF TypeOK, LinkInv, TimingOK, Started
  <2>3. CallsEnd' /\ Prompt'
    BY <1>6, <2>1, Durations DEF TypeOK, LinkInv, TimingOK, CallsEnd, Prompt, Alive
  <2>4. running => Period - waited = 0
    BY <2>1, Durations DEF LinkInv, TimingOK
  <2>5. Budget'
    <3>1. Rest(0) = 0
      BY RestFalls, Durations
    <3>2. running => heard + SendMax <= Allowance
      BY <2>1, <2>4, <3>1, Durations DEF LinkInv, TimingOK, Budget
    <3> QED BY <2>1, <3>2 DEF TypeOK, Budget, Allowance
  <2> QED BY <2>2, <2>3, <2>5 DEF LinkInv
<1> QED BY <1>1, <1>2, <1>3, <1>4, <1>5 DEF HeartbeatThread

LEMMA ReceiverKeepsTime ==
    ASSUME TypeOK, LinkInv, ReceiveThread
    PROVE  LinkInv'
<1> USE DEF Threads
<1>1. UNCHANGED <<main, running, waited, heard, lost, asked>>
  BY DEF ReceiveThread, LoopHead, StartPoll, PollWakes, ReceiveGoesOn, ReceiveReturns,
     ThreadStep, vars
\* The step seen from the receive thread: where it is, at which wait, for how
\* long, and nothing else.
<1>2. ASSUME NEW at \in {"check", "io", "work", "exited"},
             NEW l \in Nat, NEW phase \in {"lock", "poll", "read"},
             NEW later \in Nat, Later' = later,
             thread["recv"] \in {"check", "io", "work"},
             thread' = [thread EXCEPT !["recv"] = at],
             left' = [left EXCEPT !["recv"] = l],
             receiving' = phase,
             at \in {"check", "work"} => l = 0,
             at = "io" => l + later <= ReceiveMax,
             ~running /\ at # "exited" => l + later <= left["recv"] + Later
      PROVE  LinkInv'
  <2>1. /\ thread'["heartbeat"] = thread["heartbeat"] /\ thread'["recv"] = at
        /\ left'["heartbeat"] = left["heartbeat"] /\ left'["recv"] = l
        /\ left' \in [Threads -> Nat] /\ left["recv"] \in Nat /\ asked \in Nat
    BY <1>2 DEF TypeOK, LinkInv, TimingOK
  <2>2. TimingOK' /\ Started'
    BY <1>1, <1>2, <2>1 DEF LinkInv, TimingOK, Started
  <2>3. CallsEnd'
    BY <1>1, <1>2, <2>1 DEF LinkInv, CallsEnd
  <2>4. Later \in Nat
    BY LaterIsTime
  <2>5. Prompt'
    <3> SUFFICES ASSUME ~running PROVE Prompt!2'
      BY <1>1 DEF Prompt
    <3>1. Alive("heartbeat")' => asked' + left'["heartbeat"] <= Longest
      BY <1>1, <2>1 DEF LinkInv, Prompt, Alive
    <3>2. asked + left["recv"] + Later <= Longest
      BY <1>2 DEF LinkInv, Prompt, Alive
    <3>3. Alive("recv")' => asked' + left'["recv"] + Later' <= Longest
      <4> SUFFICES ASSUME at # "exited" PROVE asked + l + later <= Longest
        BY <1>1, <1>2, <2>1 DEF Alive
      <4>1. l + later <= left["recv"] + Later
        BY <1>2
      <4>2. Longest \in Nat
        BY Durations
      <4>3. l \in Nat /\ l + later \in Nat /\ left["recv"] + Later \in Nat
        BY <1>2, <2>1, <2>4
      <4> QED BY <2>1, <2>4, <3>2, <4>1, <4>2, <4>3
    <3> QED BY <3>1, <3>3
  <2>6. Budget'
    BY <1>1, <2>1 DEF LinkInv, Budget, Allowance
  <2> QED BY <2>2, <2>3, <2>5, <2>6 DEF LinkInv
<1>3. CASE LoopHead("recv")
  <2>1. /\ thread["recv"] = "check"
        /\ thread' = [thread EXCEPT !["recv"] = IF running THEN "io" ELSE "exited"]
        /\ left' = [left EXCEPT !["recv"] = IF ~running THEN 0 ELSE LockMax]
        /\ receiving' = "lock"
    BY <1>3 DEF LoopHead, ThreadStep, Check, Io, Work
  <2> DEFINE rest == PollTimeout + Slack + ReadMax
  <2>2. rest \in Nat /\ LockMax + rest <= ReceiveMax
    BY Durations
  <2>3. CASE running
    <3>1. Later' = rest
      BY <2>1, <2>3 DEF TypeOK, Later
    <3> QED BY <1>2, <2>1, <2>2, <2>3, <3>1, Durations
  <2>4. CASE ~running
    <3>1. Later' = 0
      BY <2>1, <2>4 DEF TypeOK, Later
    <3> QED BY <1>2, <2>1, <2>4, <3>1
  <2> QED BY <2>3, <2>4
<1>4. ASSUME NEW phase \in {"poll", "read"}, NEW max \in Nat, NEW later \in Nat,
             Later' = later,
             ReceiveGoesOn(receiving, phase, max), max + later <= Later
      PROVE  LinkInv'
  <2>1. /\ thread["recv"] = "io" /\ thread' = thread /\ receiving' = phase
        /\ left' = [left EXCEPT !["recv"] = max]
    BY <1>4 DEF ReceiveGoesOn, vars
  <2>2. thread' = [thread EXCEPT !["recv"] = "io"]
    BY <2>1 DEF TypeOK
  <2>3. left["recv"] \in Nat /\ left["recv"] + Later <= ReceiveMax
    BY <2>1 DEF LinkInv, TimingOK, CallsEnd
  <2>4. Later \in Nat
    BY LaterIsTime
  <2>5. max + later <= ReceiveMax /\ max + later <= left["recv"] + Later
    <3>1. max + later <= Later /\ ReceiveMax \in Nat
      BY <1>4, Durations
    <3> QED BY <1>4, <2>3, <2>4, <3>1
  <2> QED BY <1>2, <1>4, <2>1, <2>2, <2>5
<1>5. CASE StartPoll
  <2>1. /\ receiving = "lock" /\ receiving' = "poll" /\ thread["recv"] = "io"
        /\ thread' = thread
    BY <1>5 DEF StartPoll, ReceiveGoesOn, vars
  <2>2. /\ Later' = ReadMax /\ PollTimeout + Slack + ReadMax <= Later
        /\ PollTimeout + Slack \in Nat
    BY <2>1, Durations DEF Later
  <2> QED BY <1>4, <1>5, <2>1, <2>2, Durations DEF StartPoll
<1>6. CASE PollWakes
  <2>1. /\ receiving = "poll" /\ receiving' = "read" /\ thread["recv"] = "io"
        /\ thread' = thread
    BY <1>6 DEF PollWakes, ReceiveGoesOn, vars
  <2>2. Later' = 0 /\ ReadMax + 0 <= Later
    BY <2>1, Durations DEF Later
  <2> QED BY <1>4, <1>6, <2>1, <2>2, Durations DEF PollWakes
<1>7. CASE ReceiveReturns
  <2>1. /\ thread["recv"] \in {"io", "work"} /\ receiving' = receiving
        /\ left' = [left EXCEPT !["recv"] = 0]
        /\ thread' = [thread EXCEPT !["recv"] = IF thread["recv"] = "io" THEN "work" ELSE "check"]
    BY <1>7 DEF ReceiveReturns, ThreadStep, Check, Io, Work
  <2>2. thread'["recv"] # "io"
    BY <2>1 DEF TypeOK
  <2>3. /\ left["recv"] \in Nat /\ Later \in Nat /\ Later' = 0
        /\ receiving \in {"lock", "poll", "read"}
    BY <2>2, Durations DEF LinkInv, TimingOK, Later
  <2>4. 0 + 0 <= left["recv"] + Later
    BY <2>3
  <2> QED BY <1>2, <2>1, <2>2, <2>3, <2>4
<1> QED BY <1>3, <1>5, <1>6, <1>7 DEF ReceiveThread

LEMMA TickKeepsTime ==
    ASSUME TypeOK, LinkInv, Tick
    PROVE  LinkInv'
<1> USE DEF Threads
<1>1. /\ UNCHANGED <<main, running, thread, waited, lost>>
      /\ \A t \in Threads : Alive(t) => left[t] > 0 /\ left'[t] = left[t] - 1
      /\ \A t \in Threads : ~Alive(t) => left'[t] = left[t]
      /\ heard' = IF running /\ Alive("heartbeat") THEN heard + 1 ELSE heard
      /\ asked' = IF ~running /\ \E t \in Threads : Alive(t) THEN asked + 1 ELSE asked
  BY DEF Tick, vars
<1>2. \A t \in Threads : left'[t] \in Nat
  BY <1>1 DEF LinkInv, TimingOK
<1>3. left' \in [Threads -> Nat]
  BY <1>2 DEF Tick
<1>4. TimingOK' /\ Started'
  BY <1>1, <1>3 DEF LinkInv, TimingOK, Started, Alive, Tick
<1>5. CallsEnd' /\ Prompt'
  <2>1. asked \in Nat /\ \A t \in Threads : left[t] \in Nat
    BY DEF LinkInv, TimingOK
  <2>2. CallsEnd'
    <3>1. Later' = Later /\ Later \in Nat
      BY <1>1, LaterIsTime DEF Later, Tick
    <3> QED BY <1>1, <2>1, <3>1, Durations DEF LinkInv, CallsEnd, Alive
  <2>3. Prompt'
    <3>1. Later' = Later /\ Later \in Nat
      BY <1>1, LaterIsTime DEF Later, Tick
    <3> QED BY <1>1, <2>1, <3>1, Durations DEF LinkInv, Prompt, Alive
  <2> QED BY <2>2, <2>3
<1>6. Budget'
  <2>1. Allowance' = Allowance /\ Allowance \in Nat
    BY <1>1, Gaps, Durations DEF LinkInv, TimingOK, Allowance
  <2>2. Period - waited \in Nat /\ Rest(Period - waited) \in Nat
    <3>1. Period - waited \in Nat
      BY Durations DEF LinkInv, TimingOK
    <3> QED BY <3>1, RestFalls
  <2> QED
    BY <1>1, <2>1, <2>2, Durations DEF LinkInv, TimingOK, CallsEnd, Budget, Alive
<1> QED BY <1>4, <1>5, <1>6 DEF LinkInv

LEMMA LinkInvNext == TypeOK /\ LinkInv /\ [LinkNext]_linkVars => LinkInv'
<1> SUFFICES ASSUME TypeOK, LinkInv, [LinkNext]_linkVars PROVE LinkInv'
  OBVIOUS
<1>1. CASE UNCHANGED linkVars
  BY <1>1 DEF LinkInv, TimingOK, Started, CallsEnd, Budget, Allowance, Prompt, Alive, Later,
     linkVars, vars, timing
<1> QED
  BY <1>1, MainKeepsTime, HeartbeatKeepsTime, ReceiverKeepsTime, TickKeepsTime DEF LinkNext

LEMMA TimedInvariance == LinkSpec => [](TypeOK /\ LinkInv)
<1>1. LinkSpec => []TypeOK
  BY TimedLifecycle, TypeCorrect, PTL
<1>2. LinkSpec => []LinkInv
  BY <1>1, LinkInvInit, LinkInvNext, PTL DEF LinkSpec
<1> QED BY <1>1, <1>2, PTL

-----------------------------------------------------------------------------
(* The robot hears a heartbeat at least every MaxGap, and every MaxGap more
   for each one lost, whatever the main thread does: from startup to the
   order to end (CmdVelBridge.cpp:95-100, 709-724). *)
THEOREM ReportsKeepComingHolds == LinkSpec => []ReportsKeepComing
<1>1. TypeOK /\ LinkInv => ReportsKeepComing
  <2> SUFFICES ASSUME TypeOK, LinkInv, running, Alive("heartbeat")
               PROVE  heard <= (MaxLost + 1) * MaxGap
    BY DEF ReportsKeepComing
  <2>1. /\ Period - waited \in Nat /\ Rest(Period - waited) \in Nat
    <3>1. Period - waited \in Nat
      BY Durations DEF LinkInv, TimingOK
    <3> QED BY <3>1, RestFalls
  <2>2. Allowance \in Nat /\ Allowance <= (MaxLost + 1) * MaxGap /\ (MaxLost + 1) * MaxGap \in Nat
    BY Gaps, Durations DEF LinkInv, TimingOK, Allowance
  <2>3. heard <= Allowance
    BY <2>1, <2>2, Durations DEF LinkInv, TimingOK, Budget, Alive, Threads
  <2> QED BY <2>2, <2>3 DEF LinkInv, TimingOK
<1> QED BY <1>1, TimedInvariance, PTL

(* Both threads end within their longest call of running_ being cleared, also
   for a heartbeat period of any length (CmdVelBridge.cpp:155-160, 718-722). *)
THEOREM ExitIsPromptHolds == LinkSpec => []ExitIsPrompt
<1>1. TypeOK /\ LinkInv => ExitIsPrompt
  <2> SUFFICES ASSUME TypeOK, LinkInv, ~running, NEW t \in Threads, Alive(t)
               PROVE  asked <= SendMax \/ asked <= ReceiveMax \/ asked <= PollStep + Slack
    BY DEF ExitIsPrompt
  <2>1. asked <= Longest
    BY Durations, LaterIsTime DEF LinkInv, TimingOK, Prompt, Threads
  <2> QED BY <2>1, Durations
<1> QED BY <1>1, TimedInvariance, PTL

(* What is proved of Lifecycle holds of the timed node. *)
THEOREM TimedSafety == LinkSpec => [](TypeOK /\ NoUseAfterFree /\ CleanExit)
BY TimedLifecycle, TypeCorrect, NoUseAfterFreeHolds, CleanExitHolds, PTL
=============================================================================
