--------------------------- MODULE HeartbeatLink ----------------------------
(***************************************************************************)
(* The lifecycle in time: the robot reports only to an address it hears    *)
(* heartbeats from, so they must not pause while the main thread is busy   *)
(* with startup, and both threads must still end soon after they are asked *)
(* to (CmdVelBridge.cpp:175-184, 709-724, CmdVelBridge.h:138-142).         *)
(*                                                                         *)
(* The steps of Lifecycle keep their meaning; the threads are given the    *)
(* durations of their calls.  Computing takes no time.                     *)
(***************************************************************************)
EXTENDS Lifecycle

CONSTANTS
    Period,         \* period_sec: 1/heartbeat_rate_hz_, or 1 s for a rate of 0
    PollStep,       \* kPollStep
    Slack,          \* by how much a sleep may be too long
    SendMax,        \* the longest a send waits for ssl_mutex_ and the socket
    LockMax,        \* the longest receive() waits for ssl_mutex_ before it polls
    PollTimeout,    \* the 0.2 receiveLoop passes to receive()
    ReadMax,        \* the longest receive() takes after poll: ssl_mutex_, then the read
    MaxLost         \* the most heartbeats the network loses in a row

ASSUME DurationAssumption ==
    /\ Period \in Nat \ {0} /\ PollStep \in Nat \ {0}
    /\ {Slack, SendMax, LockMax, PollTimeout, ReadMax, MaxLost} \subseteq Nat

VARIABLES
    left,       \* at most how much longer each thread stays in its call or wait
    receiving,  \* what receive() is at: "lock", then "poll", then "read"
    waited,     \* waited
    heard,      \* time since the robot heard a heartbeat, or since the thread began
    lost,       \* heartbeats lost since then
    asked       \* time since running_ was cleared

timing == <<left, receiving, waited, heard, lost, asked>>
linkVars == <<vars, timing>>

Alive(t) == thread[t] \in {"check", "io", "work"}
Less(a, b) == IF a < b THEN a ELSE b

LinkInit ==
    /\ Init
    /\ left = [t \in Threads |-> 0] /\ receiving = "lock"
    /\ waited = 0 /\ heard = 0 /\ lost = 0 /\ asked = 0

\* The main thread: its calls take any time.
MainStep ==
    /\ \/ Construct
       \/ \E axis \in {"drive", "stop"} : SpinSend(axis)
       \/ SpinThrows
       \/ Destroy
       \/ Sigint
       \/ Ended
    /\ UNCHANGED timing

\* while (running_.load()), in either thread.
LoopHead(t) ==
    /\ thread[t] = "check" /\ ThreadStep(t)
    /\ left' = [left EXCEPT ![t] = IF ~running THEN 0
                                   ELSE IF t = "recv" THEN LockMax ELSE SendMax]
    /\ receiving' = IF t = "recv" THEN "lock" ELSE receiving
    /\ UNCHANGED <<waited, heard, lost, asked>>

\* receive() goes on from one of its waits to the next, of max at most.
ReceiveGoesOn(from, to, max) ==
    /\ thread["recv"] = "io" /\ outcome = "none"
    /\ receiving = from /\ receiving' = to
    /\ left' = [left EXCEPT !["recv"] = max]
    /\ UNCHANGED <<vars, waited, heard, lost, asked>>

\* Nothing is pending in the SSL object, or there is none: waitReadable.
StartPoll == ReceiveGoesOn("lock", "poll", PollTimeout + Slack)

\* poll reports the socket readable.  The read waits for ssl_mutex_, and on
\* the socket once for each record without data and once more.
PollWakes == ReceiveGoesOn("poll", "read", ReadMax)

\* receive() returns - with what was pending, with nothing when poll has timed
\* out, or with what was read - and what it brought is handled.
ReceiveReturns ==
    /\ thread["recv"] \in {"io", "work"} /\ ThreadStep("recv")
    /\ left' = [left EXCEPT !["recv"] = 0]
    /\ UNCHANGED <<receiving, waited, heard, lost, asked>>

\* Mutant of SendHeartbeat: from a ros::Timer, which fires only inside spin.
SendHeartbeatFromSpin(arrives) ==
    /\ thread["heartbeat"] = "io" /\ ThreadStep("heartbeat")
    /\ left' = [left EXCEPT !["heartbeat"] = 0]
    /\ waited' = 0 /\ UNCHANGED receiving
    /\ IF main # "spin" THEN UNCHANGED <<heard, lost>>
       ELSE IF arrives THEN heard' = 0 /\ lost' = 0
       ELSE lost < MaxLost /\ lost' = lost + 1 /\ UNCHANGED heard
    /\ UNCHANGED asked

\* The heartbeat of one round; the network may lose it.
SendHeartbeat(arrives) ==
    /\ thread["heartbeat"] = "io" /\ ThreadStep("heartbeat")
    /\ left' = [left EXCEPT !["heartbeat"] = 0]
    /\ waited' = 0 /\ UNCHANGED receiving
    /\ IF arrives THEN heard' = 0 /\ lost' = 0
       ELSE lost < MaxLost /\ lost' = lost + 1 /\ UNCHANGED heard
    /\ UNCHANGED asked

\* Mutant of Doze: the whole period in one sleep.
DozeWhole ==
    /\ thread["heartbeat"] = "work" /\ left["heartbeat"] = 0 /\ outcome = "none"
    /\ running /\ waited < Period
    /\ left' = [left EXCEPT !["heartbeat"] = Period + Slack]
    /\ waited' = Period
    /\ UNCHANGED <<vars, receiving, heard, lost, asked>>

\* One turn of the inner loop: a short sleep.
Doze ==
    /\ thread["heartbeat"] = "work" /\ left["heartbeat"] = 0 /\ outcome = "none"
    /\ running /\ waited < Period
    /\ LET step == Less(PollStep, Period - waited)
       IN  left' = [left EXCEPT !["heartbeat"] = step + Slack] /\ waited' = waited + step
    /\ UNCHANGED <<vars, receiving, heard, lost, asked>>

\* A sleep that is not too long.
Wake ==
    /\ thread["heartbeat"] = "work" /\ left["heartbeat"] \in 1 .. Slack /\ outcome = "none"
    /\ left' = [left EXCEPT !["heartbeat"] = 0]
    /\ UNCHANGED <<vars, receiving, waited, heard, lost, asked>>

\* The inner loop ends.
DozeEnds ==
    /\ thread["heartbeat"] = "work" /\ left["heartbeat"] = 0
    /\ ~running \/ waited >= Period
    /\ ThreadStep("heartbeat")
    /\ UNCHANGED timing

Tick ==
    /\ outcome = "none"
    /\ \A t \in Threads : Alive(t) => left[t] > 0
    /\ left' = [t \in Threads |-> IF Alive(t) THEN left[t] - 1 ELSE left[t]]
    /\ heard' = IF running /\ Alive("heartbeat") THEN heard + 1 ELSE heard
    /\ asked' = IF ~running /\ \E t \in Threads : Alive(t) THEN asked + 1 ELSE asked
    /\ UNCHANGED <<vars, receiving, waited, lost>>

HeartbeatThread ==
    \/ LoopHead("heartbeat")
    \/ \E arrives \in BOOLEAN : SendHeartbeat(arrives)
    \/ Doze \/ Wake \/ DozeEnds
ReceiveThread == LoopHead("recv") \/ StartPoll \/ PollWakes \/ ReceiveReturns

LinkNext == MainStep \/ HeartbeatThread \/ ReceiveThread \/ Tick

LinkSpec == LinkInit /\ [][LinkNext]_linkVars

(* As in Lifecycle, with time that passes. *)
LinkFairness ==
    /\ WF_linkVars(Construct /\ UNCHANGED timing) /\ WF_linkVars(Destroy /\ UNCHANGED timing)
    /\ WF_linkVars(HeartbeatThread) /\ WF_linkVars(ReceiveThread)
    /\ WF_linkVars(Tick)

LinkFairSpec == LinkSpec /\ LinkFairness

-----------------------------------------------------------------------------
\* From the start of one heartbeat's send to that of the next one.
Polls == (Period + PollStep - 1) \div PollStep
MaxGap == SendMax + Period + Polls * Slack

\* The longest call of receive(): its timeout is that of poll alone.
ReceiveMax == LockMax + PollTimeout + Slack + ReadMax

(* The robot goes on reporting: whatever the main thread does - startup with
   its waits, spin, a callback that takes long - the robot hears a heartbeat
   at least every MaxGap from the start of the thread until the node is told
   to end, and every MaxGap more for each one the network loses
   (CmdVelBridge.cpp:95-100, 709-724, CmdVelBridge.h:138-142). *)
ReportsKeepComing ==
    running /\ Alive("heartbeat") => heard <= (MaxLost + 1) * MaxGap

(* Both threads end soon after running_ is cleared, however long the heartbeat
   period is: the joins of the destructor wait for what one call of send or
   receive, or one short sleep, can take (CmdVelBridge.cpp:155-160, 177-178,
   711, 718-722, UdpTransport.cpp:255-301). *)
ExitIsPrompt ==
    (\E t \in Threads : Alive(t)) /\ ~running =>
        \/ asked <= SendMax \/ asked <= ReceiveMax \/ asked <= PollStep + Slack
=============================================================================
