----------------------------- MODULE Lifecycle ------------------------------
(***************************************************************************)
(* From main to exit: the constructor opens the transport and starts two   *)
(* threads, the startup steps and ros::spin run on the main thread, and    *)
(* the destructor, or the constructor's catch block, stops the threads     *)
(* before the transport is freed (CmdVelBridge.cpp:55-163, main.cpp).      *)
(***************************************************************************)
EXTENDS Integers

VARIABLES
    main,       \* where the main thread is
    running,    \* running_
    thread,     \* where recv_thread_ and heartbeat_thread_ are
    joinable,   \* the std::thread members that own a thread
    transport,  \* the object behind transport_
    ok,         \* ros::ok()
    thrown,     \* an exception is on its way to main's catch
    last_axis,  \* the last axis command handed to the transport
    outcome     \* how the process ended

vars == <<main, running, thread, joinable, transport, ok, thrown, last_axis, outcome>>

Threads == {"recv", "heartbeat"}

Init ==
    /\ main = "open" /\ running = FALSE
    /\ thread = [t \in Threads |-> "none"] /\ joinable = {}
    /\ transport = "none" /\ ok = TRUE /\ thrown = FALSE
    /\ last_axis = "none" /\ outcome = "none"

Goto(l) == main' = l
Throw == thrown' = TRUE /\ Goto("unwind")

-----------------------------------------------------------------------------
\* The constructor.

\* openTransport: the socket or the DTLS handshake may fail.
OpenTransport ==
    /\ main = "open"
    /\ \/ transport' = "open" /\ Goto("start_recv") /\ UNCHANGED thrown
       \/ Throw /\ UNCHANGED transport
    /\ UNCHANGED <<running, thread, joinable, ok, last_axis, outcome>>

\* Mutant of StartThread: a thread that did not start counts as joinable.
StartThreadJoinable(t, at, next) ==
    /\ main = at
    /\ running' = TRUE
    /\ joinable' = joinable \cup {t}
    /\ \/ thread' = [thread EXCEPT ![t] = "check"] /\ Goto(next) /\ UNCHANGED thrown
       \/ Throw /\ UNCHANGED thread
    /\ UNCHANGED <<transport, ok, last_axis, outcome>>

\* std::thread's constructor may fail too: the second time outside the try.
StartThread(t, at, next) ==
    /\ main = at
    /\ running' = TRUE
    /\ \/ /\ thread' = [thread EXCEPT ![t] = "check"]
          /\ joinable' = joinable \cup {t}
          /\ Goto(next) /\ UNCHANGED thrown
       \/ Throw /\ UNCHANGED <<thread, joinable>>
    /\ UNCHANGED <<transport, ok, last_axis, outcome>>
StartRecv == StartThread("recv", "start_recv", "start_heartbeat")
StartHeartbeat == StartThread("heartbeat", "start_heartbeat", "startup")

\* The steps of module Startup, inside the try.
RunStartup ==
    /\ main = "startup"
    /\ \/ Goto("subscribe") /\ UNCHANGED thrown
       \/ Goto("catch_flag") /\ thrown' = TRUE
    /\ UNCHANGED <<running, thread, joinable, transport, ok, last_axis, outcome>>

\* subscribe rejects an invalid topic name, createTimer a period that is no
\* Duration; both come after the try.
Subscribe ==
    /\ main = "subscribe"
    /\ \/ Goto("spin") /\ UNCHANGED thrown
       \/ Throw
    /\ UNCHANGED <<running, thread, joinable, transport, ok, last_axis, outcome>>

\* An exception leaves the constructor: the members are destroyed, and a
\* std::thread that still owns a thread ends the process.
Unwind ==
    /\ main = "unwind"
    /\ IF joinable # {}
       THEN outcome' = "terminated" /\ UNCHANGED transport
       ELSE outcome' = "exit 1" /\ transport' = "freed"
    /\ Goto("ended")
    /\ UNCHANGED <<running, thread, joinable, ok, thrown, last_axis>>

-----------------------------------------------------------------------------
\* ros::spin and the destructor.

SpinSend(axis) ==
    /\ main = "spin" /\ ok
    /\ last_axis' = axis
    /\ UNCHANGED <<main, running, thread, joinable, transport, ok, thrown, outcome>>

\* spin returns at shutdown.
SpinReturns ==
    /\ main = "spin" /\ ~ok
    /\ Goto("destroy_stop")
    /\ UNCHANGED <<running, thread, joinable, transport, ok, thrown, last_axis, outcome>>

\* An exception of a callback leaves through spin and runs the destructor on
\* its way.
SpinThrows ==
    /\ main = "spin"
    /\ thrown' = TRUE
    /\ Goto("destroy_stop")
    /\ UNCHANGED <<running, thread, joinable, transport, ok, last_axis, outcome>>

\* Mutant of SendStop: the control timeout of the robot is relied on.
SendNothing ==
    /\ main = "destroy_stop"
    /\ Goto("destroy_flag")
    /\ UNCHANGED <<running, thread, joinable, transport, ok, thrown, last_axis, outcome>>

SendStop ==
    /\ main = "destroy_stop"
    /\ last_axis' = "stop"
    /\ Goto("destroy_flag")
    /\ UNCHANGED <<running, thread, joinable, transport, ok, thrown, outcome>>

\* Mutant of ClearRunning: the flag is left for later.
LeaveRunning ==
    /\ main \in {"destroy_flag", "catch_flag"}
    /\ Goto(IF main = "destroy_flag" THEN "destroy_join_recv" ELSE "catch_join_recv")
    /\ UNCHANGED <<running, thread, joinable, transport, ok, thrown, last_axis, outcome>>

\* running_ = false, in the destructor or in the catch block.
ClearRunning ==
    /\ main \in {"destroy_flag", "catch_flag"}
    /\ running' = FALSE
    /\ Goto(IF main = "destroy_flag" THEN "destroy_join_recv" ELSE "catch_join_recv")
    /\ UNCHANGED <<thread, joinable, transport, ok, thrown, last_axis, outcome>>

\* Mutant of Joined: join is not waited for.
JoinedDetached(t) == joinable' = joinable \ {t}

Joined(t) == thread[t] = "exited" /\ joinable' = joinable \ {t}

JoinRecv ==
    /\ main \in {"destroy_join_recv", "catch_join_recv"}
    /\ Joined("recv")
    /\ Goto(IF main = "destroy_join_recv" THEN "destroy_join_heartbeat" ELSE "catch_join_heartbeat")
    /\ UNCHANGED <<running, thread, transport, ok, thrown, last_axis, outcome>>

JoinHeartbeat ==
    /\ main \in {"destroy_join_heartbeat", "catch_join_heartbeat"}
    /\ Joined("heartbeat")
    /\ Goto(IF main = "destroy_join_heartbeat" THEN "destroy_reset" ELSE "unwind")
    /\ UNCHANGED <<running, thread, transport, ok, thrown, last_axis, outcome>>

\* transport_.reset(), and main returns or reaches its catch.
ResetTransport ==
    /\ main = "destroy_reset"
    /\ transport' = "freed"
    /\ outcome' = IF thrown THEN "exit 1" ELSE "exit 0"
    /\ Goto("ended")
    /\ UNCHANGED <<running, thread, joinable, ok, thrown, last_axis>>

-----------------------------------------------------------------------------
\* The two threads: look at running_, use the transport, do the rest of the
\* round.  HeartbeatLink says how long each takes.

Check(t) ==
    /\ thread[t] = "check"
    /\ thread' = [thread EXCEPT ![t] = IF running THEN "io" ELSE "exited"]
Io(t) == thread[t] = "io" /\ thread' = [thread EXCEPT ![t] = "work"]
Work(t) == thread[t] = "work" /\ thread' = [thread EXCEPT ![t] = "check"]

ThreadStep(t) ==
    /\ outcome = "none"
    /\ Check(t) \/ Io(t) \/ Work(t)
    /\ UNCHANGED <<main, running, joinable, transport, ok, thrown, last_axis, outcome>>

\* SIGINT: ros::ok() turns false, whatever the node is doing.
Sigint ==
    /\ ok /\ outcome = "none"
    /\ ok' = FALSE
    /\ UNCHANGED <<main, running, thread, joinable, transport, thrown, last_axis, outcome>>

Ended == outcome # "none" /\ UNCHANGED vars

Construct == OpenTransport \/ StartRecv \/ StartHeartbeat \/ RunStartup \/ Subscribe \/ Unwind
Destroy == SpinReturns \/ SendStop \/ ClearRunning \/ JoinRecv \/ JoinHeartbeat \/ ResetTransport

Next ==
    \/ Construct
    \/ \E axis \in {"drive", "stop"} : SpinSend(axis)
    \/ SpinThrows
    \/ Destroy
    \/ \E t \in Threads : ThreadStep(t)
    \/ Sigint
    \/ Ended

Spec == Init /\ [][Next]_vars

(* Both threads are scheduled, their calls return, and so does every startup
   step (property StartupTerminates of module Startup); ros::spin returns
   once ros::ok() is false. *)
Fairness ==
    /\ WF_vars(Construct) /\ WF_vars(Destroy)
    /\ \A t \in Threads : WF_vars(ThreadStep(t))

FairSpec == Spec /\ Fairness

-----------------------------------------------------------------------------
TypeOK ==
    /\ main \in {"open", "start_recv", "start_heartbeat", "startup", "subscribe", "spin",
                 "catch_flag", "catch_join_recv", "catch_join_heartbeat", "unwind",
                 "destroy_stop", "destroy_flag", "destroy_join_recv",
                 "destroy_join_heartbeat", "destroy_reset", "ended"}
    /\ running \in BOOLEAN /\ ok \in BOOLEAN /\ thrown \in BOOLEAN
    /\ thread \in [Threads -> {"none", "check", "io", "work", "exited"}]
    /\ joinable \subseteq Threads
    /\ \A t \in joinable : thread[t] # "none"
    /\ transport \in {"none", "open", "freed"}
    /\ last_axis \in {"none", "drive", "stop"}
    /\ outcome \in {"none", "exit 0", "exit 1", "terminated"}

(* The transport is never freed while a thread may be inside it or come back
   to it, on the destructor's path and on the catch block's
   (CmdVelBridge.cpp:116-125, 155-162). *)
NoUseAfterFree ==
    \A t \in Threads : thread[t] \in {"check", "io", "work"} => transport = "open"

(* A node that exits leaves no thread behind, and the last axis command it
   sent is not a drive (CmdVelBridge.cpp:148-163). *)
CleanExit ==
    outcome \in {"exit 0", "exit 1"} =>
        /\ joinable = {} /\ \A t \in Threads : thread[t] \in {"none", "exited"}
        /\ last_axis # "drive"

(* No join waits for a thread that is not going to end: once shutdown or an
   exception asks for it, the process ends (CmdVelBridge.cpp:116-125, 148-163).*)
EndsWhenAsked == (~ok \/ thrown) ~> outcome # "none"

(* An exception of the constructor reaches main's catch: threads that are
   already running are stopped first, for else "the destructor of std::thread
   calls std::terminate on a joinable thread and the catch in main never gets
   its turn" (CmdVelBridge.cpp:102-104, main.cpp:20-23). *)
ExceptionReachesMain == outcome # "terminated"
=============================================================================
