--------------------------- MODULE LifecycleProofs --------------------------
(***************************************************************************)
(* Theorems about Lifecycle: whichever call of the constructor throws and  *)
(* wherever shutdown comes, the threads and the transport are taken down   *)
(* in an order that is safe.                                               *)
(***************************************************************************)
EXTENDS Lifecycle, TLAPS

-----------------------------------------------------------------------------
\* The inductive invariant.

\* A thread that runs is owned by its std::thread member, and while a member
\* owns one the transport is there.
Owned ==
    /\ \A t \in Threads : thread[t] \in {"check", "io", "work"} => t \in joinable
    /\ joinable # {} => transport = "open"
    /\ main \notin {"open", "unwind", "ended"} => transport = "open"

\* What the joins have achieved where the main thread is.
Joins ==
    /\ main \in {"destroy_join_heartbeat", "catch_join_heartbeat"} => joinable \subseteq {"heartbeat"}
    /\ main = "destroy_reset" => joinable = {}
    /\ outcome \in {"exit 0", "exit 1"} => joinable = {}

\* A drive command is the last one in spin only: what comes after it begins
\* with a stop.
StoppedOutside ==
    /\ main \notin {"spin", "destroy_stop"} => last_axis # "drive"
    /\ outcome # "none" => main = "ended"

IInv == TypeOK /\ Owned /\ Joins /\ StoppedOutside

-----------------------------------------------------------------------------
LEMMA InvInit == Init => IInv
BY DEF Init, IInv, TypeOK, Owned, Joins, StoppedOutside, Threads

LEMMA ConstructStep ==
    ASSUME IInv, Construct
    PROVE  IInv'
<1> USE DEF Goto, Throw, Threads
<1>1. CASE OpenTransport
  BY <1>1 DEF IInv, TypeOK, Owned, Joins, StoppedOutside, OpenTransport
<1>2. ASSUME NEW t \in Threads, NEW at \in {"start_recv", "start_heartbeat"},
             NEW next \in {"start_heartbeat", "startup"}, StartThread(t, at, next)
      PROVE  IInv'
  <2>1. TypeOK'
    BY <1>2 DEF IInv, TypeOK, StartThread
  <2>2. Owned' /\ Joins' /\ StoppedOutside'
    BY <1>2 DEF IInv, TypeOK, Owned, Joins, StoppedOutside, StartThread
  <2> QED BY <2>1, <2>2 DEF IInv
<1>3. CASE StartRecv \/ StartHeartbeat
  BY <1>2, <1>3 DEF StartRecv, StartHeartbeat
<1>4. CASE RunStartup
  BY <1>4 DEF IInv, TypeOK, Owned, Joins, StoppedOutside, RunStartup
<1>5. CASE Subscribe
  BY <1>5 DEF IInv, TypeOK, Owned, Joins, StoppedOutside, Subscribe
<1>6. CASE Unwind
  BY <1>6 DEF IInv, TypeOK, Owned, Joins, StoppedOutside, Unwind
<1> QED BY <1>1, <1>3, <1>4, <1>5, <1>6 DEF Construct

LEMMA DestroyStep ==
    ASSUME IInv, Destroy
    PROVE  IInv'
<1> USE DEF Goto, Threads
<1>1. CASE SpinReturns
  BY <1>1 DEF IInv, TypeOK, Owned, Joins, StoppedOutside, SpinReturns
<1>2. CASE SendStop
  BY <1>2 DEF IInv, TypeOK, Owned, Joins, StoppedOutside, SendStop
<1>3. CASE ClearRunning
  BY <1>3 DEF IInv, TypeOK, Owned, Joins, StoppedOutside, ClearRunning
<1>4. CASE JoinRecv
  BY <1>4 DEF IInv, TypeOK, Owned, Joins, StoppedOutside, JoinRecv, Joined
<1>5. CASE JoinHeartbeat
  BY <1>5 DEF IInv, TypeOK, Owned, Joins, StoppedOutside, JoinHeartbeat, Joined
<1>6. CASE ResetTransport
  BY <1>6 DEF IInv, TypeOK, Owned, Joins, StoppedOutside, ResetTransport
<1> QED BY <1>1, <1>2, <1>3, <1>4, <1>5, <1>6 DEF Destroy

LEMMA InvNext == IInv /\ [Next]_vars => IInv'
<1> SUFFICES ASSUME IInv, [Next]_vars PROVE IInv'
  OBVIOUS
<1>1. CASE Construct
  BY <1>1, ConstructStep
<1>2. CASE Destroy
  BY <1>2, DestroyStep
<1>3. CASE SpinThrows \/ \E axis \in {"drive", "stop"} : SpinSend(axis)
  BY <1>3 DEF IInv, TypeOK, Owned, Joins, StoppedOutside, SpinThrows, SpinSend, Goto
<1>4. ASSUME NEW t \in Threads, ThreadStep(t)
      PROVE  IInv'
  BY <1>4 DEF IInv, TypeOK, Owned, Joins, StoppedOutside, ThreadStep, Check, Io, Work
<1>5. CASE Sigint
  BY <1>5 DEF IInv, TypeOK, Owned, Joins, StoppedOutside, Sigint
<1>6. CASE UNCHANGED vars
  BY <1>6 DEF IInv, TypeOK, Owned, Joins, StoppedOutside, vars
<1> QED BY <1>1, <1>2, <1>3, <1>4, <1>5, <1>6 DEF Next, Ended

LEMMA Invariance == Spec => []IInv
BY InvInit, InvNext, PTL DEF Spec

-----------------------------------------------------------------------------
(* The types of the variables; a std::thread member that is joinable owns a
   thread that was started (CmdVelBridge.cpp:55-163). *)
THEOREM TypeCorrect == Spec => []TypeOK
<1>1. IInv => TypeOK
  BY DEF IInv
<1> QED BY <1>1, Invariance, PTL

(* The transport is never freed while a thread may be inside it or come back
   to it: not by the destructor, the catch block or an unwinding constructor
   (CmdVelBridge.cpp:116-125, 155-162). *)
THEOREM NoUseAfterFreeHolds == Spec => []NoUseAfterFree
<1>1. IInv => NoUseAfterFree
  BY DEF IInv, Owned, NoUseAfterFree
<1> QED BY <1>1, Invariance, PTL

(* A node that exits leaves no thread behind, and the last axis command it
   sent is not a drive (CmdVelBridge.cpp:148-163). *)
THEOREM CleanExitHolds == Spec => []CleanExit
<1>1. IInv => CleanExit
  BY DEF IInv, TypeOK, Owned, Joins, StoppedOutside, CleanExit, Threads
<1> QED BY <1>1, Invariance, PTL

-----------------------------------------------------------------------------
\* Where std::terminate comes from.

\* The second std::thread, subscribe and createTimer are called with a thread
\* running and no try block around them.
ThrowsOutsideTry == main \in {"start_heartbeat", "subscribe"} /\ main' = "unwind"

\* Without that, whoever unwinds the constructor has no thread left.
Unwinding ==
    /\ main \in {"open", "start_recv", "unwind"} => joinable = {}
    /\ outcome # "terminated"

LEMMA UnwindingNext ==
    ASSUME IInv, Unwinding, [Next]_vars, [~ThrowsOutsideTry]_vars
    PROVE  Unwinding'
<1> USE DEF Goto, Throw, Threads, IInv, TypeOK, Joins, Unwinding
<1>1. CASE OpenTransport
  BY <1>1 DEF OpenTransport
<1>2. CASE StartRecv
  BY <1>2 DEF StartRecv, StartThread
<1>3. CASE StartHeartbeat
  <2>1. main' # "unwind"
    BY <1>3 DEF StartHeartbeat, StartThread, ThrowsOutsideTry, vars
  <2> QED BY <1>3, <2>1 DEF StartHeartbeat, StartThread
<1>4. CASE RunStartup
  BY <1>4 DEF RunStartup
<1>5. CASE Subscribe
  <2>1. main' # "unwind"
    BY <1>5 DEF Subscribe, ThrowsOutsideTry, vars
  <2> QED BY <1>5, <2>1 DEF Subscribe
<1>6. CASE Unwind
  BY <1>6 DEF Unwind
<1>7. CASE Destroy
  BY <1>7 DEF Destroy, SpinReturns, SendStop, ClearRunning, JoinRecv, JoinHeartbeat, Joined,
              ResetTransport
<1>8. CASE SpinThrows \/ \E axis \in {"drive", "stop"} : SpinSend(axis)
  BY <1>8 DEF SpinThrows, SpinSend
<1>9. CASE Sigint \/ \E t \in Threads : ThreadStep(t)
  BY <1>9 DEF Sigint, ThreadStep
<1>10. CASE UNCHANGED vars
  BY <1>10 DEF vars
<1> QED BY <1>1, <1>2, <1>3, <1>4, <1>5, <1>6, <1>7, <1>8, <1>9, <1>10 DEF Next, Construct, Ended

(* What the run lifecycle_terminate refutes holds everywhere else: unless the
   second thread, subscribe or createTimer throws, every exception of the
   constructor and of spin reaches main's catch, so those calls are all that
   would have to move into the try block (CmdVelBridge.cpp:98-142). *)
THEOREM TerminatesOnlyOutsideTry ==
    Spec /\ [][~ThrowsOutsideTry]_vars => []ExceptionReachesMain
<1>1. Init => Unwinding
  BY DEF Init, Unwinding
<1>2. IInv /\ Unwinding /\ [Next]_vars /\ [~ThrowsOutsideTry]_vars => Unwinding'
  BY UnwindingNext
<1>3. Unwinding => ExceptionReachesMain
  BY DEF Unwinding, ExceptionReachesMain
<1> QED BY <1>1, <1>2, <1>3, Invariance, PTL DEF Spec
=============================================================================
