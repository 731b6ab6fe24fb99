--------------------------- MODULE StartupProofs ----------------------------
(***************************************************************************)
(* Theorems about Startup: how long the settling times must be for every   *)
(* readback to be younger than its request, and for a startup without lost *)
(* requests to leave the robot as the gate wants it.                       *)
(***************************************************************************)
EXTENDS Startup, SequenceTheorems, TLAPS

\* The hypotheses of the two theorems: the node settles for longer than the
\* network takes, and standing up and its readback last as long as the robot
\* needs.
Settled == ModeSettle > MaxDelay /\ StandSettle > MaxDelay
Patient ==
    /\ ModeSettle > MaxDelay /\ StandSettle > 2 * MaxDelay
    /\ StandSettle + StatusWait >= MaxDelay + RiseTime

SettleOf(t) == IF t = "stand" THEN StandSettle ELSE ModeSettle

Tasks == {"mode", "stand", "gait"}
Status == [valid : BOOLEAN, body : Body \cup {<<>>}, as_of : Nat, age : Nat]
Request == [kind : Tasks, age : 0 .. MaxDelay]

\* The reports the node may yet store.
Coming == reports \cup {recv}

-----------------------------------------------------------------------------
\* The inductive invariant, without hypotheses.

Shapes ==
    /\ reports \subseteq Status /\ {recv, last_basic_status} \subseteq Status
    /\ requests \in Seq(Request)
    /\ \A r \in reports : r.valid

\* Which phases a step has, and how many requests the steps so far can have sent.
Places ==
    /\ task \in {"stand", "gait"} => phase \in {"request", "settle", "readback"}
    /\ task = "final" => phase = "readback"
    /\ task = "mode" => sent \in 0 .. 1
    /\ task = "stand" => sent \in 0 .. 2
    /\ phase = "check" => sent = 0 /\ ~confirmed
    /\ phase = "request" /\ task = "mode" => sent = 0
    /\ phase = "request" /\ task = "stand" => sent \in 0 .. 1
    /\ phase = "request" /\ task = "gait" => sent \in 0 .. 2

BasicInv == TypeOK /\ Shapes /\ Places

\* With settling times that outlast the network, what is older than the request
\* has arrived or is lost when the node begins to read back.
Younger ==
    /\ phase = "settle" =>
          \A r \in Coming : r.valid => r.as_of = sent \/ r.age + left >= SettleOf(task)
    /\ phase = "readback" =>
          /\ \A r \in Coming : r.valid => r.as_of = sent
          /\ waiting /\ last_basic_status.valid => last_basic_status.as_of = sent

-----------------------------------------------------------------------------
\* What the invariant of a startup without lost requests adds.

\* One request is on its way at a time, and only while the node settles.
OneRequest ==
    /\ phase # "settle" => requests = <<>>
    /\ phase = "settle" /\ requests # <<>> =>
          /\ Len(requests) = 1 /\ requests[1].kind = task
          /\ requests[1].age + left = SettleOf(task)

\* The request of task t has reached the robot.
Heard(t) == task = t /\ (phase = "readback" \/ (phase = "settle" /\ requests = <<>>))

ModeTold ==
    /\ sent = 0 => \A s \in Coming \cup {last_basic_status} :
                      s.valid => s.body.control_usage_mode = robot.control_usage_mode
    /\ SetMode /\ ~lost /\ (task # "mode" \/ Heard("mode")) =>
          robot.control_usage_mode = UsageMode

InRL(body) == body.motion_state = RLControl

\* While the robot is asked to stand: when it will have risen, that a report of
\* RL control from before it heard the request does not last, and so that what
\* the readback sees is true.
RisesInTime ==
    Heard("stand") /\ ~lost =>
        /\ robot.motion_state \in {Standing, RLControl}
        /\ rising > 0 => rising + StandSettle + (IF phase = "readback" THEN StatusWait ELSE 0)
                            <= MaxDelay + RiseTime + left
OldRLPasses ==
    task = "stand" /\ phase = "settle" =>
        \A r \in Coming : r.valid =>
            \/ r.age + left + MaxDelay >= StandSettle
            \/ requests = <<>> /\ (InRL(r.body) => InRL(robot))
RLIsTrue ==
    task = "stand" /\ phase = "readback" =>
        /\ \A r \in Coming : r.valid => (InRL(r.body) => InRL(robot))
        /\ waiting /\ last_basic_status.valid => (InRL(last_basic_status.body) => InRL(robot))

Rising == RisesInTime /\ OldRLPasses /\ RLIsTrue

\* Once the stand is over the robot is up, and takes the gait.
Risen ==
    AutoStand /\ ~lost /\ ok =>
        /\ task \in {"gait", "final", "done"} => InRL(robot)
        /\ GaitOnStart >= 0 /\ (Heard("gait") \/ task \in {"final", "done"}) => robot.gait = GaitOnStart

ReadyInv == BasicInv /\ OneRequest /\ ModeTold /\ Rising /\ Risen

-----------------------------------------------------------------------------
\* The order of the steps.

LEMMA OrderIs ==
    /\ Len(Order) = 5
    /\ Order[1] = "mode" /\ Order[2] = "stand" /\ Order[3] = "gait"
    /\ Order[4] = "final" /\ Order[5] = "done"
BY DEF Order

\* The next step is the first one after it that is switched on.
LEMMA AfterIsNextEnabled ==
    ASSUME NEW n \in 1 .. 5, NEW k \in 1 .. 5, n < k, Enabled(Order[k]),
           \A i \in 1 .. 5 : n < i /\ i < k => ~Enabled(Order[i])
    PROVE  After(Order[n]) = Order[k]
<1> DEFINE at == CHOOSE i \in 1 .. Len(Order) : Order[i] = Order[n]
           IsNext(j) == Enabled(Order[j]) /\ \A i \in n + 1 .. j - 1 : ~Enabled(Order[i])
<1>1. \A i \in 1 .. 5 : Order[i] = Order[n] => i = n
  <2> SUFFICES ASSUME NEW i \in 1 .. 5, Order[i] = Order[n] PROVE i = n
    OBVIOUS
  <2>1. (i = 1 \/ i = 2 \/ i = 3 \/ i = 4 \/ i = 5) /\ (n = 1 \/ n = 2 \/ n = 3 \/ n = 4 \/ n = 5)
    OBVIOUS
  <2> QED BY <2>1, OrderIs
<1>2. at = n
  <2>1. n \in 1 .. Len(Order)
    BY OrderIs
  <2>2. at \in 1 .. Len(Order) /\ Order[at] = Order[n]
    BY <2>1
  <2> QED BY <1>1, <2>2, OrderIs
<1>3. \A j \in n + 1 .. 5 : IsNext(j) => j = k
  OBVIOUS
<1>4. (CHOOSE j \in n + 1 .. 5 : IsNext(j)) = k
  <2>1. k \in n + 1 .. 5 /\ IsNext(k)
    OBVIOUS
  <2> HIDE DEF IsNext
  <2> QED BY <1>3, <2>1
<1> QED BY <1>2, <1>4, OrderIs DEF After

LEMMA AfterIs ==
    /\ After("mode") = IF AutoStand THEN "stand"
                       ELSE IF GaitOnStart >= 0 THEN "gait" ELSE "final"
    /\ After("stand") = IF GaitOnStart >= 0 THEN "gait" ELSE "final"
    /\ After("gait") = "final" /\ After("final") = "done"
<1> DEFINE Off(n, k) == \A i \in 1 .. 5 : n < i /\ i < k => ~Enabled(Order[i])
<1>1. /\ Enabled(Order[2]) <=> AutoStand
      /\ Enabled(Order[3]) <=> GaitOnStart >= 0
      /\ Enabled(Order[4]) /\ Enabled(Order[5])
  BY OrderIs DEF Enabled
<1>2. Off(1, 2) /\ Off(2, 3) /\ Off(3, 4) /\ Off(4, 5)
  OBVIOUS
<1>3. ~AutoStand => Off(1, 3)
  BY <1>1
<1>4. ~(GaitOnStart >= 0) => Off(2, 4)
  BY <1>1
<1>5. ~AutoStand /\ ~(GaitOnStart >= 0) => Off(1, 4)
  BY <1>1
<1>6. \A n, k \in 1 .. 5 : n < k /\ Enabled(Order[k]) /\ Off(n, k) => After(Order[n]) = Order[k]
  BY AfterIsNextEnabled
<1> HIDE DEF Off
<1>7. AutoStand => After(Order[1]) = Order[2]
  BY <1>1, <1>2, <1>6
<1>8. ~AutoStand /\ GaitOnStart >= 0 => After(Order[1]) = Order[3]
  BY <1>1, <1>3, <1>6
<1>9. ~AutoStand /\ ~(GaitOnStart >= 0) => After(Order[1]) = Order[4]
  BY <1>1, <1>5, <1>6
<1>10. GaitOnStart >= 0 => After(Order[2]) = Order[3]
  BY <1>1, <1>2, <1>6
<1>11. ~(GaitOnStart >= 0) => After(Order[2]) = Order[4]
  BY <1>1, <1>4, <1>6
<1>12. After(Order[3]) = Order[4] /\ After(Order[4]) = Order[5]
  BY <1>1, <1>2, <1>6
<1> QED BY <1>7, <1>8, <1>9, <1>10, <1>11, <1>12, OrderIs

\* Where a step that is over leads to.
LEMMA Successor ==
    ASSUME task \in {"mode", "stand", "gait", "final"}, Proceed(After(task))
    PROVE  /\ waiting' = FALSE /\ left' = 0
           /\ task = "mode" => task' \in {"stand", "gait", "final"}
           /\ task = "mode" /\ AutoStand => task' = "stand"
           /\ task = "stand" => task' \in {"gait", "final"}
           /\ task = "stand" /\ GaitOnStart >= 0 => task' = "gait"
           /\ task = "gait" => task' = "final"
           /\ task = "final" => task' = "done"
           /\ phase' = IF task' \in {"stand", "gait"} THEN "request"
                       ELSE IF task' = "final" THEN "readback" ELSE "done"
BY AfterIs DEF Proceed, FirstPhase

\* The first step is the first one that is switched on.
LEMMA FirstTask ==
    ASSUME Init
    PROVE  /\ SetMode => task = "mode" /\ phase = "check"
           /\ ~SetMode => task \in {"stand", "gait", "final"} /\ (AutoStand => task = "stand")
           /\ ~SetMode => phase = IF task = "final" THEN "readback" ELSE "request"
BY AfterIs DEF Init, FirstPhase

-----------------------------------------------------------------------------
\* The invariant without hypotheses.

LEMMA BasicInit == Init => BasicInv
<1> SUFFICES ASSUME Init PROVE BasicInv
  OBVIOUS
<1>1. task \in {"mode", "stand", "gait", "final"}
      /\ phase = IF task = "mode" THEN "check" ELSE IF task = "final" THEN "readback" ELSE "request"
  BY FirstTask, FlagAssumption
<1>2. robot \in Body /\ robot.motion_state # Standing
  BY DEF Init, Body, Lying, Standing, RLControl
<1>3. TypeOK
  <2>1. \A s \in reports \cup {recv, last_basic_status} : ~s.valid
    BY DEF Init, NoStatus
  <2>2. rising \in 0 .. RiseTime /\ left \in Nat /\ sent = 0 /\ Len(requests) <= sent
    BY TimeAssumption DEF Init
  <2>3. ~waiting /\ {confirmed, ok, lost, waiting} \subseteq BOOLEAN
    BY DEF Init
  <2> QED BY <1>1, <1>2, <2>1, <2>2, <2>3 DEF Init, TypeOK
<1>4. Shapes
  BY DEF Init, Shapes, NoStatus, Status
<1>5. Places
  BY <1>1 DEF Init, Places
<1> QED BY <1>3, <1>4, <1>5 DEF BasicInv

\* A step of the main thread between two places, at none of which it waits.
LEMMA MovedOn ==
    ASSUME TypeOK,
           UNCHANGED <<ok, last_basic_status, recv, reports, requests, robot, rising, sent, lost>>,
           task' \in {"mode", "stand", "gait", "final", "done"},
           phase' \in {"check", "request", "settle", "readback", "done"},
           phase' = "done" <=> task' = "done",
           waiting' = FALSE, confirmed' \in BOOLEAN, left' \in Nat
    PROVE  TypeOK'
<1>1. {confirmed', ok', lost', waiting'} \subseteq BOOLEAN
  BY DEF TypeOK
<1>2. \A s \in (reports \cup {recv, last_basic_status})' :
         s.valid => s.body \in Body /\ s.as_of <= sent' /\ s.age <= MaxDelay
  BY DEF TypeOK
<1>3. /\ robot' \in Body /\ rising' \in 0 .. RiseTime
      /\ (robot'.motion_state = Standing) <=> rising' > 0
      /\ sent' \in 0 .. 3 /\ Len(requests') <= sent'
  BY DEF TypeOK
<1> QED BY <1>1, <1>2, <1>3 DEF TypeOK

LEMMA PlacesAfter ==
    ASSUME TypeOK, Places, task \in {"mode", "stand", "gait", "final"},
           Proceed(After(task)), sent' = sent
    PROVE  Places'
<1>1. /\ task = "mode" => sent \in 0 .. 1
      /\ task = "stand" => sent \in 0 .. 2
      /\ sent \in 0 .. 3
  BY DEF TypeOK, Places
<1>2. CASE task = "mode"
  BY <1>1, <1>2, Successor DEF Places
<1>3. CASE task = "stand"
  BY <1>1, <1>3, Successor DEF Places
<1>4. CASE task \in {"gait", "final"}
  BY <1>1, <1>4, Successor DEF Places
<1> QED BY <1>2, <1>3, <1>4

LEMMA BasicMain ==
    ASSUME BasicInv, MainStep
    PROVE  BasicInv'
<1> USE DEF BasicInv, recv_vars, robot_vars
<1>1. ASSUME NEW arrives \in BOOLEAN, SendRequest(arrives)
      PROVE  BasicInv'
  <2>1. task \in Tasks
    BY <1>1 DEF SendRequest, TypeOK, Places, Tasks
  <2>2. [kind |-> task, age |-> 0] \in Request
    BY <2>1, TimeAssumption DEF Request
  <2>3. requests' \in Seq(Request) /\ Len(requests') <= sent'
    BY <1>1, <2>2 DEF SendRequest, TypeOK, Shapes
  <2>4. TypeOK'
    <3>1. left' \in Nat
      BY <1>1, TimeAssumption DEF SendRequest
    <3>2. sent' \in 0 .. 3 /\ sent' = sent + 1
      BY <1>1, <2>1 DEF SendRequest, TypeOK, Places, Tasks
    <3>3. \A s \in (reports \cup {recv, last_basic_status})' :
             s.valid => s.body \in Body /\ s.as_of <= sent' /\ s.age <= MaxDelay
      <4> SUFFICES ASSUME NEW s \in reports \cup {recv, last_basic_status}, s.valid
                   PROVE  s.body \in Body /\ s.as_of <= sent + 1 /\ s.age <= MaxDelay
        BY <1>1, <3>2 DEF SendRequest
      <4>1. s \in Status /\ s.body \in Body /\ s.as_of <= sent /\ s.age <= MaxDelay
        BY DEF TypeOK, Shapes
      <4> QED BY <4>1 DEF Status, TypeOK
    <3> QED BY <1>1, <2>1, <2>3, <3>1, <3>2, <3>3 DEF SendRequest, TypeOK, Tasks
  <2>5. Shapes'
    BY <1>1, <2>3 DEF SendRequest, Shapes
  <2>6. Places'
    BY <1>1, <2>1 DEF SendRequest, TypeOK, Places, Tasks
  <2> QED BY <2>4, <2>5, <2>6
<1>2. CASE EndSettle
  BY <1>2, TimeAssumption DEF EndSettle, TypeOK, Shapes, Places
<1>3. CASE BeginWait
  <2>1. last_basic_status' \in Status /\ ~last_basic_status'.valid
    BY <1>3 DEF BeginWait, Shapes, Status
  <2>2. TypeOK'
    BY <1>3, <2>1, TimeAssumption DEF BeginWait, TypeOK
  <2>3. Shapes' /\ Places'
    BY <1>3, <2>1 DEF BeginWait, TypeOK, Shapes, Places
  <2> QED BY <2>2, <2>3
<1>4. CASE ReadFresh
  <2>1. phase \in {"check", "readback"} /\ task \in {"mode", "stand", "gait", "final"}
    BY <1>4 DEF ReadFresh, TypeOK
  <2>2. Shapes'
    BY <1>4 DEF ReadFresh, Shapes
  <2>3. CASE UNCHANGED <<task, confirmed>> /\ waiting' = FALSE
             /\ \/ task = "mode" /\ phase = "check" /\ phase' = "request" /\ left' = 0
                \/ task = "stand" /\ UNCHANGED <<phase, left>>
    <3>1. TypeOK'
      <4>1. UNCHANGED <<ok, last_basic_status, recv, reports, requests, robot, rising, sent, lost>>
        BY <1>4 DEF ReadFresh
      <4>2. confirmed' \in BOOLEAN /\ waiting' = FALSE /\ left' \in Nat
        BY <2>3, <4>1 DEF TypeOK
      <4>3. task' \in {"mode", "stand", "gait", "final", "done"}
            /\ phase' \in {"check", "request", "settle", "readback", "done"}
            /\ (phase' = "done" <=> task' = "done")
        BY <2>3, <4>1 DEF TypeOK
      <4>4. TypeOK
        OBVIOUS
      <4> QED BY ONLY <4>1, <4>2, <4>3, <4>4, MovedOn
    <3>2. Places'
      BY <1>4, <2>3 DEF ReadFresh, TypeOK, Places
    <3> QED BY <2>2, <3>1, <3>2
  <2>4. CASE Proceed(After(task)) /\ confirmed' = (confirmed \/ task = "stand")
    <3>1. /\ task' \in {"stand", "gait", "final", "done"} /\ waiting' = FALSE /\ left' = 0
          /\ phase' \in {"request", "readback", "done"} /\ (phase' = "done" <=> task' = "done")
          /\ confirmed' \in BOOLEAN
      BY <2>1, <2>4, Successor DEF TypeOK, Proceed
    <3>2. TypeOK'
      <4>1. UNCHANGED <<ok, last_basic_status, recv, reports, requests, robot, rising, sent, lost>>
        BY <1>4 DEF ReadFresh
      <4>2. confirmed' \in BOOLEAN /\ left' \in Nat
        BY <3>1, <4>1 DEF TypeOK
      <4>4. TypeOK
        OBVIOUS
      <4> QED BY ONLY <3>1, <4>1, <4>2, <4>4, MovedOn
    <3>3. Places'
      BY <1>4, <2>1, <2>4, PlacesAfter DEF ReadFresh
    <3> QED BY <2>2, <3>2, <3>3
  <2> QED BY <1>4, <2>3, <2>4 DEF ReadFresh
<1>5. CASE GiveUp
  <2>1. phase \in {"check", "readback"} /\ task \in {"mode", "stand", "gait", "final"}
    BY <1>5 DEF GiveUp, TypeOK
  <2>2. Shapes'
    BY <1>5 DEF GiveUp, Shapes
  <2>3. CASE phase = "check"
    <3>1. TypeOK'
      <4>1. UNCHANGED <<task, confirmed, ok, last_basic_status, recv, reports, requests, robot, rising, sent, lost>>
            /\ phase' = "request" /\ waiting' = FALSE /\ left' = 0
        BY <1>5, <2>3 DEF GiveUp
      <4>2. confirmed' \in BOOLEAN /\ waiting' = FALSE /\ left' \in Nat
        BY <2>3, <4>1 DEF TypeOK
      <4>3. task' \in {"mode", "stand", "gait", "final", "done"}
            /\ phase' \in {"check", "request", "settle", "readback", "done"}
            /\ (phase' = "done" <=> task' = "done")
        BY <2>3, <4>1 DEF TypeOK
      <4>4. TypeOK
        OBVIOUS
      <4> QED BY ONLY <4>1, <4>2, <4>3, <4>4, MovedOn
    <3>2. Places'
      BY <1>5, <2>3 DEF GiveUp, TypeOK, Places
    <3> QED BY <2>2, <3>1, <3>2
  <2>4. CASE phase # "check"
    <3>1. /\ task' \in {"stand", "gait", "final", "done"} /\ waiting' = FALSE /\ left' = 0
          /\ phase' \in {"request", "readback", "done"} /\ (phase' = "done" <=> task' = "done")
      BY <1>5, <2>1, <2>4, Successor DEF GiveUp, Proceed
    <3>2. TypeOK'
      <4>1. UNCHANGED <<confirmed, ok, last_basic_status, recv, reports, requests, robot, rising, sent, lost>>
        BY <1>5 DEF GiveUp
      <4>2. confirmed' \in BOOLEAN /\ left' \in Nat
        BY <3>1, <4>1 DEF TypeOK
      <4>4. TypeOK
        OBVIOUS
      <4> QED BY ONLY <3>1, <4>1, <4>2, <4>4, MovedOn
    <3>3. Places'
      BY <1>5, <2>1, <2>4, PlacesAfter DEF GiveUp
    <3> QED BY <2>2, <3>2, <3>3
  <2> QED BY <2>3, <2>4
<1> QED BY <1>1, <1>2, <1>3, <1>4, <1>5 DEF MainStep

LEMMA BasicNext == BasicInv /\ [Next]_vars => BasicInv'
<1> SUFFICES ASSUME BasicInv, [Next]_vars PROVE BasicInv'
  OBVIOUS
<1> USE DEF BasicInv, main_vars, recv_vars, robot_vars
<1>1. CASE MainStep
  BY <1>1, BasicMain
<1>2. CASE Sigint
  BY <1>2 DEF Sigint, TypeOK, Shapes, Places
<1>3. ASSUME NEW r \in reports, ReceiveReport(r)
      PROVE  BasicInv'
  BY <1>3 DEF ReceiveReport, TypeOK, Shapes, Places
<1>4. CASE StoreReport
  <2>1. last_basic_status' \in Status /\ last_basic_status'.age = 0
        /\ last_basic_status'.valid = recv.valid
        /\ last_basic_status'.body = recv.body /\ last_basic_status'.as_of = recv.as_of
    BY <1>4 DEF StoreReport, Shapes, Status
  <2>2. recv' \in Status /\ ~recv'.valid
    BY <1>4 DEF StoreReport, NoStatus, Status
  <2>3. \A s \in (reports \cup {recv, last_basic_status})' :
           s.valid => s.body \in Body /\ s.as_of <= sent /\ s.age <= MaxDelay
    <3>1. reports' = reports /\ sent' = sent /\ recv.valid
      BY <1>4 DEF StoreReport
    <3>2. recv.body \in Body /\ recv.as_of <= sent /\ MaxDelay \in Nat
      BY <3>1, TimeAssumption DEF TypeOK
    <3> QED BY <2>1, <2>2, <3>1, <3>2 DEF TypeOK
  <2>4. TypeOK'
    BY <1>4, <2>3 DEF StoreReport, TypeOK
  <2>5. Shapes' /\ Places'
    BY <1>4, <2>1, <2>2 DEF StoreReport, Shapes, Places
  <2> QED BY <2>4, <2>5
<1>5. CASE EmitReport
  <2> DEFINE r == [valid |-> TRUE, body |-> robot, as_of |-> sent, age |-> 0]
  <2>1. r \in Status /\ r.body \in Body /\ r.as_of = sent /\ r.age = 0 /\ r.valid
    BY DEF TypeOK, Status
  <2>2. reports' = reports \cup {r}
    BY <1>5 DEF EmitReport
  <2> HIDE DEF r
  <2>3. TypeOK'
    BY <1>5, <2>1, <2>2, TimeAssumption DEF EmitReport, TypeOK
  <2>4. Shapes' /\ Places'
    BY <1>5, <2>1, <2>2 DEF EmitReport, Shapes, Places
  <2> QED BY <2>3, <2>4
<1>6. ASSUME NEW r \in reports, DropReport(r)
      PROVE  BasicInv'
  BY <1>6 DEF DropReport, TypeOK, Shapes, Places
<1>7. CASE DeliverRequest
  <2>1. Head(requests) \in Request /\ requests' \in Seq(Request) /\ Len(requests') <= Len(requests)
    BY <1>7 DEF DeliverRequest, Shapes
  <2>2. Head(requests).kind \in Tasks
    BY <2>1 DEF Request
  <2>3. robot' \in Body /\ rising' \in 0 .. RiseTime
        /\ (robot'.motion_state = Standing <=> rising' > 0)
    <3>1. CASE Head(requests).kind = "mode"
      BY <1>7, <3>1, SettingAssumption DEF DeliverRequest, Obey, TypeOK, Body
    <3>2. CASE Head(requests).kind = "stand"
      <4>1. robot' = [robot EXCEPT !.motion_state = Standing, !.gait = DefaultGait]
            /\ rising' = RiseTime
        BY <1>7, <3>2 DEF DeliverRequest, Obey
      <4>2. robot' \in Body /\ robot'.motion_state = Standing
        BY <4>1 DEF TypeOK, Body
      <4> QED BY <4>1, <4>2, TimeAssumption
    <3>3. CASE Head(requests).kind = "gait"
      BY <1>7, <3>3 DEF DeliverRequest, Obey, TypeOK, Body
    <3> QED BY <2>2, <3>1, <3>2, <3>3 DEF Tasks
  <2>4. TypeOK'
    BY <1>7, <2>1, <2>3 DEF DeliverRequest, TypeOK, Shapes
  <2>5. Shapes' /\ Places'
    BY <1>7, <2>1 DEF DeliverRequest, Shapes, Places
  <2> QED BY <2>4, <2>5
<1>8. CASE Tick
  <2>1. \A r \in reports \cup {recv} : r \in Status /\ r.age < MaxDelay
    BY <1>8 DEF Tick, Shapes
  <2>2. ASSUME NEW r \in Status, r.age < MaxDelay,
               r.valid => r.body \in Body /\ r.as_of <= sent
        PROVE  /\ [r EXCEPT !.age = @ + 1] \in Status
               /\ [r EXCEPT !.age = @ + 1].valid = r.valid
               /\ [r EXCEPT !.age = @ + 1].valid =>
                     /\ [r EXCEPT !.age = @ + 1].body \in Body
                     /\ [r EXCEPT !.age = @ + 1].as_of <= sent
                     /\ [r EXCEPT !.age = @ + 1].age <= MaxDelay
    BY <2>2, TimeAssumption DEF Status
  <2>3. \A s \in reports' \cup {recv'} :
           /\ s \in Status
           /\ s.valid => s.body \in Body /\ s.as_of <= sent /\ s.age <= MaxDelay
    BY <1>8, <2>1, <2>2 DEF Tick, TypeOK
  <2>4. \A s \in reports' : s.valid
    BY <1>8, <2>1, <2>2 DEF Tick, TypeOK, Shapes
  <2>5. requests' \in Seq(Request) /\ Len(requests') = Len(requests)
    <3>1. \A r \in Request : r.age < MaxDelay => [r EXCEPT !.age = @ + 1] \in Request
      BY TimeAssumption DEF Request
    <3>2. \A i \in DOMAIN requests : requests[i] \in Request /\ requests[i].age < MaxDelay
      BY <1>8 DEF Tick, Shapes
    <3>3. \A i \in DOMAIN requests : [requests[i] EXCEPT !.age = @ + 1] \in Request
      BY <3>1, <3>2
    <3> QED BY <1>8, <3>3 DEF Tick, Shapes
  <2>6. robot' \in Body /\ rising' \in 0 .. RiseTime
        /\ (robot'.motion_state = Standing <=> rising' > 0)
    BY <1>8, TimeAssumption DEF Tick, TypeOK, Body, Standing, RLControl
  <2>7. TypeOK'
    BY <1>8, <2>3, <2>5, <2>6 DEF Tick, TypeOK
  <2>8. Shapes' /\ Places'
    BY <1>8, <2>3, <2>4, <2>5 DEF Tick, Shapes, Places
  <2> QED BY <2>7, <2>8
<1>9. CASE UNCHANGED vars
  BY <1>9 DEF vars, TypeOK, Shapes, Places
<1> QED BY <1>1, <1>2, <1>3, <1>4, <1>5, <1>6, <1>7, <1>8, <1>9 DEF Next, Receive

LEMMA BasicInvariance == Spec => []BasicInv
BY BasicInit, BasicNext, PTL DEF Spec

-----------------------------------------------------------------------------
\* What a tick makes of the reports that are coming.
LEMMA TickAges ==
    ASSUME Shapes, Tick, NEW s \in Coming', s.valid
    PROVE  \E r \in Coming : /\ r.valid /\ r \in Status /\ s.age = r.age + 1
                            /\ s.as_of = r.as_of /\ s.body = r.body
<1> USE DEF Coming
<1>1. ASSUME NEW r \in Status
      PROVE  /\ [r EXCEPT !.age = @ + 1].age = r.age + 1
             /\ [r EXCEPT !.age = @ + 1].valid = r.valid
             /\ [r EXCEPT !.age = @ + 1].as_of = r.as_of
             /\ [r EXCEPT !.age = @ + 1].body = r.body
  BY DEF Status
<1>2. reports \subseteq Status /\ recv \in Status
  BY DEF Shapes
<1>3. CASE s \in reports'
  <2>1. PICK r \in reports : r.valid /\ s = [r EXCEPT !.age = @ + 1]
    BY <1>3 DEF Tick, Shapes
  <2> QED BY <1>1, <1>2, <2>1
<1>4. CASE s = recv'
  <2>1. recv.valid /\ s = [recv EXCEPT !.age = @ + 1]
    BY <1>4 DEF Tick
  <2> QED BY <1>1, <1>2, <2>1
<1> QED BY <1>3, <1>4

\* What a tick makes of the robot.
LEMMA TickRobot ==
    ASSUME TypeOK, Tick
    PROVE  /\ robot'.gait = robot.gait
           /\ robot'.control_usage_mode = robot.control_usage_mode
           /\ InRL(robot) => InRL(robot')
           /\ robot.motion_state \in {Standing, RLControl} => robot'.motion_state \in {Standing, RLControl}
           /\ rising' > 0 => rising' = rising - 1 /\ rising > 0
BY DEF Tick, TypeOK, Body, InRL, Standing, RLControl

-----------------------------------------------------------------------------
\* Readbacks younger than their requests.

LEMMA YoungerInit == Init => Younger
<1> SUFFICES ASSUME Init PROVE Younger
  OBVIOUS
<1>1. phase # "settle"
  BY FirstTask, FlagAssumption
<1>2. reports = {} /\ ~recv.valid /\ ~waiting
  BY DEF Init, NoStatus
<1> QED BY <1>1, <1>2 DEF Younger, Coming

LEMMA YoungerMain ==
    ASSUME Settled, BasicInv, Younger, MainStep
    PROVE  Younger'
<1> USE DEF BasicInv, Coming, recv_vars
<1>1. \A r \in Coming : r \in Status /\ r.age \in Nat /\ r.as_of \in Nat
  BY DEF Shapes, Status
<1>2. \A r \in Coming : r.valid => r.as_of <= sent /\ r.age <= MaxDelay
  BY DEF TypeOK
<1>3. MaxDelay \in Nat /\ ModeSettle \in Nat /\ StandSettle \in Nat /\ left \in Nat /\ sent \in Nat
  BY TimeAssumption DEF TypeOK
<1>4. ASSUME NEW arrives \in BOOLEAN, SendRequest(arrives)
      PROVE  Younger'
  <2>1. phase' = "settle" /\ left' = SettleOf(task') /\ Coming' = Coming
    BY <1>4 DEF SendRequest, SettleOf
  <2>2. \A r \in Coming : r.age + SettleOf(task') >= SettleOf(task')
    BY <1>1, <1>3 DEF SettleOf
  <2> QED BY <2>1, <2>2 DEF Younger
<1>5. CASE EndSettle
  <2>1. \A r \in Coming : r.valid => r.as_of = sent
    BY <1>1, <1>2, <1>3, <1>5 DEF EndSettle, Younger, SettleOf, Settled
  <2>2. phase' = "readback" /\ ~waiting' /\ Coming' = Coming /\ sent' = sent
    BY <1>5 DEF EndSettle, TypeOK
  <2> QED BY <2>1, <2>2 DEF Younger
<1>6. CASE BeginWait
  <2>1. ~last_basic_status'.valid
    BY <1>6 DEF BeginWait, Shapes, Status
  <2> QED BY <1>6, <2>1 DEF BeginWait, Younger
<1>7. CASE ReadFresh \/ GiveUp
  <2>1. phase \in {"check", "readback"} /\ waiting' = FALSE /\ UNCHANGED <<reports, recv, sent>>
    BY <1>7 DEF ReadFresh, GiveUp, Proceed, TypeOK
  <2>2. phase' # "settle"
    BY <1>7, Successor DEF ReadFresh, GiveUp, TypeOK
  <2>3. \A r \in Coming : r.valid => r.as_of = sent
    BY <1>1, <1>2, <2>1 DEF Younger, Places
  <2> QED BY <2>1, <2>2, <2>3 DEF Younger
<1> QED BY <1>4, <1>5, <1>6, <1>7 DEF MainStep

LEMMA YoungerNext ==
    ASSUME Settled, BasicInv, Younger, [Next]_vars
    PROVE  Younger'
<1> USE DEF BasicInv, Coming, main_vars, recv_vars
<1>1. CASE MainStep
  BY <1>1, YoungerMain
<1>2. CASE Sigint \/ DeliverRequest \/ UNCHANGED vars
  BY <1>2 DEF Sigint, DeliverRequest, vars, Younger
<1>3. ASSUME NEW r \in reports, ReceiveReport(r) \/ DropReport(r)
      PROVE  Younger'
  BY <1>3 DEF ReceiveReport, DropReport, Younger
<1>4. CASE StoreReport
  <2>1. last_basic_status'.as_of = recv.as_of
    BY <1>4 DEF StoreReport, Shapes, Status
  <2>2. ~recv'.valid
    BY <1>4 DEF StoreReport, NoStatus
  <2> QED BY <1>4, <2>1, <2>2 DEF StoreReport, Younger
<1>5. CASE EmitReport
  <2>1. \A r \in reports' : r \in reports \/ r.as_of = sent
    BY <1>5 DEF EmitReport
  <2> QED BY <1>5, <2>1 DEF EmitReport, Younger
<1>6. CASE Tick
  <2>1. left' = left - 1 /\ UNCHANGED <<task, phase, waiting, last_basic_status, sent>>
    BY <1>6 DEF Tick
  <2>4. \A s \in Coming' : s.valid => \E r \in Coming :
           r.valid /\ r \in Status /\ s.age = r.age + 1 /\ s.as_of = r.as_of
    BY <1>6, TickAges
  <2>5. \A r \in Status : r.age \in Nat
    BY DEF Status
  <2>6. left \in Nat /\ left - 1 \in Int /\ SettleOf(task) \in Nat
    BY TimeAssumption DEF TypeOK, SettleOf
  <2> QED BY <2>1, <2>4, <2>5, <2>6 DEF Younger
<1> QED BY <1>1, <1>2, <1>3, <1>4, <1>5, <1>6 DEF Next, Receive

(* Types, and where the control can be, for every setting
   (CmdVelBridge.cpp:549-698). *)
THEOREM TypeCorrect == Spec => []TypeOK
<1>1. BasicInv => TypeOK
  BY DEF BasicInv
<1> QED BY <1>1, BasicInvariance, PTL

(* When the node settles for longer than the network takes, every readback
   acts on a status produced after its request (CmdVelBridge.cpp:551). *)
THEOREM ReadbackAfterRequestHolds ==
    ASSUME Settled
    PROVE  Spec => ReadbackAfterRequest
<1>1. Init => Younger
  BY YoungerInit
<1>2. BasicInv /\ Younger /\ [Next]_vars => Younger'
  BY YoungerNext
<1>3. BasicInv /\ Younger /\ [Next]_vars =>
         [ReadFresh /\ phase = "readback" => last_basic_status.as_of = sent]_vars
  BY DEF ReadFresh, Younger
<1> QED BY <1>1, <1>2, <1>3, BasicInvariance, PTL DEF Spec, ReadbackAfterRequest

-----------------------------------------------------------------------------
\* A startup without lost requests.

LEMMA ReadyAtFirst == Init => OneRequest /\ ModeTold /\ Rising /\ Risen
<1> SUFFICES ASSUME Init PROVE OneRequest /\ ModeTold /\ Rising /\ Risen
  OBVIOUS
<1>1. /\ phase # "settle"
      /\ task = "stand" => phase = "request"
      /\ SetMode => task = "mode" /\ phase = "check"
      /\ AutoStand => task \in {"mode", "stand"}
  BY FirstTask, FlagAssumption
<1>2. requests = <<>> /\ \A s \in Coming \cup {last_basic_status} : ~s.valid
  BY DEF Init, Coming, NoStatus
<1> QED BY <1>1, <1>2 DEF OneRequest, ModeTold, Rising, RisesInTime, OldRLPasses, RLIsTrue, Risen, Heard

LEMMA OneRequestNext ==
    ASSUME Patient, BasicInv, OneRequest, [Next]_vars
    PROVE  OneRequest'
<1> USE DEF BasicInv, main_vars, recv_vars, OneRequest
<1>1. MaxDelay \in Nat /\ ModeSettle \in Nat /\ StandSettle \in Nat /\ left \in Nat
      /\ SettleOf(task) > MaxDelay /\ SettleOf(task) \in Nat
  BY TimeAssumption DEF TypeOK, Patient, SettleOf
<1>2. ASSUME Len(requests) = 1
      PROVE  requests[1] \in Request /\ requests[1].age \in 0 .. MaxDelay /\ Tail(requests) = <<>>
  <2>1. requests \in Seq(Request) /\ requests[1] \in Request
    BY <1>2 DEF Shapes
  <2>2. Tail(requests) \in Seq(Request) /\ Len(Tail(requests)) = 0
    BY <1>2, <2>1
  <2>3. Tail(requests) = <<>>
    <3>1. Tail(requests) # <<>> => Len(Tail(requests)) \in Nat \ {0}
      BY <2>2, EmptySeq
    <3> QED BY <2>2, <3>1
  <2>4. requests[1].age \in 0 .. MaxDelay
    BY <2>1 DEF Request
  <2> QED BY <2>1, <2>3, <2>4
<1>3. ASSUME NEW arrives \in BOOLEAN, SendRequest(arrives)
      PROVE  OneRequest'
  <2>1. requests = <<>> /\ phase' = "settle" /\ task' = task /\ left' = SettleOf(task)
    BY <1>3 DEF SendRequest, SettleOf
  <2>2. requests' = <<[kind |-> task, age |-> 0]>> \/ requests' = <<>>
    BY <1>3, <2>1 DEF SendRequest
  <2> QED BY <1>1, <2>1, <2>2
<1>4. CASE EndSettle
  BY <1>1, <1>2, <1>2, <1>4 DEF EndSettle
<1>5. CASE BeginWait
  BY <1>5 DEF BeginWait
<1>6. CASE ReadFresh \/ GiveUp
  <2>1. requests = <<>> /\ requests' = requests
    BY <1>6 DEF ReadFresh, GiveUp, TypeOK
  <2>2. phase' # "settle"
    BY <1>6, Successor DEF ReadFresh, GiveUp, TypeOK
  <2> QED BY <2>1, <2>2
<1>7. CASE DeliverRequest
  <2>1. phase = "settle" /\ requests' = <<>>
    BY <1>2, <1>7 DEF DeliverRequest
  <2> QED BY <1>7, <2>1 DEF DeliverRequest
<1>8. CASE Tick
  <2>1. UNCHANGED <<task, phase>> /\ left' = left - 1 /\ Len(requests') = Len(requests)
        /\ DOMAIN requests' = DOMAIN requests /\ requests' \in Seq(Request)
    <3>1. \A r \in Request : r.age < MaxDelay => [r EXCEPT !.age = @ + 1] \in Request
      BY TimeAssumption DEF Request
    <3>2. \A i \in DOMAIN requests : requests[i] \in Request /\ requests[i].age < MaxDelay
      BY <1>8 DEF Tick, Shapes
    <3> QED BY <1>8, <3>1, <3>2 DEF Tick, Shapes
  <2>2. CASE phase = "settle" /\ requests' # <<>>
    <3>1. Len(requests) = 1 /\ requests[1].kind = task /\ requests[1].age + left = SettleOf(task)
      BY <2>1, <2>2 DEF Shapes
    <3>2. requests'[1] = [requests[1] EXCEPT !.age = @ + 1]
      BY <1>8, <3>1 DEF Tick, Shapes
    <3>3. requests'[1].kind = task /\ requests'[1].age = requests[1].age + 1
      BY <1>2, <3>1, <3>2 DEF Request
    <3> QED BY <1>1, <1>2, <2>1, <3>1, <3>3
  <2>3. CASE phase # "settle"
    BY <2>1, <2>3 DEF Shapes
  <2> QED BY <2>1, <2>2, <2>3
<1>9. CASE Sigint \/ Receive \/ EmitReport \/ (\E r \in reports : DropReport(r)) \/ UNCHANGED vars
  BY <1>9 DEF Sigint, Receive, ReceiveReport, StoreReport, EmitReport, DropReport, vars
<1> QED BY <1>3, <1>4, <1>5, <1>6, <1>7, <1>8, <1>9 DEF Next, MainStep

LEMMA RequestOut ==
    ASSUME OneRequest, NEW arrives \in BOOLEAN, SendRequest(arrives)
    PROVE  requests = <<>> /\ (arrives => requests' # <<>>)
<1>1. requests = <<>>
  BY DEF SendRequest, OneRequest
<1>2. arrives => requests' = <<[kind |-> task, age |-> 0]>>
  BY <1>1 DEF SendRequest
<1> QED BY <1>1, <1>2

LEMMA ModeToldNext ==
    ASSUME Patient, BasicInv, OneRequest, OneRequest', ModeTold, [Next]_vars
    PROVE  ModeTold'
<1> USE DEF BasicInv, main_vars, recv_vars, robot_vars, ModeTold, Coming
<1>1. ASSUME NEW arrives \in BOOLEAN, SendRequest(arrives)
      PROVE  ModeTold'
  <2>1. requests = <<>> /\ (arrives => requests' # <<>>)
    BY <1>1, RequestOut
  <2>2. sent' # 0
    BY <1>1 DEF SendRequest, TypeOK
  <2> QED BY <1>1, <2>1, <2>2 DEF SendRequest, Heard
<1>2. CASE EndSettle
  BY <1>2 DEF EndSettle, OneRequest, Heard
<1>3. CASE BeginWait
  <2>1. ~last_basic_status'.valid
    BY <1>3 DEF BeginWait, Shapes, Status
  <2> QED BY <1>3, <2>1 DEF BeginWait, Heard
<1>4. CASE ReadFresh \/ GiveUp
  <2>1. UNCHANGED <<recv_vars, robot_vars, sent, lost>>
    BY <1>4 DEF ReadFresh, GiveUp
  <2>2. CASE task # "mode" \/ phase = "readback"
    BY <2>1, <2>2 DEF Heard
  <2>3. CASE task = "mode" /\ phase = "check" /\ task' = task /\ phase' = "request"
    BY <2>1, <2>3 DEF Heard
  <2>4. CASE task = "mode" /\ phase = "check" /\ ~(task' = task /\ phase' = "request")
    <3>1. last_basic_status.valid /\ last_basic_status.body.control_usage_mode = UsageMode
      BY <1>4, <2>4 DEF ReadFresh, GiveUp
    <3>2. robot.control_usage_mode = UsageMode
      BY <2>4, <3>1 DEF Places
    <3> QED BY <2>1, <3>2
  <2>5. phase \in {"check", "readback"} /\ (phase = "check" => task = "mode")
    BY <1>4 DEF ReadFresh, GiveUp, TypeOK, Places
  <2> QED BY <2>2, <2>3, <2>4, <2>5
<1>5. CASE DeliverRequest
  <2>1. sent # 0
    BY <1>5 DEF DeliverRequest, TypeOK, Shapes
  <2>2. phase = "settle" /\ requests # <<>> /\ Head(requests).kind = task
    BY <1>5 DEF DeliverRequest, OneRequest, Shapes
  <2>3. task \in Tasks
    BY <2>2 DEF TypeOK, Places, Tasks
  <2>4. CASE task = "mode"
    BY <1>5, <2>1, <2>2, <2>4 DEF DeliverRequest, Obey, TypeOK, Body
  <2>5. CASE task = "stand"
    BY <1>5, <2>1, <2>2, <2>5 DEF DeliverRequest, Obey, TypeOK, Body
  <2>6. CASE task = "gait"
    BY <1>5, <2>1, <2>2, <2>6 DEF DeliverRequest, Obey, TypeOK, Body
  <2> QED BY <2>3, <2>4, <2>5, <2>6 DEF Tasks
<1>6. CASE Tick
  <2>1. UNCHANGED <<task, phase, last_basic_status, sent, lost>>
    BY <1>6 DEF Tick
  <2>2. requests' = <<>> => requests = <<>>
    BY <1>6 DEF Tick, Shapes
  <2>3. robot'.control_usage_mode = robot.control_usage_mode
    BY <1>6, TickRobot
  <2>4. \A s \in Coming' : s.valid => \E r \in Coming : r.valid /\ s.body = r.body
    BY <1>6, TickAges
  <2> QED BY <2>1, <2>2, <2>3, <2>4 DEF Heard
<1>7. CASE StoreReport
  <2>1. last_basic_status'.body = recv.body
    BY <1>7 DEF StoreReport, Shapes, Status
  <2>2. ~recv'.valid
    BY <1>7 DEF StoreReport, NoStatus
  <2>3. recv.valid /\ UNCHANGED <<main_vars, reports, requests, robot, sent, lost>>
    BY <1>7 DEF StoreReport
  <2>4. sent = 0 => \A s \in (Coming \cup {last_basic_status})' :
                       s.valid => s.body.control_usage_mode = robot.control_usage_mode
    BY <2>1, <2>2, <2>3
  <2> QED BY <2>3, <2>4 DEF Heard
<1>8. CASE EmitReport
  <2>1. \A r \in reports' : r \in reports \/ r.body = robot
    BY <1>8 DEF EmitReport
  <2> QED BY <1>8, <2>1 DEF EmitReport, Heard
<1>9. ASSUME NEW r \in reports, ReceiveReport(r) \/ DropReport(r)
      PROVE  ModeTold'
  BY <1>9 DEF ReceiveReport, DropReport, Heard
<1>10. CASE Sigint \/ UNCHANGED vars
  BY <1>10 DEF Sigint, vars, Heard
<1> QED BY <1>1, <1>2, <1>3, <1>4, <1>5, <1>6, <1>7, <1>8, <1>9, <1>10 DEF Next, MainStep, Receive

LEMMA RisingMain ==
    ASSUME Patient, BasicInv, OneRequest, OneRequest', Rising, MainStep
    PROVE  Rising'
<1> USE DEF BasicInv, main_vars, recv_vars, robot_vars, Coming
<1>1. /\ MaxDelay \in Nat /\ StandSettle \in Nat /\ StatusWait \in Nat /\ RiseTime \in Nat
      /\ left \in Nat /\ rising \in Nat /\ StandSettle > MaxDelay + MaxDelay
  BY TimeAssumption DEF TypeOK, Patient
<1>2. \A r \in Coming : r.age \in Nat /\ (r.valid => r.age <= MaxDelay)
  BY DEF Shapes, Status, TypeOK
<1>3. RisesInTime /\ OldRLPasses /\ RLIsTrue
  BY DEF Rising
<1>4. ASSUME NEW arrives \in BOOLEAN, SendRequest(arrives)
      PROVE  Rising'
  <2>1. requests = <<>> /\ (arrives => requests' # <<>>)
    BY <1>4, RequestOut
  <2>2. RisesInTime' /\ RLIsTrue'
    BY <1>4, <2>1 DEF SendRequest, RisesInTime, RLIsTrue, Heard
  <2>3. OldRLPasses'
    BY <1>1, <1>2, <1>4 DEF SendRequest, OldRLPasses
  <2> QED BY <2>2, <2>3 DEF Rising
<1>5. CASE EndSettle
  <2>1. /\ phase = "settle" /\ phase' = "readback" /\ left = 0 /\ left' = StatusWait /\ ~waiting'
        /\ UNCHANGED <<task, reports, recv, requests, robot, rising, lost>>
    BY <1>5 DEF EndSettle, TypeOK
  <2>2. requests = <<>>
    BY <2>1 DEF OneRequest
  <2>3. RisesInTime'
    BY <1>1, <1>3, <2>1, <2>2 DEF RisesInTime, Heard
  <2>4. RLIsTrue'
    BY <1>1, <1>2, <1>3, <2>1, <2>2 DEF OldRLPasses, RLIsTrue
  <2>5. OldRLPasses'
    BY <2>1 DEF OldRLPasses
  <2> QED BY <2>3, <2>4, <2>5 DEF Rising
<1>6. CASE BeginWait
  <2>1. ~last_basic_status'.valid
    BY <1>6 DEF BeginWait, Shapes, Status
  <2>2. /\ phase = "check" \/ phase = "readback"
        /\ UNCHANGED <<task, phase, reports, recv, requests, robot, rising, lost>>
        /\ task = "stand" => left' = left
    BY <1>6 DEF BeginWait
  <2>3. RisesInTime'
    BY <1>3, <2>2 DEF RisesInTime, Heard
  <2>4. OldRLPasses' /\ RLIsTrue'
    BY <1>3, <2>1, <2>2 DEF OldRLPasses, RLIsTrue
  <2> QED BY <2>3, <2>4 DEF Rising
<1>7. CASE ReadFresh \/ GiveUp
  <2>1. waiting' = FALSE /\ phase' # "settle" /\ UNCHANGED <<recv_vars, requests, robot_vars, lost>>
    BY <1>7, Successor DEF ReadFresh, GiveUp, TypeOK
  <2>2. \/ task' = "stand" /\ task = "stand" /\ UNCHANGED <<phase, left>>
        \/ ~(task' = "stand" /\ phase' = "readback")
    BY <1>7, Successor DEF ReadFresh, GiveUp, TypeOK, Places
  <2>3. RisesInTime'
    BY <1>3, <2>1, <2>2 DEF RisesInTime, Heard
  <2>4. OldRLPasses' /\ RLIsTrue'
    BY <1>3, <2>1, <2>2 DEF OldRLPasses, RLIsTrue
  <2> QED BY <2>3, <2>4 DEF Rising
<1> QED BY <1>4, <1>5, <1>6, <1>7 DEF MainStep

LEMMA RisingNext ==
    ASSUME Patient, BasicInv, OneRequest, OneRequest', Rising, [Next]_vars
    PROVE  Rising'
<1> USE DEF BasicInv, main_vars, recv_vars, robot_vars, Coming
<1>1. /\ MaxDelay \in Nat /\ StandSettle \in Nat /\ StatusWait \in Nat /\ RiseTime \in Nat
      /\ left \in Nat /\ rising \in Nat /\ StandSettle > MaxDelay + MaxDelay
  BY TimeAssumption DEF TypeOK, Patient
<1>2. \A r \in Coming : r.age \in Nat /\ (r.valid => r.age <= MaxDelay)
  BY DEF Shapes, Status, TypeOK
<1>3. RisesInTime /\ OldRLPasses /\ RLIsTrue
  BY DEF Rising
<1>4. ASSUME requests # <<>>
      PROVE  /\ phase = "settle" /\ Head(requests).kind = task /\ task \in Tasks
             /\ task = "stand" => left + MaxDelay >= StandSettle
  <2>1. phase = "settle" /\ requests[1] \in Request /\ Head(requests) = requests[1]
        /\ requests[1].kind = task /\ requests[1].age + left = SettleOf(task)
    BY <1>4 DEF OneRequest, Shapes
  <2>2. requests[1].age \in 0 .. MaxDelay /\ task \in Tasks
    BY <2>1 DEF Request
  <2> QED BY <1>1, <2>1, <2>2 DEF SettleOf
<1>5. CASE MainStep
  BY <1>5, RisingMain
<1>6. CASE DeliverRequest
  <2>1. requests # <<>> /\ UNCHANGED <<task, phase, waiting, left, reports, recv, last_basic_status, lost>>
    BY <1>6 DEF DeliverRequest
  <2>2. task = "stand" => robot'.motion_state = Standing /\ rising' = RiseTime
    BY <1>4, <1>6, <2>1 DEF DeliverRequest, Obey, TypeOK, Body
  <2>3. RisesInTime'
    BY <1>1, <1>4, <2>1, <2>2 DEF RisesInTime, Heard
  <2>4. OldRLPasses' /\ RLIsTrue'
    BY <1>3, <1>4, <2>1 DEF OldRLPasses, RLIsTrue
  <2> QED BY <2>3, <2>4 DEF Rising
<1>7. CASE Tick
  <2>1. UNCHANGED <<task, phase, waiting, last_basic_status, lost>> /\ left' = left - 1
    BY <1>7 DEF Tick
  <2>2. requests' = <<>> <=> requests = <<>>
    BY <1>7 DEF Tick, Shapes
  <2>3. /\ InRL(robot) => InRL(robot')
        /\ robot.motion_state \in {Standing, RLControl} => robot'.motion_state \in {Standing, RLControl}
        /\ rising' > 0 => rising' = rising - 1 /\ rising > 0
    BY <1>7, TickRobot
  <2>4. \A s \in Coming' : s.valid => \E r \in Coming : r.valid /\ s.age = r.age + 1 /\ s.body = r.body
    BY <1>7, TickAges
  <2>5. RisesInTime'
    BY <1>1, <1>3, <2>1, <2>2, <2>3 DEF RisesInTime, Heard
  <2>6. OldRLPasses'
    BY <1>1, <1>2, <1>3, <2>1, <2>2, <2>3, <2>4 DEF OldRLPasses
  <2>7. RLIsTrue'
    BY <1>3, <2>1, <2>3, <2>4 DEF RLIsTrue
  <2> QED BY <2>5, <2>6, <2>7 DEF Rising
<1>8. CASE StoreReport
  <2>1. last_basic_status'.body = recv.body /\ ~recv'.valid /\ recv.valid
        /\ UNCHANGED <<main_vars, reports, requests, robot, rising, lost>>
    BY <1>8 DEF StoreReport, NoStatus, Shapes, Status
  <2>2. RisesInTime'
    BY <1>3, <2>1 DEF RisesInTime, Heard
  <2>3. OldRLPasses'
    BY <1>3, <2>1 DEF OldRLPasses
  <2>4. RLIsTrue'
    BY <1>3, <2>1 DEF RLIsTrue
  <2> QED BY <2>2, <2>3, <2>4 DEF Rising
<1>9. CASE EmitReport
  <2>1. \A r \in reports' : r \in reports \/ (r.body = robot /\ r.age = 0)
    BY <1>9 DEF EmitReport
  <2>2. UNCHANGED <<main_vars, recv, last_basic_status, requests, robot, rising, lost>>
    BY <1>9 DEF EmitReport
  <2>3. RisesInTime'
    BY <1>3, <2>2 DEF RisesInTime, Heard
  <2>4. OldRLPasses'
    BY <1>1, <1>3, <1>4, <2>1, <2>2 DEF OldRLPasses
  <2>5. RLIsTrue'
    BY <1>3, <2>1, <2>2 DEF RLIsTrue
  <2> QED BY <2>3, <2>4, <2>5 DEF Rising
<1>10. ASSUME NEW r \in reports, ReceiveReport(r) \/ DropReport(r)
       PROVE  Rising'
  BY <1>10 DEF ReceiveReport, DropReport, Rising, RisesInTime, OldRLPasses, RLIsTrue, Heard
<1>11. CASE Sigint \/ UNCHANGED vars
  BY <1>11 DEF Sigint, vars, Rising, RisesInTime, OldRLPasses, RLIsTrue, Heard
<1> QED BY <1>5, <1>6, <1>7, <1>8, <1>9, <1>10, <1>11 DEF Next, Receive

LEMMA RisenNext ==
    ASSUME Patient, BasicInv, OneRequest, OneRequest', Rising, Risen, [Next]_vars
    PROVE  Risen'
<1> USE DEF BasicInv, main_vars, recv_vars, robot_vars
<1> DEFINE Asked == AutoStand /\ ~lost /\ ok
<1>1. Asked' => Asked
  BY DEF Next, MainStep, SendRequest, EndSettle, BeginWait, ReadFresh, GiveUp, Sigint, Receive,
         ReceiveReport, StoreReport, EmitReport, DropReport, DeliverRequest, Tick, vars, TypeOK
<1>2. ASSUME NEW arrives \in BOOLEAN, SendRequest(arrives)
      PROVE  Risen'
  <2>1. requests = <<>> /\ (arrives => requests' # <<>>)
    BY <1>2, RequestOut
  <2> QED BY <1>1, <1>2, <2>1 DEF SendRequest, Risen, Heard
<1>3. CASE EndSettle
  BY <1>3 DEF EndSettle, OneRequest, Risen, Heard
<1>4. CASE BeginWait
  BY <1>4 DEF BeginWait, Risen, Heard
<1>5. ASSUME ReadFresh \/ GiveUp, Asked, task = "stand", task' # "stand"
      PROVE  InRL(robot)
  <2>1. phase = "readback" /\ (waiting => ReadFresh \/ GiveUp)
    BY <1>5 DEF ReadFresh, GiveUp, TypeOK, Places
  <2>2. CASE ReadFresh
    <3>1. waiting /\ last_basic_status.valid /\ InRL(last_basic_status.body)
      BY <1>5, <2>2 DEF ReadFresh, InRL
    <3> QED BY <1>5, <2>1, <3>1 DEF Rising, RLIsTrue
  <2>3. CASE GiveUp
    <3>1. left = 0
      BY <1>5, <2>3 DEF GiveUp
    <3>2. /\ robot.motion_state \in {Standing, RLControl}
          /\ rising > 0 => rising + StandSettle + StatusWait <= MaxDelay + RiseTime + left
      BY <1>5, <2>1 DEF Rising, RisesInTime, Heard
    <3>3. rising \in Nat /\ (robot.motion_state = Standing => rising > 0)
      BY TimeAssumption DEF TypeOK
    <3>4. ~(rising > 0)
      BY <3>1, <3>2, <3>3, TimeAssumption DEF Patient
    <3> QED BY <3>2, <3>3, <3>4 DEF InRL
  <2> QED BY <1>5, <2>2, <2>3
<1>6. CASE ReadFresh \/ GiveUp
  <2>1. UNCHANGED robot
    BY <1>6 DEF ReadFresh, GiveUp
  <2>2. SUFFICES ASSUME Asked', Asked PROVE Risen'
    BY <1>1 DEF Risen
  <2>3. /\ task \in {"mode", "stand", "gait", "final"} /\ phase \in {"check", "readback"}
        /\ phase = "check" => task = "mode"
    BY <1>6 DEF ReadFresh, GiveUp, TypeOK, Places
  <2>4. \/ task' = task /\ phase' \in {phase, "request"}
        \/ Proceed(After(task))
    BY <1>6 DEF ReadFresh, GiveUp
  <2>5. CASE task' = task /\ task \in {"mode", "stand"}
    BY <2>5 DEF Risen, Heard
  <2>6. CASE task = "mode" /\ Proceed(After(task))
    BY <2>2, <2>6, Successor DEF Risen, Heard
  <2>7. CASE task = "stand" /\ Proceed(After(task))
    BY <1>5, <1>6, <2>1, <2>2, <2>7, Successor DEF Risen, Heard
  <2>8. CASE task \in {"gait", "final"} /\ Proceed(After(task))
    <3>1. task' \in {"final", "done"} /\ phase = "readback"
      BY <2>3, <2>8, Successor
    <3> QED BY <2>1, <2>2, <2>8, <3>1 DEF Risen, Heard
  <2>9. task' = task => task \in {"mode", "stand"}
    BY <1>6, <2>3, Successor DEF ReadFresh, GiveUp
  <2> QED BY <2>3, <2>4, <2>5, <2>6, <2>7, <2>8, <2>9
<1>7. CASE DeliverRequest
  <2>1. requests # <<>> /\ UNCHANGED <<task, phase, ok, lost>>
    BY <1>7 DEF DeliverRequest
  <2>2. phase = "settle" /\ Head(requests).kind = task /\ task \in {"mode", "stand", "gait"}
    BY <2>1 DEF OneRequest, Shapes, TypeOK, Places
  <2>3. CASE task \in {"mode", "stand"}
    BY <2>1, <2>3 DEF Risen, Heard
  <2>4. CASE task = "gait"
    <3>1. robot' = IF InRL(robot) THEN [robot EXCEPT !.gait = GaitOnStart] ELSE robot
      BY <1>7, <2>2, <2>4 DEF DeliverRequest, Obey, InRL
    <3>2. robot'.motion_state = robot.motion_state /\ (InRL(robot) => robot'.gait = GaitOnStart)
      BY <3>1 DEF TypeOK, Body
    <3> QED BY <2>1, <2>4, <3>2 DEF Risen, Heard, InRL
  <2> QED BY <2>2, <2>3, <2>4
<1>8. CASE Tick
  <2>1. UNCHANGED <<task, phase, ok, lost>> /\ (requests' = <<>> => requests = <<>>)
    BY <1>8 DEF Tick, Shapes
  <2>2. robot'.gait = robot.gait /\ (InRL(robot) => InRL(robot'))
    BY <1>8, TickRobot
  <2> QED BY <2>1, <2>2 DEF Risen, Heard
<1>9. CASE Sigint
  BY <1>1, <1>9 DEF Sigint, Risen, Heard
<1>10. CASE Receive \/ EmitReport \/ (\E r \in reports : DropReport(r)) \/ UNCHANGED vars
  BY <1>10 DEF Receive, ReceiveReport, StoreReport, EmitReport, DropReport, vars, Risen, Heard
<1> QED BY <1>2, <1>3, <1>4, <1>6, <1>7, <1>8, <1>9, <1>10 DEF Next, MainStep

LEMMA ReadyInvariance ==
    ASSUME Patient
    PROVE  Spec => []ReadyInv
<1>1. Init => ReadyInv
  BY BasicInit, ReadyAtFirst DEF ReadyInv
<1>2. ReadyInv /\ [Next]_vars => ReadyInv'
  BY BasicNext, OneRequestNext, ModeToldNext, RisingNext, RisenNext DEF ReadyInv
<1> QED BY <1>1, <1>2, PTL DEF Spec

(* A startup in which no request is lost ends with the robot as the gate asks
   for, for every setting and every starting state, provided that the node
   settles for longer than the network takes - twice as long when standing up,
   so that a report of the old state has come in as well - and that standing
   up fits into its settling time and its readback (CmdVelBridge.cpp:105-115,
   641-660, 745-764). *)
THEOREM ReadyWhenDoneHolds ==
    ASSUME Patient
    PROVE  Spec => []ReadyWhenDone
<1>1. ReadyInv => ReadyWhenDone
  BY DEF ReadyInv, ModeTold, Risen, InRL, ReadyWhenDone
<1> QED BY <1>1, ReadyInvariance, PTL

\* The robot is handed a gait request by a startup that has lost nothing.
GaitHandedOver ==
    /\ DeliverRequest /\ Head(requests).kind = "gait"
    /\ AutoStand /\ ok /\ ~lost

(* The gait request, which the robot accepts in RL control only, finds it in RL
   control under the same hypotheses, whether a report has confirmed that or
   the wait for it was given up: what the run startup_gait_before_rl shows
   takes a robot that needs longer to rise than the settings allow
   (CmdVelBridge.cpp:661-677). *)
THEOREM GaitMeetsRL ==
    ASSUME Patient
    PROVE  Spec => [][GaitHandedOver => robot.motion_state = RLControl]_vars
<1>1. ASSUME ReadyInv, GaitHandedOver
      PROVE  robot.motion_state = RLControl
  <2>1. /\ requests # <<>> /\ Head(requests).kind = "gait"
        /\ AutoStand /\ ok /\ ~lost
    BY <1>1 DEF GaitHandedOver, DeliverRequest
  <2>2. phase = "settle" /\ requests[1].kind = task
    BY <1>1, <2>1 DEF ReadyInv, OneRequest
  <2>3. Head(requests) = requests[1]
    BY <1>1, <2>1 DEF ReadyInv, BasicInv, Shapes
  <2> QED BY <1>1, <2>1, <2>2, <2>3 DEF ReadyInv, Risen, InRL
<1>2. ReadyInv /\ [Next]_vars => [GaitHandedOver => robot.motion_state = RLControl]_vars
  BY <1>1
<1> QED BY <1>2, ReadyInvariance, PTL DEF Spec

-----------------------------------------------------------------------------
\* How long startup lasts.

\* Nothing is timed between a step and its request, nor at the end.
Untimed == phase \in {"request", "done"} => left = 0
TimeInv == BasicInv /\ Untimed

LEMMA UntimedNext == BasicInv /\ Untimed /\ [Next]_vars => Untimed'
<1> SUFFICES ASSUME BasicInv, Untimed, [Next]_vars PROVE Untimed'
  OBVIOUS
<1>1. CASE UNCHANGED main_vars
  BY <1>1 DEF Untimed, main_vars
<1>2. CASE MainStep
  BY <1>2 DEF MainStep, SendRequest, EndSettle, BeginWait, ReadFresh, GiveUp, Proceed, Untimed,
              BasicInv, TypeOK
<1>3. CASE Tick
  BY <1>3 DEF Tick, Untimed
<1> QED BY <1>1, <1>2, <1>3 DEF Next, vars, Receive, ReceiveReport, StoreReport, EmitReport,
                                DropReport, DeliverRequest, Sigint

\* The times, by name.
LEMMA Times ==
    /\ {StatusWait, ModeSettle, StandSettle} \subseteq Nat
    /\ {Longest.mode, Longest.stand, Longest.gait, Longest.final} \subseteq Nat
    /\ Longest.mode = IF SetMode THEN StatusWait + ModeSettle + StatusWait ELSE 0
    /\ Longest.stand = IF AutoStand THEN StandSettle + StatusWait ELSE 0
    /\ Longest.gait = IF GaitOnStart >= 0 THEN ModeSettle + StatusWait ELSE 0
    /\ Longest.final = StatusWait
    /\ LongestAfter["mode"] = Longest.stand + Longest.gait + Longest.final
    /\ LongestAfter["stand"] = Longest.gait + Longest.final
    /\ LongestAfter["gait"] = Longest.final
    /\ LongestAfter["final"] = 0 /\ LongestAfter["done"] = 0
    /\ \A t \in {"mode", "stand", "gait", "final", "done"} : LongestAfter[t] \in Nat
BY TimeAssumption DEF Longest, LongestAfter

\* What is left, place by place.
LEMMA TimeLeftIs ==
    ASSUME TypeOK
    PROVE  LET settle == IF task = "stand" THEN StandSettle ELSE ModeSettle
               wait == IF waiting \/ task = "stand" THEN left ELSE StatusWait
           IN  /\ phase = "check" => TimeLeft = wait + ModeSettle + StatusWait + LongestAfter[task]
               /\ phase = "request" => TimeLeft = settle + StatusWait + LongestAfter[task]
               /\ phase = "settle" => TimeLeft = left + StatusWait + LongestAfter[task]
               /\ phase = "readback" => TimeLeft = wait + LongestAfter[task]
               /\ phase = "done" => TimeLeft = 0
               /\ TimeLeft \in Nat /\ wait \in Nat /\ LongestAfter[task] \in Nat
<1>1. LongestAfter[task] \in Nat /\ (task = "done" => LongestAfter[task] = 0)
  <2>1. task \in {"mode", "stand", "gait", "final", "done"}
    BY DEF TypeOK
  <2> QED BY <2>1, Times
<1>2. left \in Nat /\ (phase = "done" => task = "done")
      /\ phase \in {"check", "request", "settle", "readback", "done"}
  BY DEF TypeOK
<1>3. CASE phase = "check"
  BY <1>1, <1>2, <1>3, Times DEF TimeLeft
<1>4. CASE phase = "request"
  BY <1>1, <1>2, <1>4, Times DEF TimeLeft
<1>5. CASE phase = "settle"
  BY <1>1, <1>2, <1>5, Times DEF TimeLeft
<1>6. CASE phase = "readback"
  BY <1>1, <1>2, <1>6, Times DEF TimeLeft
<1>7. CASE phase = "done"
  BY <1>1, <1>2, <1>7, Times DEF TimeLeft
<1> QED BY <1>2, <1>3, <1>4, <1>5, <1>6, <1>7

\* The step that follows, and those after it, last as long as what follows.
LEMMA SuccessorInTime ==
    ASSUME TypeOK, TypeOK', task \in {"mode", "stand", "gait", "final"}, Proceed(After(task))
    PROVE  TimeLeft' = LongestAfter[task]
<1>1. /\ task' = After(task) /\ waiting' = FALSE
      /\ phase' = IF task' \in {"stand", "gait"} THEN "request"
                  ELSE IF task' = "final" THEN "readback" ELSE "done"
  BY Successor DEF Proceed
<1>2. /\ task = "mode" => task' = IF AutoStand THEN "stand"
                                  ELSE IF GaitOnStart >= 0 THEN "gait" ELSE "final"
      /\ task = "stand" => task' = IF GaitOnStart >= 0 THEN "gait" ELSE "final"
      /\ task = "gait" => task' = "final"
      /\ task = "final" => task' = "done"
  BY <1>1, AfterIs
<1>3. TimeLeft' = IF task' = "stand" THEN StandSettle + StatusWait + LongestAfter["stand"]
                  ELSE IF task' = "gait" THEN ModeSettle + StatusWait + LongestAfter["gait"]
                  ELSE IF task' = "final" THEN StatusWait ELSE 0
  <2>1. TimeLeft' = LET settle == IF task' = "stand" THEN StandSettle ELSE ModeSettle
                        wait == IF waiting' \/ task' = "stand" THEN left' ELSE StatusWait
                        here == CASE phase' = "check"    -> wait + ModeSettle + StatusWait
                                  [] phase' = "request"  -> settle + StatusWait
                                  [] phase' = "settle"   -> left' + StatusWait
                                  [] phase' = "readback" -> wait
                                  [] phase' = "done"     -> 0
                    IN  here + LongestAfter[task']
    BY DEF TimeLeft, LongestAfter, Longest
  <2>2. task' \in {"stand", "gait", "final", "done"}
    BY <1>2
  <2>3. CASE task' = "stand"
    BY <1>1, <2>1, <2>3
  <2>4. CASE task' = "gait"
    BY <1>1, <2>1, <2>4
  <2>5. CASE task' = "final"
    BY <1>1, <2>1, <2>5, Times
  <2>6. CASE task' = "done"
    BY <1>1, <2>1, <2>6, Times
  <2> QED BY <2>2, <2>3, <2>4, <2>5, <2>6
<1>4. CASE task = "mode"
  BY <1>2, <1>3, <1>4, Times
<1>5. CASE task = "stand"
  BY <1>2, <1>3, <1>5, Times
<1>6. CASE task = "gait"
  BY <1>2, <1>3, <1>6, Times
<1>7. CASE task = "final"
  BY <1>2, <1>3, <1>7, Times
<1> QED BY <1>4, <1>5, <1>6, <1>7

\* The same of the state that a step leads to.
LEMMA TimeLeftNext ==
    ASSUME TypeOK'
    PROVE  /\ TimeLeft' \in Nat
           /\ (phase' = "request" => TimeLeft' = (IF task' = "stand" THEN StandSettle ELSE ModeSettle)
                   + StatusWait + LongestAfter[task'])
           /\ (phase' = "settle" => TimeLeft' = left' + StatusWait + LongestAfter[task'])
           /\ (phase' = "readback" => TimeLeft' = (IF waiting' \/ task' = "stand" THEN left' ELSE StatusWait)
                   + LongestAfter[task'])
           /\ (phase' = "check" => TimeLeft' = (IF waiting' \/ task' = "stand" THEN left' ELSE StatusWait)
                   + ModeSettle + StatusWait + LongestAfter[task'])
<1>1. UNCHANGED <<StatusWait, StandSettle, ModeSettle, LongestAfter>>
  BY DEF LongestAfter, Longest
<1>2. left' \in Nat /\ LongestAfter[task'] \in Nat
  <2>1. left' \in Nat /\ task' \in {"mode", "stand", "gait", "final", "done"}
    BY DEF TypeOK
  <2> QED BY <2>1, Times
<1>3. TimeLeft' = LET settle == IF task' = "stand" THEN StandSettle ELSE ModeSettle
                      wait == IF waiting' \/ task' = "stand" THEN left' ELSE StatusWait
                      here == CASE phase' = "check"    -> wait + ModeSettle + StatusWait
                                [] phase' = "request"  -> settle + StatusWait
                                [] phase' = "settle"   -> left' + StatusWait
                                [] phase' = "readback" -> wait
                                [] phase' = "done"     -> 0
                  IN  here + LongestAfter[task']
  BY DEF TimeLeft, LongestAfter, Longest
<1>4. phase' \in {"check", "request", "settle", "readback", "done"}
  BY DEF TypeOK
<1>5. CASE phase' = "check"
  BY <1>2, <1>3, <1>5, Times
<1>6. CASE phase' = "request"
  BY <1>2, <1>3, <1>6, Times
<1>7. CASE phase' = "settle"
  BY <1>2, <1>3, <1>7, Times
<1>8. CASE phase' = "readback"
  BY <1>2, <1>3, <1>8, Times
<1>9. CASE phase' = "done"
  BY <1>2, <1>3, <1>9, Times
<1> QED BY <1>4, <1>5, <1>6, <1>7, <1>8, <1>9

LEMMA TimeLeftFalls ==
    ASSUME BasicInv, TypeOK', Untimed, Next
    PROVE  OnTime
<1> DEFINE Wait == IF waiting \/ task = "stand" THEN left ELSE StatusWait
           Settle == IF task = "stand" THEN StandSettle ELSE ModeSettle
<1> USE DEF BasicInv
<1>1. /\ TimeLeft \in Nat /\ Wait \in Nat /\ LongestAfter[task] \in Nat /\ left \in Nat
      /\ phase = "check" => TimeLeft = Wait + ModeSettle + StatusWait + LongestAfter[task]
      /\ phase = "readback" => TimeLeft = Wait + LongestAfter[task]
      /\ phase = "request" => TimeLeft = Settle + StatusWait + LongestAfter[task]
      /\ phase = "settle" => TimeLeft = left + StatusWait + LongestAfter[task]
  BY TimeLeftIs DEF TypeOK
<1>2. /\ phase = "check" => task = "mode"
      /\ phase \in {"check", "readback"} => task \in {"mode", "stand", "gait", "final"}
  BY DEF TypeOK, Places
<1>3. ASSUME UNCHANGED main_vars PROVE TimeLeft' = TimeLeft
  BY <1>3 DEF TimeLeft, LongestAfter, Longest, main_vars
<1>4. /\ TimeLeft' \in Nat
      /\ (phase' = "request" => TimeLeft' = (IF task' = "stand" THEN StandSettle ELSE ModeSettle)
                                                + StatusWait + LongestAfter[task'])
      /\ (phase' = "settle" => TimeLeft' = left' + StatusWait + LongestAfter[task'])
      /\ (phase' = "readback" => TimeLeft' = (IF waiting' \/ task' = "stand" THEN left' ELSE StatusWait)
                                                + LongestAfter[task'])
      /\ (phase' = "check" => TimeLeft' = (IF waiting' \/ task' = "stand" THEN left' ELSE StatusWait)
                                                + ModeSettle + StatusWait + LongestAfter[task'])
  BY TimeLeftNext
<1> HIDE DEF Wait, Settle
<1>5. ASSUME Tick PROVE TimeLeft' < TimeLeft
  <2>1. UNCHANGED <<task, phase, waiting>> /\ left' = left - 1
    BY <1>5 DEF Tick
  <2>2. phase \in {"check", "settle", "readback"} /\ (phase \in {"check", "readback"} => waiting)
    BY <1>5 DEF Tick, Untimed, TypeOK
  <2>3. CASE phase = "settle"
    BY <1>1, <1>4, <2>1, <2>3, Times
  <2>4. CASE phase = "check"
    <3>1. Wait = left /\ TimeLeft' = (left - 1) + ModeSettle + StatusWait + LongestAfter[task]
      BY <1>4, <2>1, <2>2, <2>4 DEF Wait
    <3> QED BY <1>1, <2>4, <3>1, Times
  <2>5. CASE phase = "readback"
    <3>1. Wait = left /\ TimeLeft' = (left - 1) + LongestAfter[task]
      BY <1>4, <2>1, <2>2, <2>5 DEF Wait
    <3> QED BY <1>1, <2>5, <3>1, Times
  <2> QED BY <2>2, <2>3, <2>4, <2>5
<1>6. TimeLeft' <= TimeLeft
  <2>1. ASSUME NEW arrives \in BOOLEAN, SendRequest(arrives) PROVE TimeLeft' <= TimeLeft
    <3>1. phase = "request" /\ phase' = "settle" /\ task' = task
          /\ left' = Settle
      BY <2>1, Times DEF SendRequest, Settle
    <3> QED BY <1>1, <1>4, <3>1
  <2>2. CASE EndSettle
    <3>1. phase = "settle" /\ left = 0 /\ phase' = "readback" /\ left' = StatusWait /\ task' = task
      BY <2>2 DEF EndSettle
    <3> QED BY <1>1, <1>4, <3>1, Times
  <2>3. CASE BeginWait
    <3>1. /\ phase \in {"check", "readback"} /\ phase' = phase /\ task' = task /\ waiting' = TRUE
          /\ left' = Wait
      BY <2>3 DEF BeginWait, Wait, TypeOK
    <3> QED BY <1>1, <1>4, <3>1
  <2>4. ASSUME task = "mode", phase = "check", waiting, phase' = "request", task' = task
        PROVE  TimeLeft' <= TimeLeft
    <3>1. TimeLeft' = ModeSettle + StatusWait + LongestAfter[task]
      BY <1>4, <2>4
    <3> QED BY <1>1, <2>4, <3>1, Times
  <2>5. ASSUME Proceed(After(task)), phase \in {"check", "readback"} PROVE TimeLeft' <= TimeLeft
    <3>1. TimeLeft' = LongestAfter[task]
      BY <1>2, <2>5, SuccessorInTime
    <3> QED BY <1>1, <2>5, <3>1, Times
  <2>6. CASE ReadFresh
    <3>1. phase \in {"check", "readback"} /\ waiting
      BY <2>6 DEF ReadFresh, TypeOK
    <3>2. CASE task = "mode" /\ phase = "check" /\ phase' = "request" /\ task' = task
      BY <2>4, <3>1, <3>2
    <3>3. CASE task = "stand" /\ UNCHANGED <<task, phase, left>>
      <4>1. phase = "readback" /\ Wait = left
        BY <1>2, <3>1, <3>3 DEF Wait
      <4>2. TimeLeft' = left + LongestAfter[task]
        BY <1>4, <3>3, <4>1
      <4> QED BY <1>1, <4>1, <4>2
    <3> QED BY <2>5, <2>6, <3>1, <3>2, <3>3 DEF ReadFresh
  <2>7. CASE GiveUp
    <3>1. phase \in {"check", "readback"} /\ (waiting \/ task = "stand")
      BY <2>7 DEF GiveUp
    <3>2. CASE phase = "check"
      <4>1. task = "mode" /\ waiting /\ phase' = "request" /\ task' = task
        BY <1>2, <2>7, <3>1, <3>2 DEF GiveUp
      <4> QED BY <2>4, <3>2, <4>1
    <3>3. CASE phase = "readback"
      BY <2>5, <2>7, <3>1, <3>3 DEF GiveUp
    <3> QED BY <3>1, <3>2, <3>3
  <2>8. CASE Tick
    BY <1>1, <1>4, <1>5, <2>8
  <2>9. CASE Sigint \/ Receive \/ EmitReport \/ DeliverRequest \/ \E r \in reports : DropReport(r)
    <3>1. UNCHANGED main_vars
      BY <2>9 DEF Sigint, Receive, ReceiveReport, StoreReport, EmitReport, DeliverRequest, DropReport
    <3> QED BY <1>1, <1>3, <3>1
  <2> QED BY <2>1, <2>2, <2>3, <2>6, <2>7, <2>8, <2>9 DEF Next, MainStep
<1> QED BY <1>5, <1>6 DEF OnTime

LEMMA TimeInvariance == Spec => []TimeInv
<1>1. Init => TimeInv
  BY BasicInit DEF Init, TimeInv, Untimed
<1>2. TimeInv /\ [Next]_vars => TimeInv'
  BY BasicNext, UntimedNext DEF TimeInv
<1> QED BY <1>1, <1>2, PTL DEF Spec

(* Startup keeps to its settings, whatever the robot reports, whatever is lost
   and whenever the node is interrupted: no step adds to the time that is left
   and every tick takes from it (CmdVelBridge.cpp:549-698). *)
THEOREM StartupOnTimeHolds == Spec => StartupOnTime
<1>1. TimeInv /\ TimeInv' /\ [Next]_vars => [OnTime]_vars
  BY TimeLeftFalls DEF TimeInv, BasicInv
<1>2. Spec => [][OnTime]_vars
  BY <1>1, TimeInvariance, PTL DEF Spec
<1> QED BY <1>2 DEF StartupOnTime

(* So the constructor never has more time before it than its settings add up
   to: 5 status waits and 3 settling times at most (CmdVelBridge.cpp:105-115). *)
THEOREM StartupBounded ==
    Spec => [](TimeLeft \in 0 .. Longest.mode + LongestAfter.mode)
<1> DEFINE Bound == TimeLeft \in 0 .. Longest.mode + LongestAfter.mode
<1>1. LongestAfter.mode \in Nat /\ Longest.mode + LongestAfter.mode \in Nat
  BY Times
<1>2. Init => Bound
  <2> SUFFICES ASSUME Init PROVE Bound
    OBVIOUS
  <2>1. TypeOK /\ ~waiting
    BY BasicInit DEF BasicInv, Init
  <2>2. TimeLeft \in Nat
    BY <2>1, TimeLeftIs
  <2>3. CASE SetMode
    <3>1. task = "mode" /\ phase = "check"
      BY <2>3, FirstTask
    <3>2. TimeLeft = StatusWait + ModeSettle + StatusWait + LongestAfter["mode"]
      BY <2>1, <3>1, TimeLeftIs
    <3> QED BY <1>1, <2>2, <2>3, <3>2, Times
  <2>4. CASE ~SetMode
    <3>1. /\ task = After("mode") /\ phase = FirstPhase(task)
      BY <2>4 DEF Init
    <3>2. CASE task = "stand"
      <4>1. AutoStand /\ phase = "request"
        BY <3>1, <3>2, AfterIs DEF FirstPhase
      <4>2. TimeLeft = StandSettle + StatusWait + LongestAfter["stand"]
        BY <2>1, <3>2, <4>1, TimeLeftIs
      <4> QED BY <1>1, <2>2, <4>1, <4>2, Times
    <3>3. CASE task = "gait"
      <4>1. GaitOnStart >= 0 /\ phase = "request"
        BY <3>1, <3>3, AfterIs DEF FirstPhase
      <4>2. TimeLeft = ModeSettle + StatusWait + LongestAfter["gait"]
        BY <2>1, <3>3, <4>1, TimeLeftIs
      <4> QED BY <1>1, <2>2, <4>1, <4>2, Times
    <3>4. CASE task = "final"
      <4>1. phase = "readback"
        BY <3>1, <3>4 DEF FirstPhase
      <4>2. TimeLeft = StatusWait + LongestAfter["final"]
        BY <2>1, <3>4, <4>1, TimeLeftIs
      <4> QED BY <1>1, <2>2, <4>2, Times
    <3> QED BY <3>1, <3>2, <3>3, <3>4, AfterIs
  <2> QED BY <2>3, <2>4
<1>3. Bound /\ TimeInv /\ TimeInv' /\ [Next]_vars => Bound'
  <2> SUFFICES ASSUME Bound, TimeInv, TimeInv', [Next]_vars PROVE Bound'
    OBVIOUS
  <2>1. UNCHANGED <<Longest, LongestAfter>>
    BY DEF Longest, LongestAfter
  <2>2. TimeLeft' \in Nat
    BY TimeLeftNext DEF TimeInv, BasicInv
  <2>3. TimeLeft' <= TimeLeft
    <3>1. CASE Next
      BY <3>1, TimeLeftFalls DEF TimeInv, BasicInv, OnTime
    <3>2. CASE UNCHANGED vars
      <4>1. TimeLeft' = TimeLeft
        BY <3>2 DEF vars, main_vars, TimeLeft, LongestAfter, Longest
      <4> QED BY <2>2, <4>1
    <3> QED BY <3>1, <3>2
  <2> QED BY <1>1, <2>1, <2>2, <2>3
<1> QED BY <1>2, <1>3, TimeInvariance, PTL DEF Spec
=============================================================================
