------------------------------ MODULE Exchange ------------------------------
(***************************************************************************)
(* Requests and reports: the two threads that send number their requests   *)
(* from one counter, the robot answers and reports, and the receive thread *)
(* decodes, dispatches and stores (CmdVelBridge.cpp:175-599).              *)
(*                                                                         *)
(* Between two calls of receive() the receive thread works on locals and   *)
(* stores under one lock at most, so a datagram is one step; a round whose *)
(* receive() returned nothing or an error changes nothing.  Ages of        *)
(* reports and the locks of the cache are ControlLoop's, the end of the    *)
(* loop is Lifecycle's.                                                    *)
(***************************************************************************)
EXTENDS Apdu, Asdu, FiniteSets

CONSTANTS
    Asdus,      \* the ASDUs there can be: name -> [size, root]
    Reports,    \* the names of those the robot sends by itself
    Noise,      \* datagrams that carry no whole ASDU
    BufLen,     \* the size of receiveLoop's buffer: 8192
    MaxFlight,  \* bound: datagrams at once, on their way up or in the inbox
    Window      \* how many requests are numbered while one is under way

ASSUME WindowAssumption == Window \in 1 .. Limit - 1
ASSUME AsduAssumption ==
    /\ {"axis", "heartbeat", "response"} \subseteq DOMAIN Asdus /\ "none" \notin DOMAIN Asdus
    /\ \A name \in DOMAIN Asdus : Asdus[name].size \in Nat \ {0}
    /\ Asdus["response"].size < Limit
    /\ Reports \subseteq DOMAIN Asdus
ASSUME BufferAssumption == BufLen \in Nat /\ BufLen \in kHeaderSize .. kHeaderSize + Limit - 1

None == [kind |-> "null", val |-> 0]

\* An ASDU as bytes: the i-th byte of its text.
TextOf(name) == [i \in 1 .. Asdus[name].size |-> <<name, i>>]

\* A packet of an ASDU with anything in its header and any part of its end
\* missing, but not the packet itself, whatever its message id.
Damaged(bytes, name) ==
    /\ Len(bytes) \in 0 .. kHeaderSize + Asdus[name].size
    /\ bytes = [i \in 1 .. Len(bytes) |-> bytes[i]]
    /\ \A i \in kHeaderSize + 1 .. Len(bytes) : bytes[i] = TextOf(name)[i - kHeaderSize]
    /\ Len(bytes) >= kHeaderSize =>
          /\ {bytes[2], bytes[3]} \subseteq 0 .. Byte - 1
          /\ ~ /\ Len(bytes) = kHeaderSize + Asdus[name].size
               /\ bytes[1] = kSync /\ Declared(bytes) = Asdus[name].size /\ bytes[6] = kFormatJson
ASSUME NoiseAssumption == \A bytes \in Noise : \E name \in DOMAIN Asdus : Damaged(bytes, name)

\* The numbers of a BasicStatus fit an int.
ASSUME NumberAssumption ==
    \A name \in DOMAIN Asdus :
        Complete(Asdus[name].root) /\ contains(ItemsOf(Asdus[name].root), "BasicStatus") =>
            \A field \in GateFields :
                LET status == ItemsOf(Asdus[name].root).of["BasicStatus"]
                IN  contains(status, field) /\ get(status.of[field], "int") =>
                        status.of[field].val \in Int

\* What the readers iterate over is of the kind they expect.
ASSUME ContainerAssumption ==
    \A name \in {n \in DOMAIN Asdus : Complete(Asdus[n].root)} :
        LET items == ItemsOf(Asdus[name].root)
        IN  /\ contains(items, "BatteryList") =>
                  LET list == items.of["BatteryList"].of
                  IN  Len(list) \in Nat /\ DOMAIN list = 1 .. Len(list)
            /\ contains(items, "CPU") =>
                  items.of["CPU"].kind = "object" /\ DOMAIN items.of["CPU"].of \subseteq Range(Hosts)

VARIABLES
    dtls,           \* use_dtls_
    next_msg_id,    \* next_msg_id_
    msg_id,         \* the id a sending thread has taken, or none
    up,             \* requests on their way to the robot
    inbox,          \* datagrams that have reached the socket, the first in front
    pending,        \* the rest of a DTLS record the buffer was too short for
    basic,          \* last_basic_status_, the fields of the gate
    device,         \* last_device_status_
    location_nav,   \* last_location_nav_status_
    motion          \* the Items last published raw, and whether as a twist too

sending == <<next_msg_id, msg_id>>
caches == <<basic, device, location_nav, motion>>
vars == <<dtls, sending, up, inbox, pending, caches>>

\* The spin thread sends axis commands, the heartbeat thread heartbeats.
Threads == {"axis", "heartbeat"}
NoId == -1

Init ==
    /\ dtls \in BOOLEAN
    /\ next_msg_id = 0 /\ msg_id = [t \in Threads |-> NoId]
    /\ up = {} /\ inbox = <<>> /\ pending = <<>>
    /\ basic = None /\ device = None /\ location_nav = None /\ motion = None

-----------------------------------------------------------------------------
\* Requests.

\* Requests from the moment they have an id until their answer has arrived.
UnderWay ==
    { [at |-> "thread", from |-> t, id |-> msg_id[t]] : t \in {u \in Threads : msg_id[u] # NoId} }
    \cup { [at |-> "up", from |-> p.from, id |-> p.id] : p \in up }
    \cup { [at |-> "inbox", from |-> inbox[i].from, id |-> inbox[i].id] :
              i \in {j \in DOMAIN inbox : inbox[j].from \in Threads} }

\* The network delivers or loses a request before Window more are numbered.
Timely == \A r \in UnderWay : (next_msg_id - r.id) % Limit < Window

\* Mutant of nextMsgId: without msg_id_mutex_ an increment can be lost.
nextMsgIdUnlocked(t) ==
    /\ msg_id[t] = NoId /\ Timely
    /\ msg_id' = [msg_id EXCEPT ![t] = next_msg_id]
    /\ next_msg_id' \in {next_msg_id, (next_msg_id + 1) % Limit}
    /\ UNCHANGED <<dtls, up, inbox, pending, caches>>

\* Mutant of nextMsgId: a wider counter, which does not wrap around.
nextMsgIdWide(t) ==
    /\ msg_id[t] = NoId /\ Timely
    /\ msg_id' = [msg_id EXCEPT ![t] = next_msg_id]
    /\ next_msg_id' = next_msg_id + 1
    /\ UNCHANGED <<dtls, up, inbox, pending, caches>>

\* nextMsgId, under msg_id_mutex_.
nextMsgId(t) ==
    /\ msg_id[t] = NoId /\ Timely
    /\ msg_id' = [msg_id EXCEPT ![t] = next_msg_id]
    /\ next_msg_id' = (next_msg_id + 1) % Limit
    /\ UNCHANGED <<dtls, up, inbox, pending, caches>>

\* The rest of sendRequest, with no lock: the other thread's packet may leave
\* first.  An id is spent whether or not the send succeeds.
sendRequest(t, sent) ==
    /\ msg_id[t] # NoId
    /\ LET packet == encodeApdu(msg_id[t], TextOf(t))
       IN  IF packet # <<>> /\ sent
           THEN /\ Cardinality(up) + Len(inbox) < MaxFlight
                /\ up' = up \cup {[from |-> t, id |-> msg_id[t], bytes |-> packet]}
           ELSE UNCHANGED up
    /\ msg_id' = [msg_id EXCEPT ![t] = NoId]
    /\ UNCHANGED <<dtls, next_msg_id, inbox, pending, caches>>

\* The robot answers with the id it finds in the request.
Answer(p) ==
    /\ up' = up \ {p}
    /\ \/ inbox' = Append(inbox,
             [from |-> p.from, asdu |-> "response", id |-> p.id,
              bytes |-> encodeApdu(decodeApdu(p.bytes).msg_id, TextOf("response"))])
       \/ UNCHANGED inbox
    /\ UNCHANGED <<dtls, sending, pending, caches>>

-----------------------------------------------------------------------------
\* Reports.  Whatever the network delays, loses or puts in another order, it
\* does before the socket queues what arrives.

Send(asdu, id, bytes) ==
    /\ Cardinality(up) + Len(inbox) < MaxFlight
    /\ inbox' = Append(inbox, [from |-> "robot", asdu |-> asdu, id |-> id, bytes |-> bytes])
    /\ UNCHANGED <<dtls, sending, up, pending, caches>>
Report(name) == Send(name, 0, encodeApdu(0, TextOf(name)))
Disturb(bytes) == Send("none", NoId, bytes)

\* json::parse: the text of an ASDU, whole, or an exception; a JSON object
\* without its last byte is none.
parse(text) ==
    IF \E name \in DOMAIN Asdus : text = TextOf(name)
    THEN Asdus[CHOOSE name \in DOMAIN Asdus : text = TextOf(name)].root
    ELSE NotJson

handleBasicStatus(items) ==
    basic' = IF Reads(items.of["BasicStatus"], BasicSchema)
             THEN GateFieldsOf(items.of["BasicStatus"]) ELSE basic

\* The raw text goes out first, whatever can be read of it.
handleMotionStatus(items) ==
    motion' = [raw |-> items, twist |-> ReadsMotion(items)]

\* handleAsdu.  handleAbnormalStatus and handleGenericResponse log and change
\* nothing.
handleAsdu(root) ==
    \E handler \in {IF Complete(root) THEN Handler(ItemsOf(root)) ELSE {}} :
        /\ IF "BasicStatus" \in handler THEN handleBasicStatus(ItemsOf(root)) ELSE UNCHANGED basic
        /\ IF "MotionStatus" \in handler THEN handleMotionStatus(ItemsOf(root)) ELSE UNCHANGED motion
        /\ device' = IF "BatteryList" \in handler THEN DeviceStatus(ItemsOf(root)) ELSE device
        /\ location_nav' = IF "NavStatus" \in handler
                           THEN LocationNavStatus(ItemsOf(root)) ELSE location_nav

InBuffer(bytes) == SubSeq(bytes, 1, IF Len(bytes) < BufLen THEN Len(bytes) ELSE BufLen)
\* Mutant of Rest: the whole record stays.
RestWhole(bytes) == IF Len(bytes) > BufLen THEN bytes ELSE <<>>
Rest(bytes) == SubSeq(bytes, BufLen + 1, Len(bytes))

\* What one round of receiveLoop does with the bytes in its buffer.
Handle(bytes) ==
    IF Malformed(bytes) THEN UNCHANGED caches
    ELSE \E apdu \in {decodeApdu(bytes)} :
            IF apdu.format = kFormatJson
            THEN \E root \in {parse(apdu.asdu_json)} : handleAsdu(root)
            ELSE UNCHANGED caches

\* receive takes the first datagram of the queue: recv drops what the buffer
\* does not hold, SSL_read keeps it.
Receive ==
    /\ pending = <<>> /\ inbox # <<>>
    /\ inbox' = Tail(inbox)
    /\ pending' = IF dtls THEN Rest(Head(inbox).bytes) ELSE <<>>
    /\ Handle(InBuffer(Head(inbox).bytes))
    /\ UNCHANGED <<dtls, sending, up>>

ReceivePending ==
    /\ pending # <<>>
    /\ pending' = Rest(pending)
    /\ Handle(InBuffer(pending))
    /\ UNCHANGED <<dtls, sending, up, inbox>>

ReceiveLoop == Receive \/ ReceivePending

Next ==
    \/ \E t \in Threads : nextMsgId(t) \/ \E sent \in BOOLEAN : sendRequest(t, sent)
    \/ \E p \in up : Answer(p)
    \/ \E name \in Reports : Report(name)
    \/ \E bytes \in Noise : Disturb(bytes)
    \/ ReceiveLoop

Spec == Init /\ [][Next]_vars

\* What a step of ReceiveLoop, and no other, does to the socket; TLC finds it
\* easier to see whether it is enabled.
SomethingReceived ==
    \/ /\ pending = <<>> /\ inbox # <<>>
       /\ inbox' = Tail(inbox) /\ pending' \in {<<>>, Rest(Head(inbox).bytes)}
    \/ pending # <<>> /\ pending' = Rest(pending) /\ UNCHANGED inbox

(* The receive thread is scheduled. *)
FairSpec == Spec /\ WF_<<inbox, pending>>(SomethingReceived)

-----------------------------------------------------------------------------
TypeOK ==
    /\ dtls \in BOOLEAN
    /\ next_msg_id \in 0 .. Limit - 1
    /\ msg_id \in [Threads -> {NoId} \cup 0 .. Limit - 1]
    /\ \A p \in up : p.from \in Threads /\ ~Malformed(p.bytes)
    /\ pending # <<>> => dtls
    /\ basic = None \/ basic \in [GateFields -> Int]

(* No two requests under way carry the same id, so an answer names its
   request: the heartbeat thread and the spin thread draw ids concurrently,
   send them in either order, and the ids wrap around
   (CmdVelBridge.cpp:570-599, UdpProtocol.h:37-39). *)
IdsUnique == \A r, s \in UnderWay : r.id = s.id => r = s

(* Both ends read what the other wrote, id and text: the robot finds in a
   request the id and the command it was numbered and sent with, and the node
   in an answer the id of its request, and in a report its whole text.  A
   datagram with a damaged header or its end missing, one that declares less
   than it carries included, passes for no report, and neither does what the
   buffer leaves in the DTLS session (UdpProtocol.h:75-123,
   CmdVelBridge.cpp:175-208). *)
DecodedAsSent ==
    /\ \A p \in up :
          decodeApdu(p.bytes) = [msg_id |-> p.id, format |-> kFormatJson, asdu_json |-> TextOf(p.from)]
    /\ \A i \in DOMAIN inbox :
          LET d == inbox[i]
              apdu == decodeApdu(InBuffer(d.bytes))
          IN  ~Malformed(InBuffer(d.bytes)) =>
                 IF d.asdu \in DOMAIN Asdus
                 THEN apdu = [msg_id |-> d.id, format |-> kFormatJson, asdu_json |-> TextOf(d.asdu)]
                 ELSE apdu.format = kFormatJson => parse(apdu.asdu_json) = NotJson
    /\ pending # <<>> => Malformed(InBuffer(pending))

\* What the properties call a report fit for the gate, apart from the code
\* that looks for it: a short enough packet with the two header fields and
\* the five fields of BasicStatus, whatever Type it has and whatever else it
\* carries.
Whole(name) == kHeaderSize + Asdus[name].size <= BufLen
Carries(name, group) == Complete(Asdus[name].root) /\ contains(ItemsOf(Asdus[name].root), group)
FitForGate(name) ==
    /\ Whole(name) /\ Carries(name, "BasicStatus")
    /\ LET status == ItemsOf(Asdus[name].root).of["BasicStatus"]
       IN  \A field \in {"MotionState", "Gait", "HES", "ControlUsageMode", "Sleep"} :
              /\ status.kind = "object" /\ field \in DOMAIN status.of
              /\ status.of[field].kind \in {"number", "boolean"}

\* What the step takes from the front of the queue, if anything.
Taken == IF Len(inbox') < Len(inbox) THEN Head(inbox).asdu ELSE "none"

FollowsRobot ==
    LET name == Taken
    IN  basic' = IF name \in DOMAIN Asdus /\ FitForGate(name)
                 THEN GateFieldsOf(ItemsOf(Asdus[name].root).of["BasicStatus"]) ELSE basic

(* The gate sees what the robot says and nothing else: a report fit for the
   gate always replaces the stored status, faults and display groups beside
   it notwithstanding, and no other datagram touches it: not a response, not a
   report with a field missing, not one cut off
   (CmdVelBridge.cpp:234-271, 317-347). *)
GateFollowsRobot == [][FollowsRobot]_vars

\* What DisplayFollowsRobot calls a group in order, apart from the readers: the
\* fields it must have, and the kinds of JSON value they must be.
Has(group, fields, kinds) ==
    /\ group.kind = "object" /\ fields \subseteq DOMAIN group.of
    /\ \A field \in fields : group.of[field].kind \in kinds
IntKinds == {"number", "boolean"}
DoubleKinds == {"number"}
InOrder(name, group) ==
    CASE name = "BatteryList" ->
            \A i \in DOMAIN group.of :
                Has(group.of[i], {"Voltage", "BatteryLevel", "battery_temperature"}, DoubleKinds)
                /\ Has(group.of[i], {"charge"}, {"boolean"})
      [] name = "DeviceTemperature" ->
            /\ group.kind = "object" /\ {"Motor", "Driver"} \subseteq DOMAIN group.of
            /\ \A part \in {"Motor", "Driver"} : \A i \in DOMAIN group.of[part].of :
                  group.of[part].of[i].kind \in DoubleKinds
      [] name = "DevEnable" -> Has(group, {"Lidar", "Video"}, IntKinds)
      [] name = "CPU" ->
            \A host \in DOMAIN group.of : Has(group.of[host], {"AvgUtil", "PackageTemp"}, IntKinds)
      [] name = "LocationStatus" ->
            Has(group, {"Location", "Relocation"}, IntKinds)
            /\ Has(group, {"Confidence", "PosX", "PosY", "PosZ", "Roll", "Pitch", "Yaw"}, DoubleKinds)
      [] name = "NavStatus" ->
            Has(group, {"Value", "Status", "ErrorCode", "LoopCnt", "RemainingCnt"}, IntKinds)
            /\ Has(group, {"Name"}, {"string"})

\* A report that arrives whole has one of the groups, and none of those
\* whose handlers go before.
Selects(name, groups, before) ==
    /\ name \in DOMAIN Asdus /\ Whole(name)
    /\ \E group \in groups : Carries(name, group)
    /\ \A group \in before : ~Carries(name, group)
ForMotion(name) == Selects(name, {"MotionStatus"}, {"BasicStatus", "ErrorList"})
ForDevice(name) == Selects(name, {"BatteryList", "DeviceTemperature"},
                           {"BasicStatus", "ErrorList", "MotionStatus"})
ForLocation(name) ==
    Selects(name, {"LocationStatus", "NavStatus"},
            {"BasicStatus", "ErrorList", "MotionStatus", "BatteryList", "DeviceTemperature"})

ShowsGroups(items) ==
    LET Good(group) == contains(items, group) /\ InOrder(group, items.of[group])
    IN  /\ device'.has_temperature <=> Good("DeviceTemperature")
        /\ device'.has_dev_enable <=> Good("DevEnable")
        /\ Good("BatteryList") => device'.batteries = Len(items.of["BatteryList"].of)
        /\ ~contains(items, "BatteryList") => device'.batteries = 0
        /\ Good("CPU") => device'.cpus = Cardinality(DOMAIN items.of["CPU"].of)
        /\ ~contains(items, "CPU") => device'.cpus = 0
ShowsPlace(items) ==
    LET Good(group) == contains(items, group) /\ InOrder(group, items.of[group])
    IN  /\ location_nav'.has_location <=> Good("LocationStatus")
        /\ location_nav'.has_nav <=> Good("NavStatus")

ShowsRobot ==
    LET name == Taken
        items == ItemsOf(Asdus[name].root)
    IN  /\ IF ForMotion(name) THEN motion'.raw = items ELSE UNCHANGED motion
        /\ IF ForDevice(name) THEN ShowsGroups(items) ELSE UNCHANGED device
        /\ IF ForLocation(name) THEN ShowsPlace(items) ELSE UNCHANGED location_nav

(* The display follows the robot group by group: a device or location report
   that arrives whole shows each group it has in order, whatever is wrong with
   the groups beside it, shows none that it does not have or that is not in
   order, a raw motion status goes out even if its fields are not understood,
   and no other datagram changes what is shown (CmdVelBridge.cpp:247-258,
   349-496, CmdVelBridge.h:78-82).  What is kept of a list with a bad entry is
   left open. *)
DisplayFollowsRobot == [][ShowsRobot]_vars

(* Damaged datagrams, packets too long for the buffer and the rest of a record
   never keep the receive thread from what is queued behind them: a report fit
   for the gate that has reached the socket is stored
   (CmdVelBridge.cpp:175-197). *)
ReportsGetThrough ==
    \A name \in {n \in Reports : FitForGate(n)} :
        (\E i \in DOMAIN inbox : inbox[i].asdu = name)
            ~> basic = GateFieldsOf(ItemsOf(Asdus[name].root).of["BasicStatus"])
=============================================================================
