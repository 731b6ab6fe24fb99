-------------------------------- MODULE Asdu --------------------------------
(***************************************************************************)
(* What the node reads out of a parsed ASDU: the dispatch of handleAsdu on *)
(* the groups of Items, and the readers of the status reports              *)
(* (CmdVelBridge.cpp:199-547).                                             *)
(*                                                                         *)
(* A JSON value is a record: Obj and Arr hold values, the others a number. *)
(* A field is described by the C++ type the code asks for, and a schema    *)
(* maps the fields a reader insists on to their types.                     *)
(***************************************************************************)
EXTENDS Integers, FiniteSets, SequencesExt

Obj(fields) == [kind |-> "object", of |-> fields]
Arr(elements) == [kind |-> "array", of |-> elements]
Num(n) == [kind |-> "number", val |-> n]
Flag(n) == [kind |-> "boolean", val |-> n]     \* false is 0, true is 1
Text == [kind |-> "string", val |-> 0]
NotJson == [kind |-> "discarded", val |-> 0]

\* json::contains, false unless j is an object.
contains(j, name) == j.kind = "object" /\ name \in DOMAIN j.of

\* The kinds get<T>() converts; it throws on the others.  get<int>() takes a
\* boolean as 0 or 1.
Converts == [ int |-> {"number", "boolean"}, double |-> {"number"},
              bool |-> {"boolean"}, text |-> {"string"} ]
get(j, type) == j.kind \in Converts[type]

\* Every at() and get() of the fields of a schema succeeds.
Reads(j, schema) ==
    \A name \in DOMAIN schema : contains(j, name) /\ get(j.of[name], schema[name])

\* How many elements a loop reads before one of them makes it throw.
ReadPrefix(elements, schema) ==
    CHOOSE n \in 0 .. Len(elements) :
        /\ \A i \in 1 .. n : Reads(elements[i], schema)
        /\ n < Len(elements) => ~Reads(elements[n + 1], schema)

-----------------------------------------------------------------------------
\* handleAsdu.

\* PatrolDevice carries what every ASDU must; Items may be anything.
Complete(root) ==
    /\ contains(root, "PatrolDevice")
    /\ Reads(root.of["PatrolDevice"], [Type |-> "int", Command |-> "int"])
    /\ contains(root.of["PatrolDevice"], "Items")

ItemsOf(root) == root.of["PatrolDevice"].of["Items"]

\* Mutant of Branches: faults first.
BranchesFaultsFirst ==
    << {"ErrorList"}, {"BasicStatus"}, {"MotionStatus"}, {"DeviceTemperature", "BatteryList"},
       {"LocationStatus", "NavStatus"}, {"ErrorCode"} >>

\* The groups that select each handler, in the order they are looked for.
Branches ==
    << {"BasicStatus"}, {"ErrorList"}, {"MotionStatus"}, {"DeviceTemperature", "BatteryList"},
       {"LocationStatus", "NavStatus"}, {"ErrorCode"} >>

\* Which handler is called; {} is a report nobody recognises.
Handler(items) ==
    LET taken == SelectInSeq(Branches, LAMBDA g : \E name \in g : contains(items, name))
    IN  IF taken = 0 THEN {} ELSE Branches[taken]

-----------------------------------------------------------------------------
\* handleBasicStatus.

GateFields == {"MotionState", "Gait", "HES", "ControlUsageMode"}

\* The four fields of the gate, and Sleep as a boolean or a number.
BasicSchema == [name \in GateFields \cup {"Sleep"} |-> "int"]

GateFieldsOf(group) == [name \in GateFields |-> group.of[name].val]

-----------------------------------------------------------------------------
\* handleDeviceStatus and handleLocationNavStatus: each group for itself.

BatterySchema == [ Voltage |-> "double", BatteryLevel |-> "double",
                   battery_temperature |-> "double", charge |-> "bool" ]
EnableSchema == [ Lidar |-> "int", Video |-> "int" ]
SocSchema == [ AvgUtil |-> "int", PackageTemp |-> "int" ]
LocationSchema ==
    [ Location |-> "int", Relocation |-> "int", Confidence |-> "double", PosX |-> "double",
      PosY |-> "double", PosZ |-> "double", Roll |-> "double", Pitch |-> "double", Yaw |-> "double" ]
NavSchema ==
    [ Value |-> "int", Status |-> "int", ErrorCode |-> "int", LoopCnt |-> "int",
      RemainingCnt |-> "int", Name |-> "text" ]

\* parseStatusGroup: the group is there and its parser has not thrown.
Group(items, name, schema) == contains(items, name) /\ Reads(items.of[name], schema)

\* The temperatures maxOf goes through are numbers.
ReadsTemperatures(items) ==
    /\ contains(items, "DeviceTemperature")
    /\ LET group == items.of["DeviceTemperature"]
       IN  \A part \in {"Motor", "Driver"} :
              contains(group, part) /\ \A v \in Range(group.of[part].of) : get(v, "double")

Batteries(items) ==
    IF contains(items, "BatteryList")
    THEN ReadPrefix(items.of["BatteryList"].of, BatterySchema) ELSE 0

\* The hosts the CPU group can have, in the order of their names, which is the
\* order they are read in.
Hosts == <<"AOS", "GOS", "NOS">>

\* The hosts read before one of them makes it throw.
Socs(items) ==
    IF contains(items, "CPU")
    THEN LET cpu == items.of["CPU"]
             There(i) == contains(cpu, Hosts[i])
         IN  Cardinality({i \in DOMAIN Hosts :
                 There(i) /\ \A j \in 1 .. i : There(j) => Reads(cpu.of[Hosts[j]], SocSchema)})
    ELSE 0

\* Mutant of DeviceStatus: what one group throws ends them all.
DeviceStatusWhole(items) ==
    IF Group(items, "DevEnable", EnableSchema) /\ ReadsTemperatures(items)
    THEN [ batteries |-> Batteries(items), has_temperature |-> TRUE,
           has_dev_enable |-> TRUE, cpus |-> Socs(items) ]
    ELSE [ batteries |-> 0, has_temperature |-> FALSE, has_dev_enable |-> FALSE, cpus |-> 0 ]

DeviceStatus(items) ==
    [ batteries |-> Batteries(items),
      has_temperature |-> ReadsTemperatures(items),
      has_dev_enable |-> Group(items, "DevEnable", EnableSchema),
      cpus |-> Socs(items) ]

LocationNavStatus(items) ==
    [ has_location |-> Group(items, "LocationStatus", LocationSchema),
      has_nav |-> Group(items, "NavStatus", NavSchema) ]

-----------------------------------------------------------------------------
\* handleMotionStatus: OmegaZ, or Body.OmegaZ where the guide has it.
ReadsMotion(items) ==
    LET group == items.of["MotionStatus"]
    IN  /\ Reads(group, [LinearX |-> "double", LinearY |-> "double"])
        /\ \/ Reads(group, [OmegaZ |-> "double"])
           \/ /\ ~contains(group, "OmegaZ") /\ contains(group, "Body")
              /\ Reads(group.of["Body"], [OmegaZ |-> "double"])
=============================================================================
