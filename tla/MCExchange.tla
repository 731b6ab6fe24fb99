----------------------------- MODULE MCExchange -----------------------------
(***************************************************************************)
(* The ASDUs of the check: reports in order, with a field missing or of    *)
(* another type, with groups of two reports, and one beyond the buffer.    *)
(* Sizes stay below 4, the scaled 65536, and the buffer takes a header and *)
(* two bytes.                                                              *)
(***************************************************************************)
EXTENDS Exchange

TwoBytesAndHeader == kHeaderSize + 2

Asdu(size, items) ==
    [size |-> size,
     root |-> Obj([PatrolDevice |-> Obj([Type |-> Num(0), Command |-> Num(0), Items |-> items])])]

Walking == [MotionState |-> Num(17), Gait |-> Num(1), HES |-> Num(0),
            ControlUsageMode |-> Num(0), Sleep |-> Flag(0)]
EStopped == [Walking EXCEPT !.HES = Flag(1), !.Sleep = Num(0)]
Without(field) == [name \in DOMAIN Walking \ {field} |-> Walking[name]]

All(schema, value) == Obj([name \in DOMAIN schema |-> value])
Battery == Obj([Voltage |-> Num(50), BatteryLevel |-> Num(90),
                battery_temperature |-> Num(30), charge |-> Flag(0)])
Soc == All(SocSchema, Num(1))
Temperatures == Obj([Motor |-> Arr(<<Num(1), Num(2)>>), Driver |-> Arr(<<Num(3)>>)])
Nav == Obj([name \in DOMAIN NavSchema |-> IF name = "Name" THEN Text ELSE Num(0)])

SomeAsdus ==
    [ axis |-> Asdu(3, Obj([X |-> Num(0)])),
      heartbeat |-> Asdu(1, Obj(<<>>)),
      response |-> Asdu(1, Obj([ErrorCode |-> Num(0)])),
      walking |-> Asdu(2, Obj([BasicStatus |-> Obj(Walking)])),
      \* Two groups, one of them of another report.
      stopped |-> Asdu(1, Obj([ErrorList |-> Arr(<<Text>>), BasicStatus |-> Obj(EStopped)])),
      sleepless |-> Asdu(1, Obj([BasicStatus |-> Obj(Without("Sleep"))])),
      long |-> Asdu(3, Obj([BasicStatus |-> Obj(Walking)])),
      \* Batteries beside a motion status, and the fields of neither.
      odd_motion |-> Asdu(2, Obj([MotionStatus |-> Obj([LinearX |-> Text]),
                                  BatteryList |-> Arr(<<Battery>>)])),
      device |-> Asdu(2, Obj([BatteryList |-> Arr(<<Battery, Battery>>),
                              DeviceTemperature |-> Temperatures,
                              DevEnable |-> All(EnableSchema, Text),
                              CPU |-> Obj([AOS |-> Soc, NOS |-> Soc])])),
      location |-> Asdu(2, Obj([LocationStatus |-> All(LocationSchema, Text), NavStatus |-> Nav])) ]

Unsolicited == DOMAIN SomeAsdus \ {"axis", "heartbeat", "response"}

\* A report without its end, an XML one, and one that declares a byte less than
\* it carries.
Packet(name) == encodeApdu(0, TextOf(name))
SomeNoise ==
    { SubSeq(Packet("long"), 1, kHeaderSize + 1),
      [Packet("walking") EXCEPT ![6] = kFormatXml],
      [Packet("long") EXCEPT ![2] = Low(2), ![3] = High(2)] }
=============================================================================
