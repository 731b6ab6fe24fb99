-------------------------------- MODULE Apdu --------------------------------
(***************************************************************************)
(* The packets of the protocol: a header of fixed size and an ASDU, with   *)
(* the length and the message id in two bytes each, low byte first         *)
(* (UdpProtocol.h).  The four sync bytes count as one; the header fields   *)
(* that are constant and that decodeApdu does not read are left out.       *)
(***************************************************************************)
EXTENDS Integers, Sequences

CONSTANT Byte       \* the number of values of a byte: 256

ASSUME ByteAssumption == Byte \in Nat /\ Byte >= 2

Limit == Byte * Byte

kSync == <<"sync", 0>>
kFormatXml == 0
kFormatJson == 1
kHeaderSize == 6

Low(n) == n % Byte
High(n) == n \div Byte

\* Mutant of encodeApdu: the message id in network order.
encodeApduBigEndian(msg_id, asdu_json) ==
    IF Len(asdu_json) >= Limit THEN <<>>
    ELSE <<kSync, Low(Len(asdu_json)), High(Len(asdu_json)), High(msg_id), Low(msg_id), kFormatJson>>
         \o asdu_json

encodeApdu(msg_id, asdu_json) ==
    IF Len(asdu_json) >= Limit THEN <<>>
    ELSE <<kSync, Low(Len(asdu_json)), High(Len(asdu_json)), Low(msg_id), High(msg_id), kFormatJson>>
         \o asdu_json

Declared(data) == data[2] + Byte * data[3]

\* decodeApdu returns false.
Malformed(data) ==
    \/ Len(data) < kHeaderSize
    \/ data[1] # kSync
    \/ Len(data) < kHeaderSize + Declared(data)

decodeApdu(data) ==
    [ msg_id |-> data[4] + Byte * data[5],
      format |-> data[6],
      asdu_json |-> SubSeq(data, kHeaderSize + 1, kHeaderSize + Declared(data)) ]
=============================================================================
