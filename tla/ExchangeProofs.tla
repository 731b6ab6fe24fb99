---------------------------- MODULE ExchangeProofs --------------------------
(***************************************************************************)
(* Theorems about Exchange: the codec for packets of any size and bytes of *)
(* any number of values, the message ids of requests, what is read of what *)
(* arrives, and what of it reaches the gate and the display.               *)
(***************************************************************************)
EXTENDS Exchange, SequenceTheorems, FiniteSetTheorems, TLAPS

-----------------------------------------------------------------------------
\* A set of natural numbers has a least one: induction, where a CHOOSE or a
\* loop stops at the first index of its kind.
LEMMA LeastNumber ==
    ASSUME NEW S, S \subseteq Nat, S # {}
    PROVE  \E m \in S : \A k \in S : m <= k
<1> DEFINE R == OpToRel(<, Nat)
<1>1. IsWellFoundedOn(R, Nat)
  BY NatLessThanWellFounded, Zenon
<1>2. \A x, y \in Nat : y < x => <<y, x>> \in R
  BY Zenon DEF OpToRel
<1> HIDE DEF R
<1>3. PICK m \in S : \A y \in S : ~(<<y, m>> \in R)
  BY <1>1, WFMin
<1>4. \A k \in S : m <= k
  <2> SUFFICES ASSUME NEW k \in S PROVE m <= k
    OBVIOUS
  <2>1. ~(k < m)
    BY <1>2, <1>3
  <2> QED BY <2>1
<1> QED BY <1>4

-----------------------------------------------------------------------------
\* The codec.

\* The two bytes of a number below Limit give it back.
LEMMA TwoBytes ==
    /\ Byte \in Nat /\ Byte >= 2 /\ Limit \in Nat /\ Limit >= 4
    /\ \A n \in 0 .. Limit - 1 : Low(n) \in Nat /\ High(n) \in Nat /\ Low(n) + Byte * High(n) = n
<1>1. Byte \in Nat /\ Byte >= 2
  BY ByteAssumption
<1>2. Limit \in Nat /\ Limit >= 4
  <2>1. Byte * Byte \in Nat /\ Byte * Byte >= 4
    BY <1>1
  <2> QED BY <2>1 DEF Limit
<1>3. ASSUME NEW n \in 0 .. Limit - 1
      PROVE  Low(n) \in Nat /\ High(n) \in Nat /\ Low(n) + Byte * High(n) = n
  <2>1. n \in Nat
    BY <1>2
  <2>2. n % Byte \in Nat /\ n \div Byte \in Nat /\ n = Byte * (n \div Byte) + (n % Byte)
    BY <1>1, <2>1
  <2> QED BY <1>1, <2>2 DEF Low, High
<1> QED BY <1>1, <1>2, <1>3

\* The bytes of a packet.
LEMMA PacketBytes ==
    ASSUME NEW id \in 0 .. Limit - 1, NEW S, NEW text \in Seq(S), Len(text) < Limit
    PROVE  LET data == encodeApdu(id, text)
           IN  /\ \E T : data \in Seq(T)
               /\ Len(data) = kHeaderSize + Len(text)
               /\ DOMAIN data = 1 .. kHeaderSize + Len(text)
               /\ data[1] = kSync
               /\ data[2] = Low(Len(text)) /\ data[3] = High(Len(text))
               /\ data[4] = Low(id) /\ data[5] = High(id) /\ data[6] = kFormatJson
               /\ \A i \in 1 .. Len(text) : data[kHeaderSize + i] = text[i]
<1> DEFINE header == <<kSync, Low(Len(text)), High(Len(text)), Low(id), High(id), kFormatJson>>
           All == {kSync, Low(Len(text)), High(Len(text)), Low(id), High(id), kFormatJson} \cup S
<1>1. encodeApdu(id, text) = header \o text
  <2>1. Len(text) \in Nat /\ Limit \in Nat
    BY TwoBytes, LenProperties
  <2>2. ~(Len(text) >= Limit)
    BY <2>1
  <2> QED BY <2>2 DEF encodeApdu
<1>2. header \in Seq(All) /\ text \in Seq(All) /\ Len(header) = 6
  <2>1. text \in Seq(All)
    BY SeqMonotonic
  <2> QED BY <2>1
<1>3. /\ header[1] = kSync /\ header[2] = Low(Len(text)) /\ header[3] = High(Len(text))
      /\ header[4] = Low(id) /\ header[5] = High(id) /\ header[6] = kFormatJson
  OBVIOUS
<1> HIDE DEF header
<1> HIDE DEF All
<1>4. /\ header \o text \in Seq(All)
      /\ Len(header \o text) = 6 + Len(text)
      /\ \A i \in 1 .. 6 : (header \o text)[i] = header[i]
      /\ \A i \in 1 .. Len(text) : (header \o text)[6 + i] = text[i]
      /\ DOMAIN (header \o text) = 1 .. 6 + Len(text)
  <2>1. Len(text) \in Nat
    BY LenProperties
  <2>2. /\ header \o text \in Seq(All) /\ Len(header \o text) = 6 + Len(text)
        /\ \A i \in 1 .. 6 + Len(text) : (header \o text)[i] =
                     IF i <= 6 THEN header[i] ELSE text[i - 6]
    <3>1. /\ header \o text \in Seq(All) /\ Len(header \o text) = Len(header) + Len(text)
          /\ \A i \in 1 .. Len(header) + Len(text) : (header \o text)[i] =
                     IF i <= Len(header) THEN header[i] ELSE text[i - Len(header)]
      BY <1>2, ConcatProperties
    <3> QED BY <1>2, <3>1
  <2>3. DOMAIN (header \o text) = 1 .. 6 + Len(text)
    BY <2>2, LenProperties
  <2> QED BY <2>1, <2>2, <2>3
<1> QED BY <1>1, <1>3, <1>4 DEF kHeaderSize

(* decodeApdu inverts encodeApdu, for every id of two bytes and every ASDU
   that fits two length bytes (UdpProtocol.h:75-123). *)
THEOREM CodecInverse ==
    ASSUME NEW id \in 0 .. Limit - 1, NEW S, NEW text \in Seq(S), Len(text) < Limit
    PROVE  /\ ~Malformed(encodeApdu(id, text))
           /\ decodeApdu(encodeApdu(id, text)) =
                 [msg_id |-> id, format |-> kFormatJson, asdu_json |-> text]
<1> DEFINE data == encodeApdu(id, text)
<1>1. /\ Len(data) = kHeaderSize + Len(text) /\ DOMAIN data = 1 .. kHeaderSize + Len(text)
      /\ data[1] = kSync
      /\ data[2] = Low(Len(text)) /\ data[3] = High(Len(text))
      /\ data[4] = Low(id) /\ data[5] = High(id) /\ data[6] = kFormatJson
      /\ \A i \in 1 .. Len(text) : data[kHeaderSize + i] = text[i]
  BY PacketBytes
<1> HIDE DEF data
<1>2. Len(text) \in 0 .. Limit - 1
  BY TwoBytes, LenProperties
<1>3. Declared(data) = Len(text) /\ data[4] + Byte * data[5] = id
  BY <1>1, <1>2, TwoBytes DEF Declared
<1>4. ~Malformed(data)
  BY <1>1, <1>2, <1>3 DEF Malformed, kHeaderSize
<1>5. SubSeq(data, kHeaderSize + 1, kHeaderSize + Len(text)) = text
  <2> DEFINE s == SubSeq(data, kHeaderSize + 1, kHeaderSize + Len(text))
  <2>1. \A i \in 7 .. 6 + Len(text) : data[i] = text[i - 6] /\ text[i - 6] \in S
    <3> SUFFICES ASSUME NEW i \in 7 .. 6 + Len(text)
                 PROVE  data[i] = text[i - 6] /\ text[i - 6] \in S
      OBVIOUS
    <3>1. i - 6 \in 1 .. Len(text) /\ 6 + (i - 6) = i
      BY <1>2
    <3> QED BY <1>1, <3>1, ElementOfSeq DEF kHeaderSize
  <2>2. /\ s \in Seq(S) /\ Len(s) = Len(text)
        /\ \A i \in 1 .. Len(text) : s[i] = data[6 + i]
    <3>1. /\ s = SubSeq(data, 7, 6 + Len(text)) /\ 6 + Len(text) \in Int
          /\ (IF 7 <= 6 + Len(text) THEN 6 + Len(text) - 7 + 1 ELSE 0) = Len(text)
          /\ 6 + Len(text) - 7 + 1 = Len(text)
      BY <1>2 DEF kHeaderSize
    <3>2. \A i \in 7 .. 6 + Len(text) : data[i] \in S
      BY <2>1
    <3> HIDE DEF s
    <3>3. /\ s \in Seq(S) /\ Len(s) = Len(text)
          /\ \A i \in 1 .. 6 + Len(text) - 7 + 1 : s[i] = data[7 + i - 1]
      BY <3>1, <3>2, SubSeqProperties
    <3> QED BY <1>2, <3>1, <3>3
  <2>3. \A i \in 1 .. Len(s) : s[i] = text[i]
    BY <1>1, <2>2 DEF kHeaderSize
  <2> QED BY <2>2, <2>3, SeqEqual
<1>6. decodeApdu(data) = [msg_id |-> id, format |-> kFormatJson, asdu_json |-> text]
  BY <1>1, <1>3, <1>5 DEF decodeApdu
<1> QED BY <1>4, <1>6 DEF data

(* A packet of which the end is missing is rejected, wherever it was cut, and
   never read beyond its last byte (UdpProtocol.h:104-118). *)
THEOREM CutPacketRejected ==
    ASSUME NEW id \in 0 .. Limit - 1, NEW S, NEW text \in Seq(S), Len(text) < Limit,
           NEW n \in 0 .. kHeaderSize + Len(text) - 1
    PROVE  Malformed(SubSeq(encodeApdu(id, text), 1, n))
<1> DEFINE data == encodeApdu(id, text)
           cut == SubSeq(data, 1, n)
<1>1. /\ Len(data) = kHeaderSize + Len(text) /\ DOMAIN data = 1 .. kHeaderSize + Len(text)
      /\ data[2] = Low(Len(text)) /\ data[3] = High(Len(text))
  BY PacketBytes
<1>2. Len(text) \in 0 .. Limit - 1
  BY TwoBytes, LenProperties
<1> HIDE DEF data, cut
<1>3. Len(cut) = n /\ \A i \in 1 .. n : cut[i] = data[i]
  <2>1. n \in Nat /\ n <= Len(data) /\ \A i \in 1 .. n : i \in 1 .. Len(data)
    BY <1>1, <1>2 DEF kHeaderSize
  <2>2. \A i \in 1 .. n : data[i] \in {data[j] : j \in 1 .. Len(data)}
    BY <2>1
  <2> QED BY <2>1, <2>2, SubSeqProperties DEF cut
<1>4. ASSUME n < kHeaderSize PROVE Malformed(cut)
  BY <1>3, <1>4 DEF Malformed
<1>5. ASSUME n >= kHeaderSize PROVE Malformed(cut)
  <2>1. cut[2] = data[2] /\ cut[3] = data[3]
    BY <1>3, <1>5 DEF kHeaderSize
  <2>2. Declared(cut) = Len(text)
    BY <1>1, <1>2, <2>1, TwoBytes DEF Declared
  <2>3. Len(cut) < kHeaderSize + Declared(cut)
    BY <1>2, <1>3, <2>2 DEF kHeaderSize
  <2> QED BY <2>3 DEF Malformed
<1>6. Malformed(cut)
  BY <1>2, <1>4, <1>5 DEF kHeaderSize
<1> QED BY <1>6 DEF cut, data

-----------------------------------------------------------------------------
\* Texts.

TextBytes == {<<name, i>> : name \in DOMAIN Asdus, i \in Nat \ {0}}

LEMMA TextType ==
    ASSUME NEW name \in DOMAIN Asdus
    PROVE  TextOf(name) \in Seq(TextBytes) /\ Len(TextOf(name)) = Asdus[name].size
<1> DEFINE text == TextOf(name)
           n == Asdus[name].size
<1>1. n \in Nat
  BY AsduAssumption
<1>2. text \in [1 .. n -> TextBytes] /\ DOMAIN text = 1 .. n
  BY <1>1 DEF TextOf, TextBytes
<1> HIDE DEF text, n
<1>3. text \in Seq(TextBytes)
  BY <1>1, <1>2, SeqDef
<1>4. Len(text) \in Nat /\ 1 .. Len(text) = 1 .. n
  BY <1>2, <1>3, LenProperties
<1>5. Len(text) = n
  BY <1>1, <1>4
<1> QED BY <1>3, <1>5 DEF text, n

\* No byte of a text can be taken for the start of a packet.
LEMMA TextIsNoSync == kSync \notin TextBytes
<1> SUFFICES ASSUME NEW name, NEW i \in Nat \ {0}, kSync = <<name, i>>
             PROVE  FALSE
  BY DEF TextBytes
<1>1. kSync[2] = 0 /\ <<name, i>>[2] = i
  BY DEF kSync
<1> QED BY <1>1

LEMMA Oversize ==
    ASSUME NEW id, NEW name \in DOMAIN Asdus, ~(Asdus[name].size < Limit)
    PROVE  encodeApdu(id, TextOf(name)) = <<>>
<1>1. Len(TextOf(name)) = Asdus[name].size /\ Asdus[name].size \in Nat
  BY TextType, AsduAssumption
<1>2. Len(TextOf(name)) >= Limit
  BY <1>1, TwoBytes
<1> QED BY <1>2 DEF encodeApdu

-----------------------------------------------------------------------------
\* Message ids: the inductive invariant.

Ids == 0 .. Limit - 1

\* What is on its way was encoded with an id from the counter.
IsRequest(p) ==
    /\ p.from \in Threads /\ p.id \in Ids /\ Asdus[p.from].size < Limit
    /\ p = [from |-> p.from, id |-> p.id, bytes |-> encodeApdu(p.id, TextOf(p.from))]

\* What can be queued: answers, reports, and what was damaged.
Response(t, id) ==
    [from |-> t, asdu |-> "response", id |-> id, bytes |-> encodeApdu(id, TextOf("response"))]
ReportOf(name) ==
    [from |-> "robot", asdu |-> name, id |-> 0, bytes |-> encodeApdu(0, TextOf(name))]
Disturbance(bytes) == [from |-> "robot", asdu |-> "none", id |-> NoId, bytes |-> bytes]
Datagrams ==
    { Response(t, id) : t \in Threads, id \in Ids }
    \cup { ReportOf(name) : name \in Reports }
    \cup { Disturbance(bytes) : bytes \in Noise }

IdsOK ==
    /\ next_msg_id \in Ids
    /\ msg_id \in [Threads -> {NoId} \cup Ids]
    /\ \A p \in up : IsRequest(p)
    /\ inbox \in Seq(Datagrams)

\* The next id is not one under way.
NextIsNew == \A r \in UnderWay : r.id \in Ids /\ r.id # next_msg_id

IInv == IdsOK /\ NextIsNew /\ IdsUnique

-----------------------------------------------------------------------------
LEMMA Facts ==
    /\ Limit \in Nat /\ Limit >= 4 /\ Window \in Nat /\ Window <= Limit - 1
    /\ Threads = {"axis", "heartbeat"} /\ Threads \subseteq DOMAIN Asdus
    /\ "response" \in DOMAIN Asdus /\ Asdus["response"].size < Limit
    /\ 0 \in Ids /\ NoId \notin Ids
<1>1. Limit \in Nat /\ Limit >= 4
  BY TwoBytes
<1>2. Window \in Nat /\ Window <= Limit - 1
  BY <1>1, WindowAssumption
<1>3. Threads = {"axis", "heartbeat"} /\ 0 \in Ids /\ NoId \notin Ids
  BY <1>1 DEF Threads, NoId, Ids
<1>4. /\ Threads \subseteq DOMAIN Asdus
      /\ "response" \in DOMAIN Asdus /\ Asdus["response"].size < Limit
  BY <1>3, AsduAssumption
<1> QED BY <1>1, <1>2, <1>3, <1>4

\* A packet is read as it was written.
LEMMA PacketRead ==
    ASSUME NEW name \in DOMAIN Asdus, Asdus[name].size < Limit, NEW id \in Ids
    PROVE  /\ ~Malformed(encodeApdu(id, TextOf(name)))
           /\ decodeApdu(encodeApdu(id, TextOf(name))) =
                 [msg_id |-> id, format |-> kFormatJson, asdu_json |-> TextOf(name)]
<1>1. TextOf(name) \in Seq(TextBytes) /\ Len(TextOf(name)) < Limit
  BY TextType
<1> QED BY <1>1, CodecInverse DEF Ids

LEMMA RequestRead ==
    ASSUME NEW p, IsRequest(p)
    PROVE  /\ ~Malformed(p.bytes)
           /\ decodeApdu(p.bytes) =
                 [msg_id |-> p.id, format |-> kFormatJson, asdu_json |-> TextOf(p.from)]
<1>1. p.bytes = encodeApdu(p.id, TextOf(p.from)) /\ p.from \in DOMAIN Asdus
  BY Facts DEF IsRequest
<1> QED BY <1>1, PacketRead DEF IsRequest

\* Where a request under way can be.
LEMMA UnderWayAt ==
    \A r : r \in UnderWay <=>
        \/ \E u \in Threads : msg_id[u] # NoId /\ r = [at |-> "thread", from |-> u, id |-> msg_id[u]]
        \/ \E p \in up : r = [at |-> "up", from |-> p.from, id |-> p.id]
        \/ \E i \in DOMAIN inbox :
              /\ inbox[i].from \in Threads
              /\ r = [at |-> "inbox", from |-> inbox[i].from, id |-> inbox[i].id]
BY DEF UnderWay

\* Appending to the queue or taking from it brings in nothing else.
LEMMA Queued ==
    ASSUME NEW d \in Datagrams, inbox \in Seq(Datagrams), inbox' = Append(inbox, d)
    PROVE  /\ inbox' \in Seq(Datagrams)
           /\ \A i \in DOMAIN inbox' : inbox'[i] = d \/ \E j \in DOMAIN inbox : inbox'[i] = inbox[j]
<1>1. /\ Append(inbox, d) \in Seq(Datagrams) /\ Len(Append(inbox, d)) = Len(inbox) + 1
      /\ \A i \in 1 .. Len(inbox) : Append(inbox, d)[i] = inbox[i]
      /\ Append(inbox, d)[Len(inbox) + 1] = d
  BY AppendProperties
<1>2. /\ DOMAIN inbox = 1 .. Len(inbox) /\ Len(inbox) \in Nat
      /\ DOMAIN Append(inbox, d) = 1 .. Len(inbox) + 1
  BY <1>1, LenProperties
<1> QED BY <1>1, <1>2

LEMMA Dequeued ==
    ASSUME inbox \in Seq(Datagrams), inbox # <<>>, inbox' = Tail(inbox)
    PROVE  /\ Head(inbox) \in Datagrams /\ inbox' \in Seq(Datagrams) /\ Len(inbox') < Len(inbox)
           /\ \A i \in DOMAIN inbox' : \E j \in DOMAIN inbox : inbox'[i] = inbox[j]
<1>1. /\ Head(inbox) \in Datagrams /\ Tail(inbox) \in Seq(Datagrams)
      /\ Len(Tail(inbox)) = Len(inbox) - 1
      /\ \A i \in 1 .. Len(Tail(inbox)) : Tail(inbox)[i] = inbox[i + 1]
  BY HeadTailProperties
<1>2. /\ DOMAIN inbox = 1 .. Len(inbox) /\ Len(inbox) \in Nat
      /\ DOMAIN Tail(inbox) = 1 .. Len(inbox) - 1
  BY <1>1, LenProperties
<1>3. \A i \in 1 .. Len(inbox) - 1 : i + 1 \in 1 .. Len(inbox)
  BY <1>2
<1> QED BY <1>1, <1>2, <1>3

\* A step after which no request is under way that was not before.
LEMMA FewerUnderWay ==
    ASSUME NextIsNew, IdsUnique, UnderWay' \subseteq UnderWay, next_msg_id' = next_msg_id
    PROVE  NextIsNew' /\ IdsUnique'
BY DEF NextIsNew, IdsUnique

\* A step after which a request is somewhere else, with its id.
LEMMA Moved ==
    ASSUME NextIsNew, IdsUnique, next_msg_id' = next_msg_id,
           NEW r \in UnderWay, NEW s, s.id = r.id,
           UnderWay' \subseteq (UnderWay \ {r}) \cup {s}
    PROVE  NextIsNew' /\ IdsUnique'
BY DEF NextIsNew, IdsUnique

\* The counter does not run into an id that is less than Window old.
LEMMA NotCaughtUp ==
    ASSUME NEW n \in Ids, NEW id \in Ids, id # n, (n - id) % Limit < Window
    PROVE  (n + 1) % Limit \in Ids /\ id # (n + 1) % Limit
<1>1. n \in Nat /\ id \in Nat /\ n <= Limit - 1 /\ id <= Limit - 1
  BY Facts DEF Ids
<1>2. CASE n = Limit - 1
  <2>1. (n + 1) % Limit = 0
    BY <1>2, Facts
  <2>2. ASSUME id = 0 PROVE FALSE
    <3>1. (n - id) % Limit = n
      BY <1>1, <1>2, <2>2, Facts
    <3> QED BY <1>2, <3>1, Facts
  <2> QED BY <2>1, <2>2, Facts DEF Ids
<1>3. CASE n < Limit - 1
  <2>1. (n + 1) % Limit = n + 1 /\ n + 1 \in Ids
    BY <1>1, <1>3, Facts DEF Ids
  <2>2. ASSUME id = n + 1 PROVE FALSE
    <3>1. n - id = -1
      BY <1>1, <2>2
    <3>2. (-1) % Limit = Limit - 1
      BY Facts
    <3> QED BY <3>1, <3>2, Facts
  <2> QED BY <2>1, <2>2
<1> QED BY <1>1, <1>2, <1>3, Facts

-----------------------------------------------------------------------------
LEMMA InvInit == Init => IInv
<1> SUFFICES ASSUME Init PROVE IInv
  OBVIOUS
<1>1. IdsOK
  BY Facts, EmptySeq DEF Init, IdsOK, Ids
<1>2. UnderWay = {}
  BY DEF Init, UnderWay
<1> QED BY <1>1, <1>2 DEF IInv, NextIsNew, IdsUnique

LEMMA NextMsgIdStep ==
    ASSUME IInv, NEW t \in Threads, nextMsgId(t)
    PROVE  IInv'
<1>1. /\ msg_id[t] = NoId /\ msg_id' = [msg_id EXCEPT ![t] = next_msg_id]
      /\ next_msg_id' = (next_msg_id + 1) % Limit
      /\ up' = up /\ inbox' = inbox
  BY DEF nextMsgId
<1>2. ASSUME NEW r \in UnderWay
      PROVE  r.id \in Ids /\ r.id # next_msg_id /\ next_msg_id' \in Ids /\ r.id # next_msg_id'
  <2>1. r.id \in Ids /\ r.id # next_msg_id /\ next_msg_id \in Ids
    BY DEF IInv, IdsOK, NextIsNew
  <2>2. (next_msg_id - r.id) % Limit < Window
    BY DEF nextMsgId, Timely
  <2> QED BY <1>1, <2>1, <2>2, NotCaughtUp
<1>3. next_msg_id' \in Ids /\ next_msg_id # next_msg_id'
  <2>1. next_msg_id \in Nat /\ next_msg_id <= Limit - 1
    BY Facts DEF IInv, IdsOK, Ids
  <2>2. CASE next_msg_id = Limit - 1
    BY <1>1, <2>2, Facts DEF Ids
  <2>3. CASE next_msg_id < Limit - 1
    <3>1. next_msg_id' = next_msg_id + 1
      BY <1>1, <2>1, <2>3, Facts
    <3> QED BY <2>1, <2>3, <3>1, Facts DEF Ids
  <2> QED BY <2>1, <2>2, <2>3, Facts
<1>4. IdsOK'
  BY <1>1, <1>3 DEF IInv, IdsOK, IsRequest
<1> DEFINE new == [at |-> "thread", from |-> t, id |-> next_msg_id]
<1>5. UnderWay' \subseteq UnderWay \cup {new}
  <2> SUFFICES ASSUME NEW r \in UnderWay' PROVE r \in UnderWay \cup {new}
    OBVIOUS
  <2>1. ASSUME NEW u \in Threads, msg_id'[u] # NoId,
               r = [at |-> "thread", from |-> u, id |-> msg_id'[u]]
        PROVE  r \in UnderWay \cup {new}
    BY <1>1, <2>1, UnderWayAt DEF IInv, IdsOK
  <2>2. ASSUME NEW p \in up, r = [at |-> "up", from |-> p.from, id |-> p.id]
        PROVE  r \in UnderWay
    BY <2>2, UnderWayAt
  <2>3. ASSUME NEW i \in DOMAIN inbox, inbox[i].from \in Threads,
               r = [at |-> "inbox", from |-> inbox[i].from, id |-> inbox[i].id]
        PROVE  r \in UnderWay
    BY <2>3, UnderWayAt
  <2> QED BY <1>1, <2>1, <2>2, <2>3 DEF UnderWay
<1>6. new.id = next_msg_id /\ next_msg_id \in Ids
  BY DEF IInv, IdsOK
<1> HIDE DEF new
<1>7. NextIsNew'
  BY <1>2, <1>3, <1>5, <1>6 DEF NextIsNew
<1>8. IdsUnique'
  BY <1>2, <1>5, <1>6 DEF IInv, IdsUnique
<1> QED BY <1>4, <1>7, <1>8 DEF IInv

LEMMA SendRequestStep ==
    ASSUME IInv, NEW t \in Threads, NEW sent \in BOOLEAN, sendRequest(t, sent)
    PROVE  IInv'
<1> DEFINE id == msg_id[t]
           packet == encodeApdu(id, TextOf(t))
           p0 == [from |-> t, id |-> id, bytes |-> packet]
           old == [at |-> "thread", from |-> t, id |-> id]
           new == [at |-> "up", from |-> t, id |-> id]
<1>1. /\ msg_id[t] # NoId /\ msg_id' = [msg_id EXCEPT ![t] = NoId]
      /\ next_msg_id' = next_msg_id /\ inbox' = inbox
      /\ up' = up \/ (packet # <<>> /\ up' = up \cup {p0})
  BY DEF sendRequest
<1>2. id \in Ids /\ old \in UnderWay /\ old.id = id /\ new.id = id
  BY <1>1, UnderWayAt DEF IInv, IdsOK
<1>3. packet # <<>> => Asdus[t].size < Limit
  <2>1. t \in DOMAIN Asdus
    BY Facts
  <2> QED BY <2>1, Oversize
<1>4. IdsOK'
  <2>1. msg_id' \in [Threads -> {NoId} \cup Ids]
    BY <1>1 DEF IInv, IdsOK
  <2>2. packet # <<>> => IsRequest(p0)
    BY <1>2, <1>3 DEF IsRequest
  <2> HIDE DEF p0
  <2>3. \A p \in up' : IsRequest(p)
    BY <1>1, <2>2 DEF IInv, IdsOK
  <2> QED BY <1>1, <2>1, <2>3 DEF IInv, IdsOK, IsRequest
<1>5. UnderWay' \subseteq (UnderWay \ {old}) \cup {new}
  <2> SUFFICES ASSUME NEW r \in UnderWay' PROVE r \in (UnderWay \ {old}) \cup {new}
    OBVIOUS
  <2>1. ASSUME NEW u \in Threads, msg_id'[u] # NoId,
               r = [at |-> "thread", from |-> u, id |-> msg_id'[u]]
        PROVE  r \in UnderWay \ {old}
    <3>1. u # t /\ msg_id'[u] = msg_id[u]
      BY <1>1, <2>1 DEF IInv, IdsOK
    <3>2. r.from = u /\ old.from = t
      BY <2>1
    <3>3. r # old
      BY <3>1, <3>2
    <3> QED BY <2>1, <3>1, <3>3, UnderWayAt
  <2>2. ASSUME NEW p \in up', r = [at |-> "up", from |-> p.from, id |-> p.id]
        PROVE  r \in (UnderWay \ {old}) \cup {new}
    <3>1. r.at = "up" /\ old.at = "thread"
      BY <2>2
    <3>2. CASE p \in up
      BY <2>2, <3>1, <3>2, UnderWayAt
    <3>3. CASE p = p0
      BY <2>2, <3>3
    <3> QED BY <1>1, <3>2, <3>3
  <2>3. ASSUME NEW i \in DOMAIN inbox, inbox[i].from \in Threads,
               r = [at |-> "inbox", from |-> inbox[i].from, id |-> inbox[i].id]
        PROVE  r \in UnderWay \ {old}
    <3>1. r.at = "inbox" /\ old.at = "thread"
      BY <2>3
    <3> QED BY <2>3, <3>1, UnderWayAt
  <2> QED BY <1>1, <2>1, <2>2, <2>3 DEF UnderWay
<1> HIDE DEF old, new
<1>6. NextIsNew' /\ IdsUnique'
  BY <1>1, <1>2, <1>5, Moved DEF IInv
<1> QED BY <1>4, <1>6 DEF IInv

LEMMA AnswerStep ==
    ASSUME IInv, NEW p \in up, Answer(p)
    PROVE  IInv'
<1> DEFINE reply == Response(p.from, p.id)
           old == [at |-> "up", from |-> p.from, id |-> p.id]
           new == [at |-> "inbox", from |-> p.from, id |-> p.id]
<1>1. IsRequest(p) /\ p.from \in Threads /\ p.id \in Ids
  BY DEF IInv, IdsOK, IsRequest
<1>2. decodeApdu(p.bytes).msg_id = p.id
  <2>1. decodeApdu(p.bytes) = [msg_id |-> p.id, format |-> kFormatJson, asdu_json |-> TextOf(p.from)]
    BY <1>1, RequestRead
  <2> QED BY <2>1
<1>3. /\ up' = up \ {p} /\ (inbox' = Append(inbox, reply) \/ inbox' = inbox)
      /\ msg_id' = msg_id /\ next_msg_id' = next_msg_id
  BY <1>2 DEF Answer, sending, Response
<1>4. old \in UnderWay /\ old.id = p.id /\ new.id = p.id
  BY UnderWayAt
<1>5. reply \in Datagrams /\ reply.from = p.from /\ reply.id = p.id
  BY <1>1 DEF Datagrams, Response
<1> HIDE DEF reply
<1>6. /\ inbox' \in Seq(Datagrams)
      /\ \A i \in DOMAIN inbox' : inbox'[i] = reply \/ \E j \in DOMAIN inbox : inbox'[i] = inbox[j]
  BY <1>3, <1>5, Queued DEF IInv, IdsOK
<1>7. IdsOK'
  BY <1>3, <1>6 DEF IInv, IdsOK, IsRequest
<1>8. UnderWay' \subseteq (UnderWay \ {old}) \cup {new}
  <2> SUFFICES ASSUME NEW r \in UnderWay' PROVE r \in (UnderWay \ {old}) \cup {new}
    OBVIOUS
  <2>1. ASSUME NEW u \in Threads, msg_id[u] # NoId,
               r = [at |-> "thread", from |-> u, id |-> msg_id[u]]
        PROVE  r \in UnderWay \ {old}
    <3>1. r.at = "thread" /\ old.at = "up"
      BY <2>1
    <3> QED BY <2>1, <3>1, UnderWayAt
  <2>2. ASSUME NEW q \in up \ {p}, r = [at |-> "up", from |-> q.from, id |-> q.id]
        PROVE  r \in UnderWay \ {old}
    <3>1. IsRequest(q)
      BY DEF IInv, IdsOK
    <3>2. ASSUME r = old PROVE FALSE
      <4>1. q.from = p.from /\ q.id = p.id
        BY <2>2, <3>2
      <4> QED BY <1>1, <3>1, <4>1 DEF IsRequest
    <3> QED BY <2>2, <3>2, UnderWayAt
  <2>3. ASSUME NEW i \in DOMAIN inbox', inbox'[i].from \in Threads,
               r = [at |-> "inbox", from |-> inbox'[i].from, id |-> inbox'[i].id]
        PROVE  r \in (UnderWay \ {old}) \cup {new}
    <3>1. r.at = "inbox" /\ old.at = "up"
      BY <2>3
    <3>2. ASSUME NEW j \in DOMAIN inbox, inbox'[i] = inbox[j] PROVE r \in UnderWay \ {old}
      BY <2>3, <3>1, <3>2, UnderWayAt
    <3>3. CASE inbox'[i] = reply
      BY <1>5, <2>3, <3>3
    <3> QED BY <1>6, <2>3, <3>2, <3>3
  <2> QED BY <1>3, <2>1, <2>2, <2>3 DEF UnderWay
<1> HIDE DEF old, new
<1>9. NextIsNew' /\ IdsUnique'
  BY <1>3, <1>4, <1>8, Moved DEF IInv
<1> QED BY <1>7, <1>9 DEF IInv

\* The robot's reports and the receive thread leave the requests alone.
LEMMA OtherSteps ==
    ASSUME IInv, UNCHANGED <<sending, up>>, inbox' \in Seq(Datagrams),
           \A i \in DOMAIN inbox' : \/ inbox'[i].from = "robot"
                                    \/ \E j \in DOMAIN inbox : inbox'[i] = inbox[j]
    PROVE  IInv'
<1>1. "robot" \notin Threads
  BY Facts
<1>2. IdsOK'
  BY DEF IInv, IdsOK, IsRequest, sending
<1>3. UnderWay' \subseteq UnderWay
  <2> SUFFICES ASSUME NEW r \in UnderWay' PROVE r \in UnderWay
    OBVIOUS
  <2>1. ASSUME NEW i \in DOMAIN inbox', inbox'[i].from \in Threads,
               r = [at |-> "inbox", from |-> inbox'[i].from, id |-> inbox'[i].id]
        PROVE  r \in UnderWay
    <3>1. PICK j \in DOMAIN inbox : inbox'[i] = inbox[j]
      BY <1>1, <2>1
    <3> QED BY <2>1, <3>1, UnderWayAt
  <2>2. ASSUME NEW u \in Threads, msg_id[u] # NoId,
               r = [at |-> "thread", from |-> u, id |-> msg_id[u]]
        PROVE  r \in UnderWay
    BY <2>2, UnderWayAt
  <2>3. ASSUME NEW q \in up, r = [at |-> "up", from |-> q.from, id |-> q.id]
        PROVE  r \in UnderWay
    BY <2>3, UnderWayAt
  <2> QED BY <2>1, <2>2, <2>3 DEF UnderWay, sending
<1> QED BY <1>2, <1>3, FewerUnderWay DEF IInv, sending

LEMMA SendStep ==
    ASSUME IInv, NEW name, NEW id, NEW bytes, Send(name, id, bytes),
           [from |-> "robot", asdu |-> name, id |-> id, bytes |-> bytes] \in Datagrams
    PROVE  IInv'
<1> DEFINE d == [from |-> "robot", asdu |-> name, id |-> id, bytes |-> bytes]
<1>1. d \in Datagrams /\ d.from = "robot" /\ inbox' = Append(inbox, d) /\ UNCHANGED <<sending, up>>
  BY DEF Send
<1> HIDE DEF d
<1>2. /\ inbox' \in Seq(Datagrams)
      /\ \A i \in DOMAIN inbox' : inbox'[i] = d \/ \E j \in DOMAIN inbox : inbox'[i] = inbox[j]
  BY <1>1, Queued DEF IInv, IdsOK
<1> QED BY <1>1, <1>2, OtherSteps

LEMMA InvNext == IInv /\ [Next]_vars => IInv'
<1> SUFFICES ASSUME IInv, [Next]_vars PROVE IInv'
  OBVIOUS
<1>1. ASSUME NEW name \in Reports, Report(name) PROVE IInv'
  <2>1. ReportOf(name) \in Datagrams
    BY DEF Datagrams
  <2> QED BY <1>1, <2>1, SendStep DEF Report, ReportOf
<1>2. ASSUME NEW bytes \in Noise, Disturb(bytes) PROVE IInv'
  <2>1. Disturbance(bytes) \in Datagrams
    BY DEF Datagrams
  <2> QED BY <1>2, <2>1, SendStep DEF Disturb, Disturbance
<1>3. CASE Receive
  <2>1. /\ inbox' \in Seq(Datagrams)
        /\ \A i \in DOMAIN inbox' : \E j \in DOMAIN inbox : inbox'[i] = inbox[j]
    BY <1>3, Dequeued DEF Receive, IInv, IdsOK
  <2> QED BY <1>3, <2>1, OtherSteps DEF Receive
<1>4. ASSUME UNCHANGED <<sending, up, inbox>> PROVE IInv'
  BY <1>4, OtherSteps DEF IInv, IdsOK
<1>5. ReceivePending \/ UNCHANGED vars => IInv'
  BY <1>4 DEF ReceivePending, vars
<1> QED
  BY <1>1, <1>2, <1>3, <1>5, NextMsgIdStep, SendRequestStep, AnswerStep DEF Next, ReceiveLoop

LEMMA Invariance == Spec => []IInv
BY InvInit, InvNext, PTL DEF Spec

(* No two requests under way carry the same id, for bytes of any number of
   values and any Window the counter has room for: the two sending threads may
   send in either order, lose any packet and wrap around
   (CmdVelBridge.cpp:570-599, UdpProtocol.h:37-39). *)
THEOREM IdsUniqueHolds == Spec => []IdsUnique
<1>1. IInv => IdsUnique
  BY DEF IInv
<1> QED BY <1>1, Invariance, PTL

-----------------------------------------------------------------------------
\* What arrives is what was sent.

\* What the buffer left in the DTLS session is text.
PendingOK == pending \in Seq(TextBytes)

\* What is queued is the packet of an ASDU or damaged.
LEMMA DatagramIs ==
    ASSUME NEW d \in Datagrams
    PROVE  \/ /\ d.asdu \in DOMAIN Asdus /\ d.id \in Ids
              /\ d.bytes = encodeApdu(d.id, TextOf(d.asdu))
           \/ d.asdu = "none" /\ d.asdu \notin DOMAIN Asdus /\ d.bytes \in Noise
<1>1. ASSUME NEW t \in Threads, NEW id \in Ids, d = Response(t, id)
      PROVE  /\ d.asdu \in DOMAIN Asdus /\ d.id \in Ids
             /\ d.bytes = encodeApdu(d.id, TextOf(d.asdu))
  BY <1>1, Facts DEF Response
<1>2. ASSUME NEW name \in Reports, d = ReportOf(name)
      PROVE  /\ d.asdu \in DOMAIN Asdus /\ d.id \in Ids
             /\ d.bytes = encodeApdu(d.id, TextOf(d.asdu))
  BY <1>2, Facts, AsduAssumption DEF ReportOf
<1>3. ASSUME NEW bytes \in Noise, d = Disturbance(bytes)
      PROVE  d.asdu = "none" /\ d.asdu \notin DOMAIN Asdus /\ d.bytes \in Noise
  BY <1>3, AsduAssumption DEF Disturbance
<1> QED BY <1>1, <1>2, <1>3 DEF Datagrams

\* A text is the text of one ASDU.
LEMMA ParseWhole ==
    ASSUME NEW name \in DOMAIN Asdus
    PROVE  parse(TextOf(name)) = Asdus[name].root
<1>1. ASSUME NEW other \in DOMAIN Asdus, TextOf(name) = TextOf(other)
      PROVE  other = name
  <2>1. 1 \in 1 .. Asdus[name].size /\ 1 \in 1 .. Asdus[other].size
    BY AsduAssumption
  <2>2. TextOf(name)[1] = <<name, 1>> /\ TextOf(other)[1] = <<other, 1>>
    BY <2>1 DEF TextOf
  <2>3. <<name, 1>> = <<other, 1>>
    BY <1>1, <2>2
  <2> QED BY <2>3
<1>2. (CHOOSE other \in DOMAIN Asdus : TextOf(name) = TextOf(other)) = name
  BY <1>1
<1> QED BY <1>2 DEF parse

\* What the buffer leaves over of a packet is text.
LEMMA RestIsText ==
    ASSUME NEW name \in DOMAIN Asdus, NEW id \in Ids
    PROVE  Rest(encodeApdu(id, TextOf(name))) \in Seq(TextBytes)
<1> DEFINE text == TextOf(name)
           data == encodeApdu(id, text)
<1>1. text \in Seq(TextBytes) /\ Len(text) \in Nat /\ Len(text) = Asdus[name].size
  BY TextType, LenProperties
<1>2. BufLen \in Nat /\ BufLen >= 6
  BY BufferAssumption DEF kHeaderSize
<1>3. CASE Len(text) < Limit
  <2>1. /\ Len(data) = 6 + Len(text)
        /\ \A i \in 1 .. Len(text) : data[6 + i] = text[i]
    BY <1>1, <1>3, PacketBytes DEF Ids, kHeaderSize
  <2> HIDE DEF data, text
  <2>2. ASSUME NEW i \in BufLen + 1 .. Len(data)
        PROVE  data[i] \in TextBytes
    <3>1. i - 6 \in 1 .. Len(text) /\ 6 + (i - 6) = i
      BY <1>1, <1>2, <2>1
    <3>2. data[i] = text[i - 6]
      BY <2>1, <3>1
    <3> QED BY <1>1, <3>1, <3>2, ElementOfSeq
  <2>3. BufLen + 1 \in Int /\ Len(data) \in Int
    BY <1>1, <1>2, <2>1
  <2> QED BY <2>2, <2>3, SubSeqProperties DEF Rest, data, text
<1>4. CASE ~(Len(text) < Limit)
  <2>1. data = <<>>
    BY <1>1, <1>4, Oversize
  <2>2. BufLen + 1 \in Int /\ Len(<<>>) = 0 /\ 0 < BufLen + 1
    BY <1>2
  <2>3. SubSeq(<<>>, BufLen + 1, 0) = <<>>
    BY <2>2, SubSeqEmpty
  <2> QED BY <2>1, <2>2, <2>3, EmptySeq DEF Rest
<1> QED BY <1>3, <1>4

LEMMA RestOfText ==
    ASSUME NEW bytes \in Seq(TextBytes)
    PROVE  Rest(bytes) \in Seq(TextBytes)
<1>1. BufLen \in Nat /\ Len(bytes) \in Nat
  BY BufferAssumption, LenProperties
<1>2. ASSUME NEW i \in BufLen + 1 .. Len(bytes) PROVE bytes[i] \in TextBytes
  <2>1. i \in 1 .. Len(bytes)
    BY <1>1
  <2> QED BY <2>1, ElementOfSeq
<1>3. BufLen + 1 \in Int /\ Len(bytes) \in Int
  BY <1>1
<1> QED BY <1>2, <1>3, SubSeqProperties DEF Rest

\* A buffer that holds text only is no packet.
LEMMA TextIsMalformed ==
    ASSUME NEW bytes \in Seq(TextBytes), bytes # <<>>
    PROVE  Malformed(InBuffer(bytes))
<1> DEFINE n == IF Len(bytes) < BufLen THEN Len(bytes) ELSE BufLen
<1>1. BufLen \in Nat /\ BufLen >= 6 /\ Len(bytes) \in Nat \ {0}
  BY BufferAssumption, EmptySeq DEF kHeaderSize
<1>2. n \in Nat /\ n >= 1 /\ n <= Len(bytes)
  BY <1>1
<1> HIDE DEF n
<1>3. \A i \in 1 .. n : bytes[i] \in TextBytes
  <2> SUFFICES ASSUME NEW i \in 1 .. n PROVE bytes[i] \in TextBytes
    OBVIOUS
  <2>1. i \in 1 .. Len(bytes)
    BY <1>1, <1>2
  <2> QED BY <2>1, ElementOfSeq
<1>4. /\ \A i \in 1 .. n - 1 + 1 : SubSeq(bytes, 1, n)[i] = bytes[1 + i - 1]
  BY <1>2, <1>3, SubSeqProperties
<1>5. 1 \in 1 .. n - 1 + 1 /\ 1 + 1 - 1 = 1 /\ 1 \in 1 .. n
  BY <1>2
<1>6. SubSeq(bytes, 1, n)[1] \in TextBytes
  BY <1>3, <1>4, <1>5
<1>7. InBuffer(bytes)[1] # kSync
  BY <1>6, TextIsNoSync DEF InBuffer, n
<1> QED BY <1>7 DEF Malformed

\* The buffer takes a packet whole or makes it malformed.
LEMMA InBufferIs ==
    ASSUME NEW name \in DOMAIN Asdus, NEW id \in Ids
    PROVE  LET bytes == InBuffer(encodeApdu(id, TextOf(name)))
           IN  IF Whole(name)
               THEN /\ ~Malformed(bytes)
                    /\ decodeApdu(bytes) =
                          [msg_id |-> id, format |-> kFormatJson, asdu_json |-> TextOf(name)]
               ELSE Malformed(bytes)
<1> DEFINE text == TextOf(name)
           data == encodeApdu(id, text)
           n == IF Len(data) < BufLen THEN Len(data) ELSE BufLen
<1>1. text \in Seq(TextBytes) /\ Len(text) \in Nat /\ Len(text) = Asdus[name].size
  BY TextType, LenProperties
<1>2. BufLen \in Nat /\ BufLen >= 6 /\ Limit \in Nat /\ BufLen < 6 + Limit
  BY BufferAssumption, TwoBytes DEF kHeaderSize
<1>3. Whole(name) <=> 6 + Len(text) <= BufLen
  BY <1>1 DEF Whole, kHeaderSize
<1>4. CASE Len(text) < Limit
  <2>1. Len(data) = 6 + Len(text) /\ \E T : data \in Seq(T)
    BY <1>1, <1>4, PacketBytes DEF Ids, kHeaderSize
  <2>2. /\ ~Malformed(data)
        /\ decodeApdu(data) = [msg_id |-> id, format |-> kFormatJson, asdu_json |-> text]
    BY <1>1, <1>4, CodecInverse DEF Ids
  <2>3. CASE Whole(name)
    <3>1. n = Len(data)
      BY <1>1, <1>2, <1>3, <2>1, <2>3
    <3>2. InBuffer(data) = SubSeq(data, 1, Len(data))
      BY <3>1 DEF InBuffer
    <3> HIDE DEF data, text
    <3>3. InBuffer(data) = data
      <4> PICK T : data \in Seq(T)
        BY <2>1
      <4> QED BY <3>2, SubSeqFull
    <3> QED BY <2>2, <2>3, <3>3 DEF data, text
  <2>4. CASE ~Whole(name)
    <3>1. n \in 0 .. kHeaderSize + Len(text) - 1
      BY <1>1, <1>2, <1>3, <2>1, <2>4 DEF kHeaderSize
    <3> HIDE DEF n
    <3>2. Malformed(SubSeq(data, 1, n))
      BY <1>1, <1>4, <3>1, CutPacketRejected DEF Ids
    <3> QED BY <2>4, <3>2 DEF InBuffer, n
  <2> QED BY <2>3, <2>4
<1>5. CASE ~(Len(text) < Limit)
  <2>1. ~Whole(name)
    BY <1>1, <1>2, <1>3, <1>5
  <2>2. data = <<>>
    BY <1>1, <1>5, Oversize
  <2>3. InBuffer(data) = <<>>
    BY <1>2, <2>2 DEF InBuffer
  <2> QED BY <2>1, <2>3 DEF Malformed, kHeaderSize
<1> QED BY <1>4, <1>5

\* What the buffer holds of a datagram.
LEMMA InBufferAt ==
    ASSUME NEW bytes, Len(bytes) \in Nat, bytes = [i \in 1 .. Len(bytes) |-> bytes[i]]
    PROVE  LET n == IF Len(bytes) < BufLen THEN Len(bytes) ELSE BufLen
           IN  /\ Len(InBuffer(bytes)) = n
               /\ \A i \in 1 .. n : InBuffer(bytes)[i] = bytes[i]
<1> DEFINE n == IF Len(bytes) < BufLen THEN Len(bytes) ELSE BufLen
           S == {bytes[i] : i \in 1 .. Len(bytes)}
<1>1. BufLen \in Nat
  BY BufferAssumption
<1>2. n \in Nat /\ n <= Len(bytes)
  BY <1>1
<1> HIDE DEF n
<1>3. \A i \in 1 .. n : bytes[i] \in S
  BY <1>2
<1> HIDE DEF S
<1>4. /\ Len(SubSeq(bytes, 1, n)) = n
      /\ \A i \in 1 .. n - 1 + 1 : SubSeq(bytes, 1, n)[i] = bytes[1 + i - 1]
  BY <1>2, <1>3, SubSeqProperties
<1>5. n - 1 + 1 = n /\ \A i \in 1 .. n : 1 + i - 1 = i
  BY <1>2
<1>6. Len(SubSeq(bytes, 1, n)) = n /\ \A i \in 1 .. n : SubSeq(bytes, 1, n)[i] = bytes[i]
  BY <1>4, <1>5
<1> QED BY <1>6 DEF InBuffer, n

\* What the buffer leaves over of a damaged packet is text.
LEMMA RestOfNoise ==
    ASSUME NEW bytes \in Noise
    PROVE  Rest(bytes) \in Seq(TextBytes)
<1>1. PICK name \in DOMAIN Asdus : Damaged(bytes, name)
  BY NoiseAssumption
<1>2. /\ Asdus[name].size \in Nat /\ Len(bytes) \in Nat /\ Len(bytes) <= 6 + Asdus[name].size
      /\ \A i \in 6 + 1 .. Len(bytes) : bytes[i] = TextOf(name)[i - 6]
  BY <1>1, AsduAssumption DEF Damaged, kHeaderSize
<1>3. BufLen \in Nat /\ BufLen >= 6
  BY BufferAssumption DEF kHeaderSize
<1>4. TextOf(name) \in Seq(TextBytes) /\ Len(TextOf(name)) = Asdus[name].size
  BY TextType
<1>5. ASSUME NEW i \in BufLen + 1 .. Len(bytes) PROVE bytes[i] \in TextBytes
  <2>1. i \in 6 + 1 .. Len(bytes) /\ i - 6 \in 1 .. Len(TextOf(name))
    BY <1>2, <1>3, <1>4
  <2> QED BY <1>2, <1>4, <2>1, ElementOfSeq
<1>6. BufLen + 1 \in Int /\ Len(bytes) \in Int
  BY <1>2, <1>3
<1> QED BY <1>5, <1>6, SubSeqProperties DEF Rest

\* A damaged packet that decodes yields less than a text, which does not
\* parse.
LEMMA NoiseIsNotJson ==
    ASSUME NEW bytes \in Noise, ~Malformed(InBuffer(bytes)),
           decodeApdu(InBuffer(bytes)).format = kFormatJson
    PROVE  parse(decodeApdu(InBuffer(bytes)).asdu_json) = NotJson
<1>1. PICK name \in DOMAIN Asdus : Damaged(bytes, name)
  BY NoiseAssumption
<1> DEFINE size == Asdus[name].size
           n == IF Len(bytes) < BufLen THEN Len(bytes) ELSE BufLen
           buffer == InBuffer(bytes)
           declared == Declared(buffer)
           text == SubSeq(buffer, 7, 6 + declared)
<1>2. /\ Len(bytes) \in Nat /\ Len(bytes) <= 6 + size /\ size \in Nat
      /\ bytes = [i \in 1 .. Len(bytes) |-> bytes[i]]
      /\ \A i \in 6 + 1 .. Len(bytes) : bytes[i] = TextOf(name)[i - 6]
  BY <1>1, AsduAssumption DEF Damaged, kHeaderSize
<1>3. BufLen \in Nat /\ n \in Nat /\ n <= Len(bytes)
  BY <1>2, BufferAssumption
<1>4. Len(buffer) = n /\ \A i \in 1 .. n : buffer[i] = bytes[i]
  BY <1>2, InBufferAt
<1>5. n >= 6 /\ buffer[1] = kSync /\ n >= 6 + declared /\ buffer[6] = kFormatJson
  <2>1. ~(n < 6) /\ buffer[1] = kSync /\ ~(n < 6 + declared)
    BY <1>4 DEF Malformed, kHeaderSize
  <2>2. buffer[6] = kFormatJson
    BY DEF decodeApdu
  <2>3. declared \in Int
    <3>1. buffer[2] = bytes[2] /\ buffer[3] = bytes[3]
      BY <1>3, <1>4, <2>1
    <3>2. bytes[2] \in Int /\ bytes[3] \in Int
      BY <1>1, <1>2, <1>3, <2>1, TwoBytes DEF Damaged, kHeaderSize
    <3> QED BY <3>1, <3>2, TwoBytes DEF Declared
  <2> QED BY <1>3, <2>1, <2>2, <2>3
<1> HIDE DEF n, buffer
<1>6. declared \in Nat /\ declared = Declared(bytes)
  <2>1. buffer[2] = bytes[2] /\ buffer[3] = bytes[3]
    BY <1>3, <1>4, <1>5
  <2>2. Len(bytes) >= 6
    BY <1>2, <1>3, <1>5
  <2>3. bytes[2] \in 0 .. Byte - 1 /\ bytes[3] \in 0 .. Byte - 1
    BY <1>1, <2>2 DEF Damaged, kHeaderSize
  <2>4. Byte \in Nat /\ bytes[2] \in Nat /\ bytes[3] \in Nat
    BY <2>3, TwoBytes
  <2>5. bytes[2] + Byte * bytes[3] \in Nat
    BY <2>4
  <2> QED BY <2>1, <2>5 DEF Declared
<1> HIDE DEF declared
<1>7. declared # size
  <2> SUFFICES ASSUME declared = size PROVE FALSE
    OBVIOUS
  <2>1. Len(bytes) = 6 + size
    BY <1>2, <1>3, <1>5
  <2>2. bytes[1] = kSync /\ bytes[6] = kFormatJson
    BY <1>3, <1>4, <1>5
  <2>3. Len(bytes) >= 6
    BY <1>2, <2>1
  <2> QED BY <1>1, <1>6, <2>1, <2>2, <2>3 DEF Damaged, kHeaderSize
<1>8. Len(text) = declared /\ \A i \in 1 .. declared : text[i] = <<name, i>>
  <2>1. \A i \in 1 .. declared : buffer[6 + i] = <<name, i>>
    <3> SUFFICES ASSUME NEW i \in 1 .. declared PROVE buffer[6 + i] = <<name, i>>
      OBVIOUS
    <3>1. 6 + i \in 1 .. n /\ 6 + i \in 6 + 1 .. Len(bytes) /\ (6 + i) - 6 = i /\ i \in 1 .. size
      BY <1>2, <1>3, <1>5, <1>6
    <3>2. buffer[6 + i] = TextOf(name)[i]
      BY <1>2, <1>4, <3>1
    <3> QED BY <3>1, <3>2 DEF TextOf
  <2> DEFINE S == {<<name, i>> : i \in 1 .. declared}
  <2>2. \A i \in 7 .. 6 + declared : buffer[i] \in S
    <3> SUFFICES ASSUME NEW i \in 7 .. 6 + declared PROVE buffer[i] \in S
      OBVIOUS
    <3>1. i - 6 \in 1 .. declared /\ 6 + (i - 6) = i
      BY <1>6
    <3> QED BY <2>1, <3>1
  <2> HIDE DEF S
  <2>3. /\ Len(text) = IF 7 <= 6 + declared THEN 6 + declared - 7 + 1 ELSE 0
        /\ \A i \in 1 .. 6 + declared - 7 + 1 : text[i] = buffer[7 + i - 1]
    BY <1>6, <2>2, SubSeqProperties
  <2> HIDE DEF text
  <2> QED BY <1>6, <2>1, <2>3
<1>9. ASSUME NEW other \in DOMAIN Asdus, text = TextOf(other) PROVE FALSE
  <2>1. Len(TextOf(other)) = Asdus[other].size /\ Asdus[other].size \in Nat \ {0}
    BY TextType, AsduAssumption
  <2>2. declared = Asdus[other].size /\ 1 \in 1 .. declared
    BY <1>6, <1>8, <1>9, <2>1
  <2>3. TextOf(other)[1] = <<other, 1>> /\ text[1] = <<name, 1>>
    BY <1>8, <2>2 DEF TextOf
  <2>4. <<other, 1>> = <<name, 1>>
    <3> HIDE DEF text
    <3> QED BY <1>9, <2>3
  <2>5. other = name
    BY <2>4
  <2> QED BY <1>7, <2>2, <2>5
<1>10. decodeApdu(InBuffer(bytes)).asdu_json = text
  <2>1. 6 + 1 = 7
    OBVIOUS
  <2>2. decodeApdu(buffer).asdu_json = SubSeq(buffer, 6 + 1, 6 + Declared(buffer))
    BY DEF decodeApdu, kHeaderSize
  <2> QED BY <2>1, <2>2 DEF buffer, declared
<1> HIDE DEF text
<1> QED BY <1>9, <1>10 DEF parse

LEMMA PendingInit == Init => PendingOK
BY EmptySeq DEF Init, PendingOK

LEMMA PendingNext == IInv /\ PendingOK /\ [Next]_vars => PendingOK'
<1> SUFFICES ASSUME IInv, PendingOK, [Next]_vars PROVE PendingOK'
  OBVIOUS
<1>1. CASE Receive
  <2>1. Head(inbox) \in Datagrams
    BY <1>1, Dequeued DEF Receive, IInv, IdsOK
  <2>2. Rest(Head(inbox).bytes) \in Seq(TextBytes)
    BY <2>1, DatagramIs, RestIsText, RestOfNoise
  <2> QED BY <1>1, <2>2, EmptySeq DEF Receive, PendingOK
<1>2. CASE ReceivePending
  BY <1>2, RestOfText DEF ReceivePending, PendingOK
<1>3. ASSUME UNCHANGED pending PROVE PendingOK'
  BY <1>3 DEF PendingOK
<1>4. ASSUME NEW t \in Threads, nextMsgId(t) \/ \E sent \in BOOLEAN : sendRequest(t, sent)
      PROVE  PendingOK'
  BY <1>3, <1>4 DEF nextMsgId, sendRequest
<1>5. ASSUME NEW p \in up, Answer(p) PROVE PendingOK'
  BY <1>3, <1>5 DEF Answer
<1>6. ASSUME NEW name, NEW id, NEW bytes, Send(name, id, bytes) PROVE PendingOK'
  BY <1>3, <1>6 DEF Send
<1>7. CASE UNCHANGED vars
  BY <1>3, <1>7 DEF vars
<1> QED BY <1>1, <1>2, <1>4, <1>5, <1>6, <1>7 DEF Next, ReceiveLoop, Report, Disturb

LEMMA PendingInvariance == Spec => []PendingOK
BY Invariance, PendingInit, PendingNext, PTL DEF Spec

(* Ids and texts are read as they were written, whatever the buffer cuts off,
   and no packet with a damaged header or its end missing yields an ASDU, for
   texts, buffers and damage of any size (UdpProtocol.h:75-123,
   CmdVelBridge.cpp:175-208). *)
THEOREM DecodedAsSentHolds == Spec => []DecodedAsSent
<1>1. IInv /\ PendingOK => DecodedAsSent
  <2> SUFFICES ASSUME IInv, PendingOK PROVE DecodedAsSent
    OBVIOUS
  <2>1. ASSUME NEW p \in up
        PROVE  decodeApdu(p.bytes) =
                  [msg_id |-> p.id, format |-> kFormatJson, asdu_json |-> TextOf(p.from)]
    BY RequestRead DEF IInv, IdsOK
  <2>2. ASSUME NEW d \in Datagrams, ~Malformed(InBuffer(d.bytes))
        PROVE  IF d.asdu \in DOMAIN Asdus
               THEN decodeApdu(InBuffer(d.bytes)) =
                       [msg_id |-> d.id, format |-> kFormatJson, asdu_json |-> TextOf(d.asdu)]
               ELSE decodeApdu(InBuffer(d.bytes)).format = kFormatJson =>
                       parse(decodeApdu(InBuffer(d.bytes)).asdu_json) = NotJson
    <3>1. CASE /\ d.asdu \in DOMAIN Asdus /\ d.id \in Ids
               /\ d.bytes = encodeApdu(d.id, TextOf(d.asdu))
      BY <2>2, <3>1, InBufferIs
    <3>2. CASE d.asdu \notin DOMAIN Asdus /\ d.bytes \in Noise
      BY <2>2, <3>2, NoiseIsNotJson
    <3> QED BY <3>1, <3>2, DatagramIs
  <2>3. \A i \in DOMAIN inbox : inbox[i] \in Datagrams
    BY LenProperties, ElementOfSeq DEF IInv, IdsOK
  <2>4. pending # <<>> => Malformed(InBuffer(pending))
    BY TextIsMalformed DEF PendingOK
  <2> QED BY <2>1, <2>2, <2>3, <2>4 DEF DecodedAsSent
<1> QED BY <1>1, PendingInvariance, Invariance, PTL

-----------------------------------------------------------------------------
\* The gate sees what the robot says and nothing else.

\* The branch that is taken is the first one whose group is there.
LEMMA HandlerIs ==
    ASSUME NEW items
    PROVE  LET Looks(i) == \E name \in Branches[i] : contains(items, name)
           IN  \/ Handler(items) = {} /\ \A i \in 1 .. Len(Branches) : ~Looks(i)
               \/ \E i \in 1 .. Len(Branches) :
                     /\ Handler(items) = Branches[i] /\ Looks(i)
                     /\ \A j \in 1 .. i - 1 : ~Looks(j)
<1> DEFINE Looks(i) == \E name \in Branches[i] : contains(items, name)
           I == {i \in 1 .. Len(Branches) : Looks(i)}
           first == CHOOSE i \in I : \A j \in I : i =< j
<1>1. Len(Branches) \in Nat
  BY DEF Branches
<1>2. Handler(items) = LET taken == IF I # {} THEN first ELSE 0
                       IN  IF taken = 0 THEN {} ELSE Branches[taken]
  BY DEF Handler, SelectInSeq, Min
<1>3. CASE I = {}
  BY <1>2, <1>3
<1>4. CASE I # {}
  <2>1. I \subseteq Nat
    BY <1>1
  <2>2. \E i \in I : \A j \in I : i =< j
    <3> HIDE DEF I
    <3> QED BY <1>4, <2>1, LeastNumber
  <2>3. first \in I /\ \A j \in I : first =< j
    <3> HIDE DEF I
    <3> QED BY <2>2
  <2> HIDE DEF first
  <2>4. first \in 1 .. Len(Branches) /\ Looks(first)
    BY <2>3
  <2>5. \A j \in 1 .. first - 1 : ~Looks(j)
    <3> SUFFICES ASSUME NEW j \in 1 .. first - 1, Looks(j) PROVE FALSE
      OBVIOUS
    <3>1. j \in 1 .. Len(Branches) /\ ~(first =< j)
      BY <1>1, <2>4
    <3> HIDE DEF Looks
    <3> QED BY <2>3, <3>1
  <2>6. Handler(items) = Branches[first]
    <3> HIDE DEF I
    <3> QED BY <1>1, <1>2, <1>4, <2>4
  <2> QED BY <2>4, <2>5, <2>6
<1> QED BY <1>3, <1>4

\* The first test of handleAsdu decides whether handleBasicStatus is called.
LEMMA HandlerOfStatus ==
    ASSUME NEW items
    PROVE  "BasicStatus" \in Handler(items) <=> contains(items, "BasicStatus")
<1> DEFINE Looks(i) == \E name \in Branches[i] : contains(items, name)
<1>1. /\ Len(Branches) = 6 /\ Branches[1] = {"BasicStatus"}
      /\ \A i \in 2 .. 6 : "BasicStatus" \notin Branches[i]
  BY DEF Branches
<1>2. Looks(1) <=> contains(items, "BasicStatus")
  BY <1>1
<1>3. CASE Handler(items) = {} /\ \A i \in 1 .. Len(Branches) : ~Looks(i)
  <2>1. ~Looks(1)
    BY <1>1, <1>3
  <2> QED BY <1>2, <1>3, <2>1
<1>4. ASSUME NEW i \in 1 .. Len(Branches), Handler(items) = Branches[i], Looks(i),
             \A j \in 1 .. i - 1 : ~Looks(j)
      PROVE  "BasicStatus" \in Handler(items) <=> contains(items, "BasicStatus")
  <2>1. CASE i = 1
    BY <1>1, <1>2, <1>4, <2>1
  <2>2. CASE i \in 2 .. 6
    <3>1. ~Looks(1)
      BY <1>4, <2>2
    <3> QED BY <1>1, <1>2, <1>4, <2>2, <3>1
  <2> QED BY <1>1, <2>1, <2>2
<1> HIDE DEF Looks
<1> QED BY <1>3, <1>4, HandlerIs DEF Looks

\* What is stored of a report is what FitForGate says of it.
LEMMA StatusRead ==
    ASSUME NEW name \in DOMAIN Asdus, Whole(name), handleAsdu(Asdus[name].root)
    PROVE  basic' = IF FitForGate(name)
                    THEN GateFieldsOf(ItemsOf(Asdus[name].root).of["BasicStatus"]) ELSE basic
<1> DEFINE root == Asdus[name].root
           group == ItemsOf(root).of["BasicStatus"]
<1>1. Reads(group, BasicSchema) <=>
         \A field \in {"MotionState", "Gait", "HES", "ControlUsageMode", "Sleep"} :
            /\ group.kind = "object" /\ field \in DOMAIN group.of
            /\ group.of[field].kind \in {"number", "boolean"}
  <2>1. /\ DOMAIN BasicSchema = {"MotionState", "Gait", "HES", "ControlUsageMode", "Sleep"}
        /\ \A field \in DOMAIN BasicSchema : BasicSchema[field] = "int"
    BY DEF BasicSchema, GateFields
  <2>2. Converts["int"] = {"number", "boolean"}
    BY DEF Converts
  <2> HIDE DEF group
  <2> QED BY <2>1, <2>2 DEF Reads, get, contains
<1>2. FitForGate(name) <=>
         Complete(root) /\ contains(ItemsOf(root), "BasicStatus") /\ Reads(group, BasicSchema)
  BY <1>1 DEF FitForGate, Carries
<1>3. CASE ~Complete(root)
  BY <1>2, <1>3 DEF handleAsdu
<1>4. CASE Complete(root)
  <2>1. IF "BasicStatus" \in Handler(ItemsOf(root))
        THEN handleBasicStatus(ItemsOf(root)) ELSE UNCHANGED basic
    BY <1>4 DEF handleAsdu
  <2>2. CASE contains(ItemsOf(root), "BasicStatus")
    <3>1. handleBasicStatus(ItemsOf(root))
      BY <2>1, <2>2, HandlerOfStatus
    <3> QED BY <1>2, <1>4, <2>2, <3>1 DEF handleBasicStatus
  <2>3. CASE ~contains(ItemsOf(root), "BasicStatus")
    BY <1>2, <2>1, <2>3, HandlerOfStatus
  <2> QED BY <2>2, <2>3
<1> QED BY <1>3, <1>4

\* One datagram, from the buffer to handleAsdu: an ASDU that fits is handled,
\* anything else reaches no cache.
LEMMA ReceiveStep ==
    ASSUME NEW d \in Datagrams, Handle(InBuffer(d.bytes))
    PROVE  IF d.asdu \in DOMAIN Asdus /\ Whole(d.asdu)
           THEN handleAsdu(Asdus[d.asdu].root) ELSE UNCHANGED caches
<1>1. CASE /\ d.asdu \in DOMAIN Asdus /\ d.id \in Ids
           /\ d.bytes = encodeApdu(d.id, TextOf(d.asdu))
  <2>1. CASE Whole(d.asdu)
    <3>1. /\ ~Malformed(InBuffer(d.bytes))
          /\ decodeApdu(InBuffer(d.bytes)) =
                [msg_id |-> d.id, format |-> kFormatJson, asdu_json |-> TextOf(d.asdu)]
      BY <1>1, <2>1, InBufferIs
    <3>2. handleAsdu(parse(TextOf(d.asdu)))
      BY <3>1 DEF Handle
    <3>3. handleAsdu(Asdus[d.asdu].root)
      BY <1>1, <3>2, ParseWhole
    <3> QED BY <1>1, <2>1, <3>3
  <2>2. CASE ~Whole(d.asdu)
    <3>1. Malformed(InBuffer(d.bytes))
      BY <1>1, <2>2, InBufferIs
    <3> QED BY <2>2, <3>1 DEF Handle
  <2> QED BY <2>1, <2>2
<1>2. CASE d.asdu \notin DOMAIN Asdus /\ d.bytes \in Noise
  <2> DEFINE apdu == decodeApdu(InBuffer(d.bytes))
  <2>1. CASE Malformed(InBuffer(d.bytes)) \/ apdu.format # kFormatJson
    BY <1>2, <2>1 DEF Handle
  <2>2. CASE ~Malformed(InBuffer(d.bytes)) /\ apdu.format = kFormatJson
    <3>1. handleAsdu(parse(apdu.asdu_json))
      BY <2>2 DEF Handle
    <3>2. handleAsdu(NotJson)
      BY <1>2, <2>2, <3>1, NoiseIsNotJson
    <3>3. ~Complete(NotJson)
      BY DEF NotJson, Complete, contains
    <3>4. UNCHANGED caches
      BY <3>2, <3>3 DEF handleAsdu, caches
    <3> QED BY <1>2, <3>4
  <2> QED BY <2>1, <2>2
<1> QED BY <1>1, <1>2, DatagramIs

\* A step handles the ASDU it takes, if that is one that fits the buffer, and
\* otherwise no cache changes.
LEMMA HandlesTaken ==
    ASSUME IInv, PendingOK, [Next]_vars
    PROVE  IF Taken \in DOMAIN Asdus /\ Whole(Taken)
           THEN handleAsdu(Asdus[Taken].root) ELSE UNCHANGED caches
<1>1. CASE Receive
  <2>1. Head(inbox) \in Datagrams /\ Taken = Head(inbox).asdu
    BY <1>1, Dequeued DEF Receive, IInv, IdsOK, Taken
  <2>2. Handle(InBuffer(Head(inbox).bytes))
    BY <1>1 DEF Receive
  <2> QED BY <2>1, <2>2, ReceiveStep
<1>2. ASSUME UNCHANGED caches, Len(inbox') >= Len(inbox)
      PROVE  UNCHANGED caches /\ Taken \notin DOMAIN Asdus
  <2>1. inbox \in Seq(Datagrams) /\ inbox' \in Seq(Datagrams)
    BY InvNext DEF IInv, IdsOK
  <2>2. Len(inbox) \in Nat /\ Len(inbox') \in Nat
    BY <2>1, LenProperties
  <2>3. Taken = "none"
    BY <1>2, <2>2 DEF Taken
  <2> QED BY <1>2, <2>3, AsduAssumption
<1>3. ASSUME NEW d, inbox' = Append(inbox, d) PROVE Len(inbox') >= Len(inbox)
  <2>1. inbox \in Seq(Datagrams) /\ inbox' \in Seq(Datagrams)
    BY InvNext DEF IInv, IdsOK
  <2>2. Len(inbox) \in Nat
    BY <2>1, LenProperties
  <2>3. Len(Append(inbox, d)) = Len(inbox) + 1
    BY <2>1
  <2> QED BY <1>3, <2>2, <2>3
<1>4. inbox' = inbox => Len(inbox') >= Len(inbox)
  <2>1. Len(inbox) \in Nat
    BY LenProperties DEF IInv, IdsOK
  <2> QED BY <2>1
<1>5. CASE ReceivePending
  <2>1. Malformed(InBuffer(pending))
    BY <1>5, TextIsMalformed DEF PendingOK, ReceivePending
  <2>2. UNCHANGED caches /\ inbox' = inbox
    BY <1>5, <2>1 DEF ReceivePending, Handle
  <2> QED BY <1>2, <1>4, <2>2
<1>6. ASSUME NEW t \in Threads, nextMsgId(t) \/ \E sent \in BOOLEAN : sendRequest(t, sent)
      PROVE  UNCHANGED caches /\ Taken \notin DOMAIN Asdus
  BY <1>2, <1>4, <1>6 DEF nextMsgId, sendRequest
<1>7. ASSUME NEW p \in up, Answer(p) PROVE UNCHANGED caches /\ Taken \notin DOMAIN Asdus
  BY <1>2, <1>3, <1>4, <1>7 DEF Answer
<1>8. ASSUME NEW name, NEW id, NEW bytes, Send(name, id, bytes)
      PROVE  UNCHANGED caches /\ Taken \notin DOMAIN Asdus
  BY <1>2, <1>3, <1>8 DEF Send
<1>9. CASE UNCHANGED vars
  BY <1>2, <1>4, <1>9 DEF vars
<1> QED BY <1>1, <1>5, <1>6, <1>7, <1>8, <1>9 DEF Next, ReceiveLoop, Report, Disturb

(* The stored status follows the robot: a report fit for the gate replaces it,
   whatever else it carries, and nothing else does, whatever the texts, the
   buffer and the damage (CmdVelBridge.cpp:175-347). *)
THEOREM GateFollowsRobotHolds == Spec => GateFollowsRobot
<1>1. IInv /\ PendingOK /\ [Next]_vars => [FollowsRobot]_vars
  <2> SUFFICES ASSUME IInv, PendingOK, [Next]_vars PROVE FollowsRobot
    OBVIOUS
  <2>1. CASE Taken \in DOMAIN Asdus /\ Whole(Taken)
    BY <2>1, HandlesTaken, StatusRead DEF FollowsRobot
  <2>2. CASE ~(Taken \in DOMAIN Asdus /\ Whole(Taken))
    BY <2>2, HandlesTaken DEF FollowsRobot, FitForGate, caches
  <2> QED BY <2>1, <2>2
<1>2. Spec => [][FollowsRobot]_vars
  BY <1>1, PendingInvariance, Invariance, PTL DEF Spec
<1> QED BY <1>2 DEF GateFollowsRobot

-----------------------------------------------------------------------------
\* The display follows the robot.

\* Which handler is called for the groups of the display.
LEMMA HandlerOfDisplay ==
    ASSUME NEW items
    PROVE  LET OneOf(names) == \E name \in names : contains(items, name)
               Gate == {"BasicStatus", "ErrorList"}
               Device == {"BatteryList", "DeviceTemperature"}
           IN  /\ "MotionStatus" \in Handler(items) <=>
                     contains(items, "MotionStatus") /\ ~OneOf(Gate)
               /\ "BatteryList" \in Handler(items) <=>
                     OneOf(Device) /\ ~OneOf(Gate) /\ ~contains(items, "MotionStatus")
               /\ "NavStatus" \in Handler(items) <=>
                     /\ OneOf({"LocationStatus", "NavStatus"}) /\ ~OneOf(Gate)
                     /\ ~contains(items, "MotionStatus") /\ ~OneOf(Device)
<1> DEFINE Looks(i) == \E name \in Branches[i] : contains(items, name)
<1>1. /\ Len(Branches) = 6
      /\ Branches[1] = {"BasicStatus"} /\ Branches[2] = {"ErrorList"}
      /\ Branches[3] = {"MotionStatus"} /\ Branches[4] = {"DeviceTemperature", "BatteryList"}
      /\ Branches[5] = {"LocationStatus", "NavStatus"} /\ Branches[6] = {"ErrorCode"}
  BY DEF Branches
<1>2. /\ Looks(1) <=> contains(items, "BasicStatus")
      /\ Looks(2) <=> contains(items, "ErrorList")
      /\ Looks(3) <=> contains(items, "MotionStatus")
      /\ Looks(4) <=> contains(items, "BatteryList") \/ contains(items, "DeviceTemperature")
      /\ Looks(5) <=> contains(items, "LocationStatus") \/ contains(items, "NavStatus")
  BY <1>1
<1> HIDE DEF Looks
<1>3. \/ Handler(items) = {} /\ \A i \in 1 .. 6 : ~Looks(i)
      \/ \E i \in 1 .. 6 : Handler(items) = Branches[i] /\ Looks(i) /\ \A j \in 1 .. i - 1 : ~Looks(j)
  BY <1>1, HandlerIs DEF Looks
<1>4. /\ "MotionStatus" \in Handler(items) <=> Looks(3) /\ ~Looks(1) /\ ~Looks(2)
      /\ "BatteryList" \in Handler(items) <=> Looks(4) /\ ~Looks(1) /\ ~Looks(2) /\ ~Looks(3)
      /\ "NavStatus" \in Handler(items) <=>
            Looks(5) /\ ~Looks(1) /\ ~Looks(2) /\ ~Looks(3) /\ ~Looks(4)
  <2>1. CASE Handler(items) = {} /\ \A i \in 1 .. 6 : ~Looks(i)
    BY <2>1
  <2>2. ASSUME NEW i \in 1 .. 6, Handler(items) = Branches[i], Looks(i), \A j \in 1 .. i - 1 : ~Looks(j)
        PROVE  /\ "MotionStatus" \in Handler(items) <=> Looks(3) /\ ~Looks(1) /\ ~Looks(2)
               /\ "BatteryList" \in Handler(items) <=> Looks(4) /\ ~Looks(1) /\ ~Looks(2) /\ ~Looks(3)
               /\ "NavStatus" \in Handler(items) <=>
                     Looks(5) /\ ~Looks(1) /\ ~Looks(2) /\ ~Looks(3) /\ ~Looks(4)
    <3>1. /\ "MotionStatus" \in Branches[i] <=> i = 3
          /\ "BatteryList" \in Branches[i] <=> i = 4
          /\ "NavStatus" \in Branches[i] <=> i = 5
      <4>1. i = 1 \/ i = 2 \/ i = 3 \/ i = 4 \/ i = 5 \/ i = 6
        OBVIOUS
      <4> QED BY <1>1, <4>1
    <3>2. i = 1 \/ i = 2 \/ i = 3 \/ i = 4 \/ i = 5 \/ i = 6
      OBVIOUS
    <3> QED BY <2>2, <3>1, <3>2
  <2> QED BY <1>3, <2>1, <2>2
<1> QED BY <1>2, <1>4

\* A loop that stops at the first element it cannot read has read them all if
\* it can read each.
LEMMA EveryBatteryRead ==
    ASSUME NEW elements, Len(elements) \in Nat,
           \A i \in 1 .. Len(elements) : Reads(elements[i], BatterySchema)
    PROVE  ReadPrefix(elements, BatterySchema) = Len(elements)
<1> DEFINE Stops(n) == /\ \A i \in 1 .. n : Reads(elements[i], BatterySchema)
                       /\ n < Len(elements) => ~Reads(elements[n + 1], BatterySchema)
           n == CHOOSE k \in 0 .. Len(elements) : Stops(k)
<1>1. Len(elements) \in 0 .. Len(elements) /\ Stops(Len(elements))
  OBVIOUS
<1>2. n \in 0 .. Len(elements) /\ Stops(n)
  <2> HIDE DEF Stops
  <2> QED BY <1>1
<1>3. ReadPrefix(elements, BatterySchema) = n
  BY DEF ReadPrefix
<1> HIDE DEF n
<1>4. ~(n < Len(elements))
  <2> SUFFICES ASSUME n < Len(elements) PROVE FALSE
    OBVIOUS
  <2>1. n + 1 \in 1 .. Len(elements) /\ ~Reads(elements[n + 1], BatterySchema)
    BY <1>2
  <2> QED BY <2>1
<1> QED BY <1>2, <1>3, <1>4

\* If every host of the CPU group can be read, as many are read as there are.
LEMMA EveryHostRead ==
    ASSUME NEW items, contains(items, "CPU"),
           items.of["CPU"].kind = "object", DOMAIN items.of["CPU"].of \subseteq Range(Hosts),
           \A soc \in DOMAIN items.of["CPU"].of : Reads(items.of["CPU"].of[soc], SocSchema)
    PROVE  Socs(items) = Cardinality(DOMAIN items.of["CPU"].of)
<1> DEFINE cpu == items.of["CPU"]
           There(i) == contains(cpu, Hosts[i])
           Read == {i \in DOMAIN Hosts :
                      There(i) /\ \A j \in 1 .. i : There(j) => Reads(cpu.of[Hosts[j]], SocSchema)}
           Present == {i \in 1 .. 3 : Hosts[i] \in DOMAIN cpu.of}
           f == [i \in Present |-> Hosts[i]]
<1>1. /\ DOMAIN Hosts = 1 .. 3 /\ Hosts[1] = "AOS" /\ Hosts[2] = "GOS" /\ Hosts[3] = "NOS"
      /\ Range(Hosts) = {Hosts[1], Hosts[2], Hosts[3]}
  BY DEF Hosts, Range
<1>2. Socs(items) = Cardinality(Read)
  BY DEF Socs
<1>3. Read = Present
  BY <1>1 DEF contains
<1>4. f \in Bijection(Present, DOMAIN cpu.of)
  <2>1. f \in [Present -> DOMAIN cpu.of]
    OBVIOUS
  <2>2. \A i, j \in Present : f[i] = f[j] => i = j
    BY <1>1
  <2>3. \A soc \in DOMAIN cpu.of : \E i \in Present : f[i] = soc
    <3> SUFFICES ASSUME NEW soc \in DOMAIN cpu.of PROVE \E i \in Present : f[i] = soc
      OBVIOUS
    <3>1. PICK i \in 1 .. 3 : Hosts[i] = soc
      BY <1>1
    <3>2. i \in Present /\ f[i] = soc
      BY <3>1
    <3> QED BY <3>2
  <2> HIDE DEF f, Present
  <2> QED BY <2>1, <2>2, <2>3 DEF Bijection, Injection, Surjection, IsInjective
<1>5. IsFiniteSet(Present)
  <2>1. IsFiniteSet(1 .. 3)
    BY 1 \in Int, 3 \in Int, FS_Interval, Zenon
  <2>2. Present \in SUBSET (1 .. 3)
    OBVIOUS
  <2> HIDE DEF Present
  <2> QED BY <2>1, <2>2, FS_Subset
<1>6. Cardinality(DOMAIN cpu.of) = Cardinality(Present)
  BY <1>4, <1>5, FS_Bijection DEF ExistsBijection
<1> QED BY <1>2, <1>3, <1>6

\* The readers read a group exactly if it is in order.
LEMMA ReadsInOrder ==
    /\ \A g : Reads(g, EnableSchema) <=> InOrder("DevEnable", g)
    /\ \A g : Reads(g, LocationSchema) <=> InOrder("LocationStatus", g)
    /\ \A g : Reads(g, NavSchema) <=> InOrder("NavStatus", g)
    /\ \A g : InOrder("BatteryList", g) => \A i \in DOMAIN g.of : Reads(g.of[i], BatterySchema)
    /\ \A g : InOrder("CPU", g) => \A host \in DOMAIN g.of : Reads(g.of[host], SocSchema)
<1> USE DEF Reads, contains, get, Has
<1>0. /\ Converts["int"] = IntKinds /\ Converts["double"] = DoubleKinds
      /\ Converts["bool"] = {"boolean"} /\ Converts["text"] = {"string"}
  BY DEF Converts, IntKinds, DoubleKinds
<1>1. ASSUME NEW g PROVE Reads(g, EnableSchema) <=> InOrder("DevEnable", g)
  <2>1. /\ DOMAIN EnableSchema = {"Lidar", "Video"}
        /\ EnableSchema["Lidar"] = "int" /\ EnableSchema["Video"] = "int"
    BY DEF EnableSchema
  <2>2. InOrder("DevEnable", g) <=> Has(g, {"Lidar", "Video"}, IntKinds)
    BY DEF InOrder
  <2> QED BY <1>0, <2>1, <2>2
<1>2. ASSUME NEW g PROVE Reads(g, LocationSchema) <=> InOrder("LocationStatus", g)
  <2> DEFINE ints == {"Location", "Relocation"}
             doubles == {"Confidence", "PosX", "PosY", "PosZ", "Roll", "Pitch", "Yaw"}
  <2>1. /\ DOMAIN LocationSchema = ints \cup doubles
        /\ \A name \in ints : LocationSchema[name] = "int"
        /\ \A name \in doubles : LocationSchema[name] = "double"
    BY DEF LocationSchema
  <2>2. InOrder("LocationStatus", g) <=> Has(g, ints, IntKinds) /\ Has(g, doubles, DoubleKinds)
    BY DEF InOrder
  <2>3. "Location" \in ints
    OBVIOUS
  <2> HIDE DEF ints, doubles
  <2> QED BY <1>0, <2>1, <2>2, <2>3
<1>3. ASSUME NEW g PROVE Reads(g, NavSchema) <=> InOrder("NavStatus", g)
  <2> DEFINE ints == {"Value", "Status", "ErrorCode", "LoopCnt", "RemainingCnt"}
  <2>1. /\ DOMAIN NavSchema = ints \cup {"Name"} /\ NavSchema["Name"] = "text"
        /\ \A name \in ints : NavSchema[name] = "int"
    BY DEF NavSchema
  <2>2. InOrder("NavStatus", g) <=> Has(g, ints, IntKinds) /\ Has(g, {"Name"}, {"string"})
    BY DEF InOrder
  <2> HIDE DEF ints
  <2> QED BY <1>0, <2>1, <2>2
<1>4. ASSUME NEW g, InOrder("BatteryList", g), NEW i \in DOMAIN g.of
      PROVE  Reads(g.of[i], BatterySchema)
  <2> DEFINE doubles == {"Voltage", "BatteryLevel", "battery_temperature"}
  <2>1. /\ DOMAIN BatterySchema = doubles \cup {"charge"} /\ BatterySchema["charge"] = "bool"
        /\ \A name \in doubles : BatterySchema[name] = "double"
    BY DEF BatterySchema
  <2>2. Has(g.of[i], doubles, DoubleKinds) /\ Has(g.of[i], {"charge"}, {"boolean"})
    BY <1>4 DEF InOrder
  <2> HIDE DEF doubles
  <2> QED BY <1>0, <2>1, <2>2
<1>5. ASSUME NEW g, InOrder("CPU", g), NEW host \in DOMAIN g.of
      PROVE  Reads(g.of[host], SocSchema)
  <2>1. /\ DOMAIN SocSchema = {"AvgUtil", "PackageTemp"}
        /\ SocSchema["AvgUtil"] = "int" /\ SocSchema["PackageTemp"] = "int"
    BY DEF SocSchema
  <2>2. Has(g.of[host], {"AvgUtil", "PackageTemp"}, IntKinds)
    BY <1>5 DEF InOrder
  <2> QED BY <1>0, <2>1, <2>2
<1> QED BY <1>1, <1>2, <1>3, <1>4, <1>5

\* Temperatures are read exactly if they are in order.
LEMMA TemperaturesInOrder ==
    ASSUME NEW items
    PROVE  ReadsTemperatures(items) <=>
              /\ contains(items, "DeviceTemperature")
              /\ InOrder("DeviceTemperature", items.of["DeviceTemperature"])
<1> DEFINE group == items.of["DeviceTemperature"]
<1>1. InOrder("DeviceTemperature", group) <=>
         /\ group.kind = "object" /\ {"Motor", "Driver"} \subseteq DOMAIN group.of
         /\ \A part \in {"Motor", "Driver"} : \A i \in DOMAIN group.of[part].of :
               group.of[part].of[i].kind \in {"number"}
  BY DEF InOrder, DoubleKinds
<1>2. Converts["double"] = {"number"}
  BY DEF Converts
<1> HIDE DEF group
<1> QED BY <1>1, <1>2 DEF ReadsTemperatures, contains, get, Range, group

\* What is stored of a device report is what ShowsGroups says of it.
LEMMA DeviceShown ==
    ASSUME NEW name \in DOMAIN Asdus, Complete(Asdus[name].root),
           device' = DeviceStatus(ItemsOf(Asdus[name].root))
    PROVE  ShowsGroups(ItemsOf(Asdus[name].root))
<1> DEFINE items == ItemsOf(Asdus[name].root)
           Good(group) == contains(items, group) /\ InOrder(group, items.of[group])
<1>1. /\ device'.batteries = Batteries(items) /\ device'.cpus = Socs(items)
      /\ device'.has_dev_enable = Group(items, "DevEnable", EnableSchema)
      /\ device'.has_temperature = ReadsTemperatures(items)
  BY DEF DeviceStatus
<1> HIDE DEF items
<1>2. ReadsTemperatures(items) <=> Good("DeviceTemperature")
  BY TemperaturesInOrder
<1>3. Group(items, "DevEnable", EnableSchema) <=> Good("DevEnable")
  BY ReadsInOrder DEF Group
<1>4. ASSUME Good("BatteryList") PROVE Batteries(items) = Len(items.of["BatteryList"].of)
  <2> DEFINE list == items.of["BatteryList"].of
  <2>1. Len(list) \in Nat /\ DOMAIN list = 1 .. Len(list)
    BY <1>4, ContainerAssumption DEF items
  <2>2. \A i \in DOMAIN list : Reads(list[i], BatterySchema)
    BY <1>4, ReadsInOrder
  <2>3. Batteries(items) = ReadPrefix(list, BatterySchema)
    BY <1>4 DEF Batteries
  <2> HIDE DEF list
  <2>4. ReadPrefix(list, BatterySchema) = Len(list)
    BY <2>1, <2>2, EveryBatteryRead
  <2> QED BY <2>3, <2>4 DEF list
<1>5. ASSUME Good("CPU") PROVE Socs(items) = Cardinality(DOMAIN items.of["CPU"].of)
  <2>1. items.of["CPU"].kind = "object" /\ DOMAIN items.of["CPU"].of \subseteq Range(Hosts)
    BY <1>5, ContainerAssumption DEF items
  <2>2. \A soc \in DOMAIN items.of["CPU"].of : Reads(items.of["CPU"].of[soc], SocSchema)
    BY <1>5, ReadsInOrder
  <2> QED BY <1>5, <2>1, <2>2, EveryHostRead
<1>6. ~contains(items, "BatteryList") => Batteries(items) = 0
  BY DEF Batteries
<1>7. ~contains(items, "CPU") => Socs(items) = 0
  BY DEF Socs
<1>8. ShowsGroups(items)
  <2> HIDE DEF Good
  <2> QED BY <1>1, <1>2, <1>3, <1>4, <1>5, <1>6, <1>7 DEF ShowsGroups, Good
<1> QED BY <1>8 DEF items

(* What is shown follows the robot: of a report that arrives whole every group
   in order, whatever is wrong beside it, and no group out of order; and
   nothing else changes what is shown, whatever the reports, the buffer and
   the damage (CmdVelBridge.cpp:247-258, 349-496). *)
THEOREM DisplayFollowsRobotHolds == Spec => DisplayFollowsRobot
<1>1. IInv /\ PendingOK /\ [Next]_vars => [ShowsRobot]_vars
  <2> SUFFICES ASSUME IInv, PendingOK, [Next]_vars PROVE ShowsRobot
    OBVIOUS
  <2> DEFINE name == Taken
             items == ItemsOf(Asdus[name].root)
  <2>0. IF name \in DOMAIN Asdus /\ Whole(name)
        THEN handleAsdu(Asdus[name].root) ELSE UNCHANGED caches
    BY HandlesTaken
  <2>1. ShowsRobot <=>
           /\ IF ForMotion(name) THEN motion'.raw = items ELSE UNCHANGED motion
           /\ IF ForDevice(name) THEN ShowsGroups(items) ELSE UNCHANGED device
           /\ IF ForLocation(name) THEN ShowsPlace(items) ELSE UNCHANGED location_nav
    BY DEF ShowsRobot
  <2> HIDE DEF name
  <2>2. CASE UNCHANGED caches /\ ~ForMotion(name) /\ ~ForDevice(name) /\ ~ForLocation(name)
    BY <2>1, <2>2 DEF caches
  <2>3. CASE ~(name \in DOMAIN Asdus /\ Whole(name))
    BY <2>0, <2>2, <2>3 DEF ForMotion, ForDevice, ForLocation, Selects
  <2>4. CASE name \in DOMAIN Asdus /\ Whole(name) /\ ~Complete(Asdus[name].root)
    <3>1. UNCHANGED caches
      BY <2>0, <2>4 DEF handleAsdu, caches
    <3> QED BY <2>2, <2>4, <3>1 DEF ForMotion, ForDevice, ForLocation, Selects, Carries
  <2>5. CASE name \in DOMAIN Asdus /\ Whole(name) /\ Complete(Asdus[name].root)
    <3>1. /\ IF "MotionStatus" \in Handler(items) THEN handleMotionStatus(items) ELSE UNCHANGED motion
          /\ device' = IF "BatteryList" \in Handler(items) THEN DeviceStatus(items) ELSE device
          /\ location_nav' = IF "NavStatus" \in Handler(items)
                             THEN LocationNavStatus(items) ELSE location_nav
      BY <2>0, <2>5 DEF handleAsdu
    <3>2. \A group : Carries(name, group) <=> contains(items, group)
      BY <2>5 DEF Carries
    <3>3. /\ ForMotion(name) <=> "MotionStatus" \in Handler(items)
          /\ ForDevice(name) <=> "BatteryList" \in Handler(items)
          /\ ForLocation(name) <=> "NavStatus" \in Handler(items)
      <4> HIDE DEF items
      <4> QED BY <2>5, <3>2, HandlerOfDisplay DEF ForMotion, ForDevice, ForLocation, Selects
    <3>4. ASSUME ForMotion(name) PROVE motion'.raw = items
      BY <3>1, <3>3, <3>4 DEF handleMotionStatus
    <3>5. ASSUME ForDevice(name) PROVE ShowsGroups(items)
      BY <2>5, <3>1, <3>3, <3>5, DeviceShown
    <3>6. ASSUME ForLocation(name) PROVE ShowsPlace(items)
      <4> HIDE DEF items
      <4>1. /\ location_nav'.has_location = Group(items, "LocationStatus", LocationSchema)
            /\ location_nav'.has_nav = Group(items, "NavStatus", NavSchema)
        BY <3>1, <3>3, <3>6 DEF LocationNavStatus
      <4> QED BY <4>1, ReadsInOrder DEF ShowsPlace, Group
    <3> QED BY <2>1, <3>1, <3>3, <3>4, <3>5, <3>6
  <2> QED BY <2>3, <2>4, <2>5
<1>2. Spec => [][ShowsRobot]_vars
  BY <1>1, PendingInvariance, Invariance, PTL DEF Spec
<1> QED BY <1>2 DEF DisplayFollowsRobot

-----------------------------------------------------------------------------
\* Types.

\* What TypeOK says beyond IInv.
Typed ==
    /\ dtls \in BOOLEAN /\ (pending # <<>> => dtls)
    /\ basic = None \/ basic \in [GateFields -> Int]

LEMMA GateFieldsType ==
    ASSUME NEW name \in DOMAIN Asdus, FitForGate(name)
    PROVE  GateFieldsOf(ItemsOf(Asdus[name].root).of["BasicStatus"]) \in [GateFields -> Int]
<1> DEFINE status == ItemsOf(Asdus[name].root).of["BasicStatus"]
<1>1. ASSUME NEW field \in GateFields PROVE status.of[field].val \in Int
  <2>1. contains(status, field) /\ get(status.of[field], "int")
    BY DEF FitForGate, GateFields, contains, get, Converts
  <2>2. Complete(Asdus[name].root) /\ contains(ItemsOf(Asdus[name].root), "BasicStatus")
    BY DEF FitForGate, Carries
  <2> QED BY <2>1, <2>2, NumberAssumption
<1> HIDE DEF status
<1> QED BY <1>1 DEF GateFieldsOf, status

LEMMA TypedNext == IInv /\ PendingOK /\ Typed /\ [Next]_vars => Typed'
<1> SUFFICES ASSUME IInv, PendingOK, Typed, [Next]_vars PROVE Typed'
  OBVIOUS
<1>1. basic' = basic \/ basic' \in [GateFields -> Int]
  <2>1. CASE Taken \in DOMAIN Asdus /\ Whole(Taken)
    BY <2>1, HandlesTaken, StatusRead, GateFieldsType
  <2>2. CASE ~(Taken \in DOMAIN Asdus /\ Whole(Taken))
    BY <2>2, HandlesTaken DEF caches
  <2> QED BY <2>1, <2>2
<1>2. dtls' = dtls /\ (pending' # <<>> => dtls)
  <2>1. CASE Receive \/ ReceivePending
    BY <2>1 DEF Receive, ReceivePending, Typed
  <2>2. ASSUME UNCHANGED <<dtls, pending>> PROVE dtls' = dtls /\ (pending' # <<>> => dtls)
    BY <2>2 DEF Typed
  <2>3. ASSUME NEW t \in Threads, nextMsgId(t) \/ \E sent \in BOOLEAN : sendRequest(t, sent)
        PROVE  dtls' = dtls /\ (pending' # <<>> => dtls)
    BY <2>2, <2>3 DEF nextMsgId, sendRequest
  <2>4. ASSUME NEW p \in up, Answer(p) PROVE dtls' = dtls /\ (pending' # <<>> => dtls)
    BY <2>2, <2>4 DEF Answer
  <2>5. ASSUME NEW name, NEW id, NEW bytes, Send(name, id, bytes)
        PROVE  dtls' = dtls /\ (pending' # <<>> => dtls)
    BY <2>2, <2>5 DEF Send
  <2>6. CASE UNCHANGED vars
    BY <2>2, <2>6 DEF vars
  <2> QED BY <2>1, <2>3, <2>4, <2>5, <2>6 DEF Next, ReceiveLoop, Report, Disturb
<1> QED BY <1>1, <1>2 DEF Typed

(* The typing of the exchange: the counter stays in two bytes, a packet on its
   way is well formed, and only DTLS leaves anything for a later round
   (CmdVelBridge.cpp:570-575, UdpTransport.cpp:285-290). *)
THEOREM TypeCorrect == Spec => []TypeOK
<1>1. Init => Typed
  BY DEF Init, Typed
<1>2. IInv /\ Typed => TypeOK
  BY RequestRead, Facts DEF IInv, IdsOK, IsRequest, Typed, TypeOK, Ids
<1> QED BY <1>1, <1>2, TypedNext, PendingInvariance, Invariance, PTL DEF Spec
=============================================================================
