------------------------- MODULE UdpTransportProofs -------------------------
(***************************************************************************)
(* Theorems about UdpTransport for all timeouts and sizes.                 *)
(***************************************************************************)
EXTENDS UdpTransport, TLAPS

-----------------------------------------------------------------------------
\* The inductive invariant.

\* What the constructor has made when it reaches a step, which is what the
\* step's failing branch has to release.
Made ==
    /\ ~spoiled
    /\ pc \in DOMAIN Cleanup \cup {"catch"} => options.use_dtls
    /\ pc \in {"socket", "threw", "closed"} => live = {}
    /\ pc \in {"ctx", "catch"} => live = {"sock"}
    /\ pc \in {"ca", "ssl"} => live = {"sock", "ctx"}
    /\ pc \in {"bio", "handshake", "deadline"} => live = {"sock", "ctx", "ssl"}
    /\ pc = "addr" => live = {"sock", "ctx", "ssl", "bio"}
    /\ pc = "peer" => live = {"sock", "ctx", "ssl", "bio", "addr"}
    /\ pc = "open" => live = IF options.use_dtls THEN {"sock", "ctx", "ssl"} ELSE {"sock"}

\* Each thread keeps to its own part of send and receive, and only with DTLS
\* does any take the lock: then exactly its owner is inside the SSL object.
InSslPlaces == {"pending", "read", "write"}
Locking ==
    /\ pc # "open" => \A t \in Threads : thread[t] = "idle"
    /\ thread["recv"] \in {"idle", "want_pending", "pending", "poll", "want_read", "read"}
    /\ \A t \in Senders : thread[t] \in {"idle", "want_write", "write"}
    /\ options.use_dtls => \A t \in Threads : thread[t] \in InSslPlaces <=> owner = t
    /\ ~options.use_dtls =>
          owner = NoOne /\ \A t \in Threads : thread[t] \in {"idle", "poll", "read"}

\* Only the wait of SSL_read on the socket takes time under the lock.
Reading == IF thread["recv"] = "read" THEN waited ELSE 0
Holding ==
    /\ owner = NoOne => held = 0
    /\ thread["recv"] = "read" => waited <= RecvTimeout
    /\ held <= RecvTimeout * skipped + Reading

IInv == TypeOK /\ Made /\ Locking /\ Holding

-----------------------------------------------------------------------------
LEMMA CleanupValues ==
    /\ DOMAIN Cleanup = {"ctx", "ca", "ssl", "bio", "addr", "peer", "handshake", "deadline"}
    /\ Cleanup["ctx"] = {} /\ Cleanup["ca"] = {"ctx"} /\ Cleanup["ssl"] = {"ctx"}
    /\ Cleanup["bio"] = {"ssl", "ctx"} /\ Cleanup["addr"] = {"bio", "ssl", "ctx"}
    /\ Cleanup["peer"] = {"addr", "bio", "ssl", "ctx"}
    /\ Cleanup["handshake"] = {"ssl", "ctx"} /\ Cleanup["deadline"] = {"ssl", "ctx"}
BY DEF Cleanup

LEMMA Constants ==
    /\ RecvTimeout \in Nat /\ PollTimeout \in Nat /\ BufLen \in Nat /\ BufLen > 0
    /\ MaxRecord \in Nat
    /\ \A n \in Nat : RecvTimeout * n \in Nat /\ RecvTimeout * (n + 1) = RecvTimeout * n + RecvTimeout
    /\ RecvTimeout * 0 = 0
    /\ Threads = {"recv", "heartbeat", "control"} /\ Senders = {"heartbeat", "control"}
    /\ NoOne \notin Threads
<1>1. /\ RecvTimeout \in Nat /\ PollTimeout \in Nat /\ BufLen \in Nat /\ BufLen > 0
      /\ MaxRecord \in Nat
  BY TimesAssumption
<1>2. ASSUME NEW n \in Nat
      PROVE  RecvTimeout * n \in Nat /\ RecvTimeout * (n + 1) = RecvTimeout * n + RecvTimeout
  BY <1>1
<1>3. RecvTimeout * 0 = 0
  BY <1>1
<1>4. /\ Threads = {"recv", "heartbeat", "control"} /\ Senders = {"heartbeat", "control"}
      /\ NoOne \notin Threads
  BY DEF Threads, Senders, NoOne
<1> QED BY <1>1, <1>2, <1>3, <1>4

LEMMA InvInit == Init => IInv
<1> SUFFICES ASSUME Init PROVE IInv
  OBVIOUS
<1>1. TypeOK
  <2>1. inbox \in Seq(0 .. MaxRecord)
    BY DEF Init
  <2>2. thread \in [Threads -> Places] /\ {elapsed, waited, held, skipped, pending} \subseteq Nat
    BY DEF Init, Places
  <2>3. pc \in DOMAIN Cleanup \cup {"socket", "catch", "threw", "open", "closed"}
    BY DEF Init
  <2> QED BY <2>1, <2>2, <2>3 DEF Init, TypeOK
<1>2. Made
  BY CleanupValues DEF Init, Made
<1>3. Locking /\ Holding
  BY Constants DEF Init, Locking, Holding, Reading, InSslPlaces
<1> QED BY <1>1, <1>2, <1>3 DEF IInv

\* Until the constructor returns no thread is in send or receive.
LEMMA OutsideHoldsNothing ==
    ASSUME IInv, pc # "open"
    PROVE  owner = NoOne /\ held = 0 /\ \A t \in Threads : thread[t] = "idle"
BY Constants DEF IInv, TypeOK, Locking, Holding, InSslPlaces

\* The steps of the constructor and the destructor take what the failing
\* branches have to release, and leave the threads alone.
LEMMA ConstructorKeeps ==
    ASSUME IInv, Constructor \/ Destroy
    PROVE  IInv'
<1>1. CASE OpenSocket
  BY <1>1, CleanupValues, Constants
  DEF IInv, TypeOK, Made, Locking, Holding, Reading, OpenSocket, traffic
<1>2. CASE MakeObjects
  <2>1. ASSUME NEW from, NEW object, NEW to, Make(from, object, to),
               <<from, object, to>> \in
                  {<<"ctx", {"ctx"}, "ca">>, <<"ctx", {"ctx"}, "ssl">>, <<"ca", {}, "ssl">>,
                   <<"ssl", {"ssl"}, "bio">>, <<"bio", {"bio"}, "addr">>,
                   <<"addr", {"addr"}, "peer">>}
        PROVE  IInv'
    BY <2>1, CleanupValues, Constants
    DEF IInv, TypeOK, Made, Locking, Holding, Reading, Make, traffic
  <2> QED BY <1>2, <2>1 DEF MakeObjects, AfterCtx
<1>3. CASE SetBio
  <2>1. /\ pc = "peer" /\ pc' = "handshake" /\ waited' = 0
        /\ live' = live \ {"addr", "bio"}
        /\ spoiled' = (spoiled \/ ~({"addr", "bio"} \subseteq live))
        /\ UNCHANGED <<options, elapsed, thread, owner, held, skipped, inbox, sock_err, pending>>
    BY <1>3 DEF SetBio, Release, traffic
  <2>2. live = {"sock", "ctx", "ssl", "bio", "addr"} /\ ~spoiled /\ options.use_dtls
    BY <2>1, CleanupValues DEF IInv, Made
  <2>3. live' = {"sock", "ctx", "ssl"} /\ ~spoiled'
    BY <2>1, <2>2
  <2>4. Made'
    BY <2>1, <2>2, <2>3, CleanupValues DEF Made
  <2>5. TypeOK'
    BY <2>1, <2>3, CleanupValues DEF IInv, TypeOK
  <2>6. Locking' /\ Holding'
    BY <2>1, Constants DEF IInv, TypeOK, Locking, Holding, Reading
  <2> QED BY <2>4, <2>5, <2>6 DEF IInv
<1>4. CASE StartDtlsFails
  <2>1. /\ pc \in DOMAIN Cleanup /\ pc' = "catch"
        /\ live' = live \ Cleanup[pc]
        /\ spoiled' = (spoiled \/ ~(Cleanup[pc] \subseteq live))
        /\ skipped' = 0
        /\ UNCHANGED <<options, elapsed, waited, thread, owner, held, inbox, sock_err, pending>>
    BY <1>4 DEF StartDtlsFails, Release, HandshakeReturns
  <2>2. ~spoiled /\ options.use_dtls
    BY <2>1 DEF IInv, Made
  <2>3. live' = {"sock"} /\ Cleanup[pc] \subseteq live
    <3>1. CASE pc \in {"ctx", "ca", "ssl"}
      BY <2>1, <3>1, CleanupValues DEF IInv, Made
    <3>2. CASE pc \in {"bio", "addr"}
      BY <2>1, <3>2, CleanupValues DEF IInv, Made
    <3>3. CASE pc \in {"peer", "handshake", "deadline"}
      BY <2>1, <3>3, CleanupValues DEF IInv, Made
    <3> QED BY <2>1, <3>1, <3>2, <3>3, CleanupValues
  <2>4. Made'
    BY <2>1, <2>2, <2>3, CleanupValues DEF Made
  <2>5. TypeOK'
    BY <2>1, <2>2, <2>3 DEF IInv, TypeOK, Made
  <2>6. Locking' /\ Holding'
    BY <2>1, CleanupValues, Constants, OutsideHoldsNothing DEF IInv, TypeOK, Locking, Holding, Reading
  <2> QED BY <2>4, <2>5, <2>6 DEF IInv
<1>5. CASE HandshakeDone \/ HandshakeOther \/ HandshakeWants
  <2>1. /\ pc = "handshake" /\ pc' \in {"open", "handshake", "deadline"}
        /\ waited' \in {0, waited} /\ skipped' \in {0, skipped + 1}
        /\ UNCHANGED <<options, live, spoiled, elapsed, thread, owner, held, inbox, sock_err, pending>>
    BY <1>5 DEF HandshakeDone, HandshakeOther, HandshakeWants, HandshakeReturns, setup
  <2>2. Made'
    BY <2>1, CleanupValues DEF IInv, Made
  <2>3. TypeOK'
    BY <2>1, CleanupValues DEF IInv, TypeOK
  <2>4. Locking'
    BY <2>1, Constants, OutsideHoldsNothing DEF IInv, Locking, InSslPlaces
  <2>5. Holding'
    BY <2>1, <2>3, Constants, OutsideHoldsNothing DEF IInv, TypeOK, Holding, Reading
  <2> QED BY <2>2, <2>3, <2>4, <2>5 DEF IInv
<1>6. CASE HandshakeAgain
  BY <1>6, CleanupValues, Constants
  DEF IInv, TypeOK, Made, Locking, Holding, Reading, HandshakeAgain, traffic
<1>7. CASE Catch
  BY <1>7, CleanupValues, Constants
  DEF IInv, TypeOK, Made, Locking, Holding, Reading, Catch, Release, traffic
<1>8. CASE Destroy
  BY <1>8, CleanupValues, Constants
  DEF IInv, TypeOK, Made, Locking, Holding, Reading, Destroy, Release, traffic
<1> QED BY <1>1, <1>2, <1>3, <1>4, <1>5, <1>6, <1>7, <1>8 DEF Constructor

-----------------------------------------------------------------------------
\* Every step of send and receive leaves the objects alone.
LEMMA MadeKept ==
    ASSUME Made, UNCHANGED setup
    PROVE  Made'
BY DEF Made, setup

LEMMA AcquireKeeps ==
    ASSUME IInv, NEW t \in Threads, Acquire(t)
    PROVE  IInv'
<1>1. /\ pc = "open" /\ owner = NoOne /\ owner' = t /\ held = 0
      /\ UNCHANGED <<setup, held, skipped, inbox, sock_err, pending>>
      /\ \E from \in {"want_pending", "want_read", "want_write"}, to \in InSslPlaces :
            thread[t] = from /\ thread' = [thread EXCEPT ![t] = to]
      /\ waited' = IF t = "recv" THEN 0 ELSE waited
  BY DEF Acquire, Goto, IInv, Holding, InSslPlaces
<1>2. PICK to \in InSslPlaces : thread' = [thread EXCEPT ![t] = to]
  BY <1>1
<1>3. thread'[t] = to /\ \A u \in Threads \ {t} : thread'[u] = thread[u]
  BY <1>2 DEF IInv, TypeOK
<1>4. options.use_dtls
  BY <1>1 DEF IInv, Locking
<1>5. TypeOK'
  BY <1>1, <1>2 DEF IInv, TypeOK, setup, InSslPlaces, Places
<1>6. Locking'
  BY <1>1, <1>3, <1>4, Constants DEF IInv, Locking, Acquire, Goto, setup, InSslPlaces
<1>7. Holding'
  <2>1. held' = 0 /\ skipped' = skipped /\ skipped \in Nat /\ waited' \in Nat
    BY <1>1 DEF IInv, TypeOK
  <2>2. thread'["recv"] = "read" => waited' <= RecvTimeout
    BY <1>1, <1>3, Constants DEF IInv, TypeOK, Holding
  <2>3. RecvTimeout * skipped' \in Nat /\ Reading' \in Nat
    BY <2>1, Constants DEF Reading
  <2> QED BY <2>1, <2>2, <2>3 DEF Holding
<1> QED BY <1>1, <1>5, <1>6, <1>7, MadeKept DEF IInv

\* Leaving the critical section, or what corresponds to it without DTLS.
LEMMA LeaveKeeps ==
    ASSUME IInv, pc = "open", UNCHANGED setup,
           NEW t \in Threads, NEW to \in {"idle", "poll"},
           thread' = [thread EXCEPT ![t] = to], Unlock,
           t = "recv" \/ (options.use_dtls /\ to = "idle"),
           options.use_dtls => owner = t
    PROVE  /\ thread' \in [Threads -> Places] /\ owner' \in Threads \cup {NoOne}
           /\ {held', skipped'} \subseteq Nat
           /\ Made' /\ Locking' /\ Holding'
<1>1. /\ thread' = [thread EXCEPT ![t] = to]
      /\ owner' = NoOne /\ held' = 0 /\ skipped' = 0 /\ pc' = "open" /\ options' = options
  BY DEF Unlock, setup
<1>2. /\ thread' \in [Threads -> Places] /\ thread'[t] = to
      /\ \A u \in Threads \ {t} : thread'[u] = thread[u]
  BY <1>1 DEF IInv, TypeOK, Places
<1>3. Locking'
  BY <1>1, <1>2, Constants DEF IInv, Locking, InSslPlaces
<1>4. thread'["recv"] # "read"
  BY <1>1, <1>2, Constants DEF IInv, Locking, InSslPlaces
<1>5. Holding'
  BY <1>1, <1>4, Constants DEF Holding, Reading
<1> QED BY <1>1, <1>2, <1>3, <1>5, MadeKept DEF IInv

LEMMA SenderKeeps ==
    ASSUME IInv, NEW t \in Senders, Send(t) \/ SslWrite(t)
    PROVE  IInv'
<1>1. CASE Send(t)
  <2>1. /\ pc = "open" /\ thread[t] = "idle"
        /\ UNCHANGED <<setup, waited, owner, held, skipped, inbox, pending>>
        /\ sock_err' \in BOOLEAN
        /\ \/ options.use_dtls /\ thread' = [thread EXCEPT ![t] = "want_write"]
           \/ ~options.use_dtls /\ thread' = thread
    BY <1>1 DEF Send, At, Goto, IInv, TypeOK
  <2>2. /\ thread'["recv"] = thread["recv"] /\ thread' \in [Threads -> Places]
        /\ \A u \in Threads \ {t} : thread'[u] = thread[u]
        /\ options.use_dtls => thread'[t] = "want_write"
        /\ ~options.use_dtls => thread'[t] = thread[t]
    BY <2>1, Constants DEF IInv, TypeOK, Places
  <2>3. TypeOK' /\ Holding'
    BY <2>1, <2>2 DEF IInv, TypeOK, Holding, Reading, setup
  <2>4. Locking'
    BY <2>1, <2>2, Constants DEF IInv, Locking, InSslPlaces, setup
  <2> QED BY <2>1, <2>3, <2>4, MadeKept DEF IInv
<1>2. CASE SslWrite(t)
  <2>1. pc = "open" /\ thread[t] = "write" /\ t \in Threads
    BY <1>2, Constants DEF SslWrite, At
  <2>2. options.use_dtls /\ owner = t
    BY <2>1, Constants DEF IInv, Locking, InSslPlaces
  <2>3. /\ thread' \in [Threads -> Places] /\ owner' \in Threads \cup {NoOne}
        /\ {held', skipped'} \subseteq Nat
        /\ Made' /\ Locking' /\ Holding'
    BY <1>2, <2>1, <2>2, LeaveKeeps DEF SslWrite, Goto
  <2>4. TypeOK'
    BY <1>2, <2>3 DEF SslWrite, IInv, TypeOK, setup
  <2> QED BY <2>3, <2>4 DEF IInv
<1> QED BY <1>1, <1>2

LEMMA ReceiverLeaves ==
    ASSUME IInv, ReadPending \/ LeaveForPoll \/ ReadFails \/ ReadData \/ ReadTimesOut
    PROVE  IInv'
<1>1. PICK to \in {"idle", "poll"} :
         /\ pc = "open" /\ thread["recv"] \in InSslPlaces
         /\ UNCHANGED setup /\ thread' = [thread EXCEPT !["recv"] = to] /\ Unlock
  BY DEF ReadPending, LeaveForPoll, ReadFails, ReadData, ReadTimesOut, At, Goto, InSslPlaces
<1>2. "recv" \in Threads /\ (options.use_dtls => owner = "recv")
  BY <1>1, Constants DEF IInv, Locking
<1>3. /\ thread' \in [Threads -> Places] /\ owner' \in Threads \cup {NoOne}
      /\ {held', skipped'} \subseteq Nat
      /\ Made' /\ Locking' /\ Holding'
  <2>1. "recv" = "recv" \/ (options.use_dtls /\ to = "idle")
    OBVIOUS
  <2> QED BY <1>1, <1>2, <2>1, LeaveKeeps
<1>4. inbox \in Seq(0 .. MaxRecord) /\ pending \in Nat /\ waited \in Nat /\ sock_err \in BOOLEAN
  BY DEF IInv, TypeOK
<1>5. CASE ReadPending
  BY <1>1, <1>3, <1>4, <1>5, Constants DEF ReadPending, IInv, TypeOK, setup
<1>6. CASE LeaveForPoll
  BY <1>1, <1>3, <1>4, <1>6 DEF LeaveForPoll, IInv, TypeOK, setup
<1>7. CASE ReadFails \/ ReadTimesOut
  BY <1>1, <1>3, <1>4, <1>7 DEF ReadFails, ReadTimesOut, IInv, TypeOK, setup
<1>8. CASE ReadData
  <2>1. inbox # <<>> /\ Head(inbox) \in Nat /\ Tail(inbox) \in Seq(0 .. MaxRecord)
    BY <1>4, <1>8, Constants DEF ReadData
  <2>2. pending' \in Nat
    BY <1>8, <2>1, Constants DEF ReadData
  <2> QED BY <1>1, <1>3, <1>4, <1>8, <2>1, <2>2 DEF ReadData, IInv, TypeOK, setup
<1> QED BY <1>5, <1>6, <1>7, <1>8

LEMMA ReceiverWaits ==
    ASSUME IInv, Receive \/ Poll \/ ReadOther
    PROVE  IInv'
<1>1. CASE Receive \/ Poll
  <2>1. PICK to \in {"idle", "want_pending", "poll", "want_read", "read"} :
           /\ pc = "open" /\ thread["recv"] \in {"idle", "poll"}
           /\ thread' = [thread EXCEPT !["recv"] = to]
           /\ to = "read" => ~options.use_dtls
           /\ to \in {"want_pending", "want_read"} => options.use_dtls
           /\ waited' = 0
           /\ UNCHANGED <<setup, owner, held, skipped, inbox, sock_err, pending>>
    BY <1>1 DEF Receive, Poll, At, Goto
  <2>2. /\ thread' \in [Threads -> Places] /\ thread'["recv"] = to
        /\ \A u \in Senders : thread'[u] = thread[u]
    BY <2>1, Constants DEF IInv, TypeOK, Places
  <2>3. TypeOK'
    BY <2>1, <2>2 DEF IInv, TypeOK, setup
  <2>4. Locking'
    BY <2>1, <2>2, Constants DEF IInv, Locking, InSslPlaces, setup
  <2>5. held <= RecvTimeout * skipped
    <3>1. skipped \in Nat /\ held \in Nat /\ Reading = 0
      BY <2>1 DEF IInv, TypeOK, Reading
    <3>2. RecvTimeout * skipped \in Nat
      BY <3>1, Constants
    <3> QED BY <3>1, <3>2 DEF IInv, Holding
  <2>6. Holding'
    BY <2>1, <2>2, <2>5, Constants DEF IInv, TypeOK, Holding, Reading
  <2> QED BY <2>1, <2>3, <2>4, <2>6, MadeKept DEF IInv
<1>2. CASE ReadOther
  <2>1. /\ pc = "open" /\ thread["recv"] = "read" /\ inbox # <<>> /\ inbox' = Tail(inbox)
        /\ skipped' = skipped + 1 /\ waited' = 0
        /\ UNCHANGED <<setup, thread, owner, held, sock_err, pending>>
    BY <1>2 DEF ReadOther, At
  <2>2. inbox' \in Seq(0 .. MaxRecord)
    BY <2>1 DEF IInv, TypeOK
  <2>3. TypeOK'
    BY <2>1, <2>2 DEF IInv, TypeOK, setup
  <2>4. Locking'
    BY <2>1 DEF IInv, Locking, setup
  <2>5. Holding'
    <3>1. held \in Nat /\ skipped \in Nat /\ waited \in Nat /\ waited <= RecvTimeout
          /\ held <= RecvTimeout * skipped + waited
      BY <2>1 DEF IInv, TypeOK, Holding, Reading
    <3>2. RecvTimeout * skipped \in Nat
          /\ RecvTimeout * (skipped + 1) = RecvTimeout * skipped + RecvTimeout
      BY <3>1, Constants
    <3>3. held <= RecvTimeout * skipped' + Reading'
      BY <2>1, <3>1, <3>2, Constants DEF Reading
    <3> QED BY <2>1, <3>3, Constants DEF IInv, Holding
  <2> QED BY <2>1, <2>3, <2>4, <2>5, MadeKept DEF IInv
<1> QED BY <1>1, <1>2

LEMMA EnvironmentKeeps ==
    ASSUME IInv, Arrive \/ PortUnreachable \/ Tick
    PROVE  IInv'
<1>1. CASE Arrive \/ PortUnreachable
  <2>1. UNCHANGED <<setup, waited, thread, owner, held, skipped, pending>>
    BY <1>1 DEF Arrive, PortUnreachable
  <2>2. sock_err' \in BOOLEAN
    BY <1>1 DEF Arrive, PortUnreachable, IInv, TypeOK
  <2>3. inbox' \in Seq(0 .. MaxRecord)
    <3>1. inbox \in Seq(0 .. MaxRecord)
      BY DEF IInv, TypeOK
    <3>2. inbox' = inbox \/ \E size \in 0 .. MaxRecord : inbox' = Append(inbox, size)
      BY <1>1 DEF Arrive, PortUnreachable
    <3>3. ASSUME NEW size \in 0 .. MaxRecord
          PROVE  Append(inbox, size) \in Seq(0 .. MaxRecord)
      BY <3>1
    <3> QED BY <3>1, <3>2, <3>3
  <2> QED BY <2>1, <2>2, <2>3, MadeKept DEF IInv, TypeOK, Locking, Holding, Reading, setup
<1>2. CASE Tick
  <2>1. /\ UNCHANGED <<options, pc, live, spoiled, thread, owner, skipped, inbox,
                       sock_err, pending>>
        /\ elapsed' \in Nat /\ waited' \in Nat /\ held' \in Nat
    BY <1>2 DEF Tick, IInv, TypeOK
  <2>2. TypeOK' /\ Made' /\ Locking'
    BY <2>1 DEF IInv, TypeOK, Made, Locking
  <2>3. thread["recv"] = "read" =>
           pc = "open" /\ waited < RecvTimeout /\ waited' = waited + 1
    BY <1>2, Constants DEF Tick, Idle, IInv, Locking
  <2>4. owner # NoOne => thread["recv"] = "read"
    <3>1. ASSUME owner # NoOne PROVE pc = "open"
      BY <3>1, Constants DEF IInv, TypeOK, Locking, InSslPlaces
    <3>2. ASSUME owner # NoOne PROVE thread[owner] = "read"
      BY <1>2, <3>1, <3>2, Constants DEF Tick, Idle, IInv, TypeOK, Locking, InSslPlaces
    <3> QED BY <3>2, Constants DEF IInv, TypeOK, Locking
  <2>5. held' = IF owner = NoOne THEN 0 ELSE held + 1
    BY <1>2 DEF Tick
  <2>6. RecvTimeout * skipped \in Nat /\ waited \in Nat /\ held \in Nat
    BY Constants DEF IInv, TypeOK
  <2>7. Holding'
    BY <2>1, <2>3, <2>4, <2>5, <2>6, Constants DEF IInv, Holding, Reading
  <2> QED BY <2>2, <2>7 DEF IInv
<1> QED BY <1>1, <1>2

LEMMA InvNext == IInv /\ [Next]_vars => IInv'
<1> SUFFICES ASSUME IInv, [Next]_vars PROVE IInv'
  OBVIOUS
<1>1. CASE Receiver
  BY <1>1, ReceiverLeaves, ReceiverWaits DEF Receiver
<1>2. CASE UNCHANGED vars
  BY <1>2 DEF IInv, TypeOK, Made, Locking, Holding, Reading, vars, setup, traffic
<1> QED
  BY <1>1, <1>2, ConstructorKeeps, AcquireKeeps, SenderKeeps, EnvironmentKeeps DEF Next, Ended

LEMMA Invariance == Spec => []IInv
BY InvInit, InvNext, PTL DEF Spec

-----------------------------------------------------------------------------
(* The types of the variables (UdpTransport.cpp:37-358). *)
THEOREM TypeCorrect == Spec => []TypeOK
<1>1. IInv => TypeOK
  BY DEF IInv
<1> QED BY <1>1, Invariance, PTL

(* Two threads are never inside the SSL object at once, and the one that is
   holds ssl_mutex_ (UdpTransport.h:13-14, UdpTransport.cpp:250-358). *)
THEOREM SslExclusiveHolds == Spec => []SslExclusive
<1>1. IInv => SslExclusive
  BY DEF IInv, Locking, SslExclusive, InSsl, InSslPlaces
<1> QED BY <1>1, Invariance, PTL

(* Whichever step of the constructor fails, what it made has been released,
   each object once (UdpTransport.cpp:37-248). *)
THEOREM ReleasedOnceHolds == Spec => []ReleasedOnce
<1>1. IInv => ReleasedOnce
  BY DEF IInv, Made, ReleasedOnce
<1> QED BY <1>1, Invariance, PTL

(* A sender waits for the receiver at most one socket timeout per record
   without application data and one more, for every timeout
   (UdpTransport.cpp:250-358). *)
THEOREM LockHeldBrieflyHolds == Spec => []LockHeldBriefly
<1>1. IInv => LockHeldBriefly
  <2> SUFFICES ASSUME IInv PROVE held <= RecvTimeout * (1 + skipped)
    BY DEF LockHeldBriefly
  <2>1. /\ held \in Nat /\ skipped \in Nat /\ waited \in Nat
        /\ held <= RecvTimeout * skipped + Reading /\ Reading <= RecvTimeout /\ Reading \in Nat
    BY Constants DEF IInv, TypeOK, Holding, Reading
  <2>2. RecvTimeout * skipped \in Nat /\ 1 + skipped = skipped + 1
        /\ RecvTimeout * (skipped + 1) = RecvTimeout * skipped + RecvTimeout
    BY <2>1, Constants
  <2> QED BY <2>1, <2>2, Constants
<1> QED BY <1>1, Invariance, PTL

-----------------------------------------------------------------------------
\* Decrypted data is not left for the network to fetch.

\* While there is some, the receiver is on its way to it: it has not gone to
\* wait for the socket, nor will it.
PendingFirst ==
    pending > 0 =>
        options.use_dtls /\ thread["recv"] \in {"idle", "want_pending", "pending"}

(* Data left over from a record longer than the buffer is what the next
   receive returns, without a wait on the network, however the senders'
   critical sections fall in between.  It is what PendingTaken rests on
   (UdpTransport.cpp:315-327). *)
THEOREM PendingFirstHolds == Spec => []PendingFirst
<1>1. Init => PendingFirst
  BY DEF Init, PendingFirst
<1>2. IInv /\ PendingFirst /\ [Next]_vars => PendingFirst'
  <2> SUFFICES ASSUME IInv, PendingFirst, [Next]_vars PROVE PendingFirst'
    OBVIOUS
  <2>1. thread \in [Threads -> Places] /\ "recv" \in Threads /\ pending \in Nat
    BY Constants DEF IInv, TypeOK
  <2>2. ASSUME UNCHANGED <<options, pending>>, thread'["recv"] = thread["recv"]
        PROVE  PendingFirst'
    BY <2>2 DEF PendingFirst
  <2>3. CASE Constructor \/ Destroy
    BY <2>2, <2>3 DEF Constructor, OpenSocket, MakeObjects, Make, SetBio, StartDtlsFails,
       HandshakeDone, HandshakeOther, HandshakeWants, HandshakeReturns, HandshakeAgain, Catch,
       Destroy, setup, traffic
  <2>4. ASSUME NEW t \in Threads, Acquire(t)
        PROVE  PendingFirst'
    <3>1. pending' = pending /\ options' = options
      BY <2>4 DEF Acquire, setup
    <3>2. CASE t # "recv"
      BY <2>1, <2>2, <2>4, <3>1, <3>2 DEF Acquire, Goto
    <3>3. CASE t = "recv"
      BY <2>1, <2>4, <3>1, <3>3 DEF Acquire, Goto, PendingFirst
    <3> QED BY <3>2, <3>3
  <2>5. ASSUME NEW t \in Senders, Send(t) \/ SslWrite(t)
        PROVE  PendingFirst'
    BY <2>1, <2>2, <2>5, Constants DEF Send, SslWrite, At, Goto, setup
  <2>6. CASE Receive \/ ReadPending \/ LeaveForPoll \/ Poll \/ ReadFails \/ ReadOther \/ ReadTimesOut
    BY <2>1, <2>6, Constants
    DEF Receive, ReadPending, LeaveForPoll, Poll, ReadFails, ReadOther, ReadTimesOut, At, Goto,
        PendingFirst, setup
  <2>7. CASE ReadData
    BY <2>1, <2>7 DEF ReadData, At, Goto, PendingFirst, setup
  <2>8. CASE Arrive \/ PortUnreachable \/ Tick \/ UNCHANGED vars
    BY <2>2, <2>8 DEF Arrive, PortUnreachable, Tick, vars, setup, traffic
  <2> QED BY <2>3, <2>4, <2>5, <2>6, <2>7, <2>8 DEF Next, Receiver, Ended
<1> QED BY <1>1, <1>2, Invariance, PTL DEF Spec

-----------------------------------------------------------------------------
\* How long the handshake lasts.

\* The deadline was ahead when the call of SSL_do_handshake that is running
\* began; every record since has cost at most one wait on the socket.
Unshaken == {"socket", "ctx", "ca", "ssl", "bio", "addr", "peer"}
Shaking ==
    /\ pc \in Unshaken => elapsed = 0 /\ skipped = 0
    /\ pc = "deadline" => skipped = 0
    /\ pc = "handshake" =>
          /\ skipped <= MaxSkipped /\ waited <= RecvTimeout
          /\ elapsed < Deadline + RecvTimeout * skipped + waited
    /\ HandshakeOnTime

LEMMA Durations ==
    ASSUME TypeOK
    PROVE  /\ Deadline \in Nat /\ Deadline > 0
           /\ RecvTimeout \in Nat /\ MaxSkipped \in Nat
           /\ RecvTimeout * (1 + MaxSkipped) \in Nat
           /\ RecvTimeout * skipped \in Nat
           /\ RecvTimeout * (skipped + 1) = RecvTimeout * skipped + RecvTimeout
           /\ skipped <= MaxSkipped =>
                 RecvTimeout * skipped + RecvTimeout <= RecvTimeout * (1 + MaxSkipped)
<1>1. /\ RecvTimeout \in Nat /\ MaxSkipped \in Nat /\ skipped \in Nat
      /\ MinHandshake \in Nat /\ MinHandshake > 0 /\ options.timeout \in Int
  <2>1. MinHandshake \in Nat \ {0} /\ HandshakeTimeouts \subseteq Int
    BY TimesAssumption
  <2>2. options.timeout \in HandshakeTimeouts /\ skipped \in Nat
    BY DEF TypeOK
  <2>3. RecvTimeout \in Nat /\ MaxSkipped \in Nat
    BY TimesAssumption
  <2>4. options.timeout \in Int
    BY <2>1, <2>2
  <2>5. MinHandshake \in Nat /\ MinHandshake > 0
    BY <2>1
  <2> QED BY <2>2, <2>3, <2>4, <2>5
<1>2. Deadline \in Nat /\ Deadline > 0
  BY <1>1 DEF Deadline
<1>3. /\ RecvTimeout * (1 + MaxSkipped) \in Nat /\ RecvTimeout * skipped \in Nat
      /\ RecvTimeout * (skipped + 1) = RecvTimeout * skipped + RecvTimeout
  BY <1>1
<1>4. ASSUME skipped <= MaxSkipped
      PROVE  RecvTimeout * skipped + RecvTimeout <= RecvTimeout * (1 + MaxSkipped)
  <2>1. PICK n \in Nat : MaxSkipped = skipped + n
    <3>1. MaxSkipped - skipped \in Nat /\ MaxSkipped = skipped + (MaxSkipped - skipped)
      BY <1>1, <1>4
    <3> QED BY <3>1
  <2>2. RecvTimeout * (1 + (skipped + n)) = RecvTimeout + RecvTimeout * skipped + RecvTimeout * n
    BY <1>1
  <2>3. RecvTimeout * n \in Nat
    BY <1>1
  <2> QED BY <1>1, <1>3, <2>1, <2>2, <2>3
<1> QED BY <1>1, <1>2, <1>3, <1>4

LEMMA ShakingInit == Init => Shaking
<1> SUFFICES ASSUME Init PROVE Shaking
  OBVIOUS
<1>1. pc = "socket" /\ elapsed = 0 /\ skipped = 0
  BY DEF Init
<1>2. HandshakeOnTime
  BY <1>1, InvInit, Durations DEF HandshakeOnTime, IInv
<1> QED BY <1>1, <1>2 DEF Shaking

\* The steps of the constructor: only the handshake's own touch its count.
LEMMA ShakingConstructor ==
    ASSUME IInv, Shaking, Constructor
    PROVE  Shaking'
<1>1. elapsed' = elapsed /\ options' = options
  BY DEF Constructor, OpenSocket, MakeObjects, Make, SetBio, StartDtlsFails, HandshakeDone,
         HandshakeOther, HandshakeWants, HandshakeAgain, Catch, setup
<1>2. Deadline' = Deadline /\ HandshakeOnTime'
  BY <1>1 DEF Shaking, HandshakeOnTime, Deadline
<1>3. CASE OpenSocket \/ MakeObjects
  <2>1. /\ pc \in Unshaken /\ pc' \in Unshaken \cup {"open", "threw"} /\ skipped' = skipped
    <3>1. CASE OpenSocket
      <4>1. pc = "socket" /\ pc' \in {"ctx", "open", "threw"} /\ skipped' = skipped
        BY <3>1 DEF OpenSocket, traffic
      <4> QED BY <4>1, CleanupValues DEF Unshaken
    <3>2. ASSUME NEW from, NEW object, NEW to, Make(from, object, to),
                 {from, to} \subseteq {"ctx", "ca", "ssl", "bio", "addr", "peer"}
          PROVE  pc \in Unshaken /\ pc' \in Unshaken /\ skipped' = skipped
      BY <3>2, CleanupValues DEF Make, Unshaken, traffic
    <3>3. CASE MakeObjects
      BY <3>2, <3>3 DEF MakeObjects, AfterCtx
    <3> QED BY <1>3, <3>1, <3>3
  <2> QED BY <1>1, <1>2, <2>1, CleanupValues DEF Shaking, Unshaken
<1>4. CASE SetBio
  <2>1. pc \in Unshaken /\ pc' = "handshake" /\ waited' = 0 /\ skipped' = skipped
    BY <1>4, CleanupValues DEF SetBio, Unshaken, traffic
  <2>2. skipped' = 0 /\ elapsed' = 0 /\ RecvTimeout * 0 = 0
    BY <1>1, <2>1, Constants DEF Shaking
  <2>3. elapsed' < Deadline' + RecvTimeout * skipped' + waited'
    BY <1>2, <2>1, <2>2, Durations DEF IInv
  <2> QED BY <1>2, <2>1, <2>2, <2>3, Durations, CleanupValues DEF IInv, Shaking, Unshaken
<1>5. CASE StartDtlsFails \/ HandshakeDone \/ HandshakeWants
  <2>1. pc' \in {"catch", "open", "deadline"} /\ skipped' = 0
    BY <1>5 DEF StartDtlsFails, HandshakeDone, HandshakeWants, HandshakeReturns
  <2> QED BY <1>2, <2>1, CleanupValues DEF Shaking, Unshaken
<1>6. CASE HandshakeOther
  <2>1. /\ pc = "handshake" /\ pc' = "handshake" /\ waited' = 0
        /\ skipped < MaxSkipped /\ skipped' = skipped + 1
    BY <1>6 DEF HandshakeOther, setup
  <2>2. /\ waited \in Nat /\ waited <= RecvTimeout /\ elapsed \in Nat /\ skipped \in Nat
        /\ elapsed < Deadline + RecvTimeout * skipped + waited
    BY <2>1 DEF IInv, TypeOK, Shaking
  <2>3. elapsed' < Deadline' + RecvTimeout * skipped' + waited'
    BY <1>1, <1>2, <2>1, <2>2, Durations DEF IInv
  <2> QED BY <1>2, <2>1, <2>2, <2>3, Durations, CleanupValues DEF IInv, Shaking, Unshaken
<1>7. CASE HandshakeAgain
  <2>1. /\ pc = "deadline" /\ pc' = "handshake" /\ waited' = 0 /\ skipped' = skipped
        /\ ~(elapsed >= Deadline)
    BY <1>7 DEF HandshakeAgain, Overdue, traffic
  <2>2. skipped' = 0 /\ RecvTimeout * 0 = 0 /\ elapsed \in Nat
    BY <2>1, Constants DEF IInv, TypeOK, Shaking
  <2>3. elapsed' < Deadline' + RecvTimeout * skipped' + waited'
    BY <1>1, <1>2, <2>1, <2>2, Durations DEF IInv
  <2> QED BY <1>2, <2>1, <2>2, <2>3, Durations, CleanupValues DEF IInv, Shaking, Unshaken
<1>8. CASE Catch
  <2>1. pc' = "threw"
    BY <1>8 DEF Catch
  <2> QED BY <1>2, <2>1, CleanupValues DEF Shaking, Unshaken
<1> QED BY <1>3, <1>4, <1>5, <1>6, <1>7, <1>8 DEF Constructor

\* Time passes in the handshake only while a call waits on the socket.
LEMMA ShakingTick ==
    ASSUME IInv, Shaking, Tick
    PROVE  Shaking'
<1>1. pc' = pc /\ skipped' = skipped /\ options' = options /\ Deadline' = Deadline
  BY DEF Tick, Deadline
<1>2. CASE pc = "handshake"
  <2>1. waited < RecvTimeout /\ waited' = waited + 1 /\ elapsed' = elapsed + 1
    BY <1>2 DEF Tick, Idle
  <2>2. /\ waited \in Nat /\ elapsed \in Nat /\ skipped \in Nat /\ skipped <= MaxSkipped
        /\ elapsed < Deadline + RecvTimeout * skipped + waited
    BY <1>2 DEF IInv, TypeOK, Shaking
  <2>3. elapsed' < Deadline' + RecvTimeout * skipped' + waited' /\ waited' <= RecvTimeout
    BY <1>1, <2>1, <2>2, Durations DEF IInv
  <2>4. HandshakeOnTime'
    BY <1>1, <2>1, <2>2, Durations DEF IInv, HandshakeOnTime
  <2> QED BY <1>1, <1>2, <2>2, <2>3, <2>4, CleanupValues DEF Shaking, Unshaken
<1>3. CASE pc # "handshake"
  <2>1. elapsed' = elapsed
    BY <1>3 DEF Tick
  <2> QED BY <1>1, <1>3, <2>1 DEF Shaking, HandshakeOnTime, Unshaken
<1> QED BY <1>2, <1>3

LEMMA ShakingNext == IInv /\ Shaking /\ [Next]_vars => Shaking'
<1> SUFFICES ASSUME IInv, Shaking, [Next]_vars PROVE Shaking'
  OBVIOUS
<1>1. CASE Constructor
  BY <1>1, ShakingConstructor
<1>2. CASE Tick
  BY <1>2, ShakingTick
<1>3. CASE UNCHANGED vars
  BY <1>3 DEF Shaking, HandshakeOnTime, Deadline, vars, setup, traffic
<1>4. ASSUME pc' \in {"open", "closed"}, UNCHANGED <<options, elapsed>>
      PROVE  Shaking'
  BY <1>4, CleanupValues DEF Shaking, HandshakeOnTime, Deadline, Unshaken
<1>5. CASE Destroy
  BY <1>4, <1>5 DEF Destroy
<1>6. CASE \E t \in Threads : Acquire(t)
  BY <1>4, <1>6 DEF Acquire, setup
<1>7. CASE \E t \in Senders : Send(t) \/ SslWrite(t)
  BY <1>4, <1>7 DEF Send, SslWrite, At, setup
<1>8. CASE Receiver
  BY <1>4, <1>8 DEF Receiver, Receive, ReadPending, LeaveForPoll, Poll, ReadFails, ReadData,
                    ReadOther, ReadTimesOut, At, setup
<1>9. CASE Arrive \/ PortUnreachable
  BY <1>4, <1>9 DEF Arrive, PortUnreachable, setup
<1> QED BY <1>1, <1>2, <1>3, <1>5, <1>6, <1>7, <1>8, <1>9 DEF Next, Ended

(* The handshake overruns its deadline by one socket timeout for each record
   a call of SSL_do_handshake deals with and one more, whatever the settings,
   a negative one included (UdpTransport.cpp:177-205). *)
THEOREM HandshakeOnTimeHolds == Spec => []HandshakeOnTime
<1>1. Shaking => HandshakeOnTime
  BY DEF Shaking
<1> QED BY <1>1, Invariance, ShakingInit, ShakingNext, PTL DEF Spec
=============================================================================
