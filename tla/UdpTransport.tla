---------------------------- MODULE UdpTransport ----------------------------
(***************************************************************************)
(* One UdpTransport from its constructor to its destructor                 *)
(* (UdpTransport.cpp): the objects the constructor makes and releases, the *)
(* DTLS handshake against its deadline, and then one receiving and two     *)
(* sending threads sharing the SSL object under ssl_mutex_ and the socket  *)
(* with the network.  One tick is 100 ms.                                  *)
(***************************************************************************)
EXTENDS Integers, Sequences, FiniteSets

CONSTANTS
    HandshakeTimeouts,  \* the settings of handshake_timeout_sec to look at
    MinHandshake,       \* the 0.5 of std::max(0.5, handshake_timeout_sec)
    RecvTimeout,        \* kSocketRecvTimeoutMs
    PollTimeout,        \* the 0.2 receiveLoop passes to receive
    BufLen,             \* the room in receiveLoop's buffer
    MaxRecord,          \* bound: the size of a record, in the unit of BufLen
    MaxInbox,           \* bound: datagrams in the socket's queue
    MaxSkipped          \* the most records one call deals with before one it returns for

ASSUME TimesAssumption ==
    /\ HandshakeTimeouts \subseteq Int
    /\ {MinHandshake, RecvTimeout, PollTimeout, BufLen} \subseteq Nat \ {0}
    /\ {MaxRecord, MaxInbox, MaxSkipped} \subseteq Nat

Threads == {"recv", "heartbeat", "control"}
Senders == Threads \ {"recv"}
NoOne == "none"

VARIABLES
    options,  \* use_dtls, whether ca_file is set, handshake_timeout_sec
    pc,       \* where the constructor is; "open", "threw" or "closed" after it
    live,     \* the objects that have been made and not released
    spoiled,  \* an object was released that was not there to release
    elapsed,  \* time since the handshake began
    waited,   \* time the call that now blocks on the socket has been waiting
    thread,   \* where each thread is in send or receive
    owner,    \* the thread that holds ssl_mutex_
    held,     \* how long it has held it
    skipped,  \* records this SSL_read or SSL_do_handshake dealt with and waited on
    inbox,    \* sizes of the datagrams in the socket, 0 for a record without data
    sock_err, \* an ICMP error is waiting to be reported on the socket
    pending   \* SSL_pending: decrypted data not yet taken

setup == <<options, pc, live, spoiled, elapsed>>
traffic == <<thread, owner, held, skipped, inbox, sock_err, pending>>
vars == <<setup, waited, traffic>>

Init ==
    /\ options \in [use_dtls: BOOLEAN, ca_file: BOOLEAN, timeout: HandshakeTimeouts]
    /\ pc = "socket" /\ live = {} /\ spoiled = FALSE /\ elapsed = 0
    /\ waited = 0
    /\ thread = [t \in Threads |-> "idle"]
    /\ owner = NoOne /\ held = 0 /\ skipped = 0
    /\ inbox = <<>> /\ sock_err = FALSE /\ pending = 0

-----------------------------------------------------------------------------
\* The constructor and the destructor.

Release(objects) ==
    /\ live' = live \ objects
    /\ spoiled' = (spoiled \/ ~(objects \subseteq live))

\* Mutant of Cleanup: the branch of BIO_ADDR_rawmake forgets BIO_free.
CleanupNoBio ==
    [ctx |-> {}, ca |-> {"ctx"}, ssl |-> {"ctx"}, bio |-> {"ssl", "ctx"},
     addr |-> {"ssl", "ctx"}, peer |-> {"addr", "ssl", "ctx"},
     handshake |-> {"ssl", "ctx"}, deadline |-> {"ssl", "ctx"}]

\* What each failing branch of startDtls releases before it throws.
Cleanup ==
    [ctx |-> {}, ca |-> {"ctx"}, ssl |-> {"ctx"}, bio |-> {"ssl", "ctx"},
     addr |-> {"bio", "ssl", "ctx"}, peer |-> {"addr", "bio", "ssl", "ctx"},
     handshake |-> {"ssl", "ctx"}, deadline |-> {"ssl", "ctx"}]

\* openSocket closes the socket itself when the address or connect is refused.
OpenSocket ==
    /\ pc = "socket"
    /\ \/ /\ live' = {"sock"}
          /\ pc' = IF options.use_dtls THEN "ctx" ELSE "open"
       \/ pc' = "threw" /\ UNCHANGED live
    /\ UNCHANGED <<options, spoiled, elapsed, waited, traffic>>

\* The step of startDtls at from makes an object and goes on to to.
Make(from, object, to) ==
    /\ pc = from
    /\ pc' = to
    /\ live' = live \cup object
    /\ UNCHANGED <<options, spoiled, elapsed, waited, traffic>>

AfterCtx == IF options.ca_file THEN "ca" ELSE "ssl"

MakeObjects ==
    \/ Make("ctx", {"ctx"}, AfterCtx)
    \/ Make("ca", {}, "ssl")
    \/ Make("ssl", {"ssl"}, "bio")
    \/ Make("bio", {"bio"}, "addr")
    \/ Make("addr", {"addr"}, "peer")

\* BIO_ADDR_free, and SSL_set_bio: from here on the BIO goes with the SSL.
SetBio ==
    /\ pc = "peer"
    /\ Release({"addr", "bio"})
    /\ pc' = "handshake" /\ waited' = 0
    /\ UNCHANGED <<options, elapsed, traffic>>

\* std::max(0.5, handshake_timeout_sec), from the start of the handshake.
Deadline == IF options.timeout > MinHandshake THEN options.timeout ELSE MinHandshake
Overdue == elapsed >= Deadline

\* SSL_do_handshake returns to its loop.
HandshakeReturns ==
    skipped' = 0 /\ UNCHANGED <<thread, owner, held, inbox, sock_err, pending>>

\* Any step of startDtls may fail; the deadline fails only when it has passed.
StartDtlsFails ==
    /\ pc \in DOMAIN Cleanup
    /\ pc = "deadline" => Overdue
    /\ Release(Cleanup[pc])
    /\ pc' = "catch" /\ HandshakeReturns
    /\ UNCHANGED <<options, elapsed, waited>>

HandshakeDone ==
    /\ pc = "handshake"
    /\ pc' = "open" /\ waited' = 0 /\ HandshakeReturns
    /\ UNCHANGED <<options, live, spoiled, elapsed>>

\* A record of the peer's flight that does not complete it: SSL_do_handshake
\* goes on to wait for the next without returning.
HandshakeOther ==
    /\ pc = "handshake" /\ skipped < MaxSkipped
    /\ skipped' = skipped + 1 /\ waited' = 0
    /\ UNCHANGED <<setup, thread, owner, held, inbox, sock_err, pending>>

\* SSL_do_handshake waits on the blocking socket and then wants to read.
HandshakeWants ==
    /\ pc = "handshake" /\ waited > 0
    /\ pc' = "deadline" /\ HandshakeReturns
    /\ UNCHANGED <<options, live, spoiled, elapsed, waited>>

\* Mutant of HandshakeAgain: the deadline is computed anew for each round.
HandshakeRearmed ==
    /\ pc = "deadline" /\ ~Overdue
    /\ pc' = "handshake" /\ waited' = 0 /\ elapsed' = 0
    /\ UNCHANGED <<options, live, spoiled, traffic>>

\* Mutant of HandshakeAgain: the deadline is not looked at.
HandshakeForever ==
    /\ pc = "deadline"
    /\ pc' = "handshake" /\ waited' = 0
    /\ UNCHANGED <<options, live, spoiled, elapsed, traffic>>

HandshakeAgain ==
    /\ pc = "deadline" /\ ~Overdue
    /\ pc' = "handshake" /\ waited' = 0
    /\ UNCHANGED <<options, live, spoiled, elapsed, traffic>>

\* The constructor's catch block; an object whose constructor throws has no
\* destructor call.
Catch ==
    /\ pc = "catch"
    /\ Release({"sock"})
    /\ pc' = "threw"
    /\ UNCHANGED <<options, elapsed, waited, traffic>>

\* The destructor, called when the threads have been joined.
Destroy ==
    /\ pc = "open" /\ \A t \in Threads: thread[t] = "idle"
    /\ Release(IF options.use_dtls THEN {"ssl", "ctx", "sock"} ELSE {"sock"})
    /\ pc' = "closed"
    /\ UNCHANGED <<options, elapsed, waited, traffic>>

-----------------------------------------------------------------------------
\* send and receive on an open transport.

At(t, place) == pc = "open" /\ thread[t] = place
Goto(t, place) == thread' = [thread EXCEPT ![t] = place]
Unlock == owner' = NoOne /\ held' = 0 /\ skipped' = 0

\* ssl_mutex_, and the place in the critical section it leads to.
Acquire(t) ==
    /\ pc = "open" /\ owner = NoOne
    /\ \/ thread[t] = "want_pending" /\ Goto(t, "pending")
       \/ thread[t] = "want_read" /\ Goto(t, "read")
       \/ thread[t] = "want_write" /\ Goto(t, "write")
    /\ owner' = t /\ waited' = IF t = "recv" THEN 0 ELSE waited
    /\ UNCHANGED <<setup, held, skipped, inbox, sock_err, pending>>

\* Mutant of Send: SSL_write without the lock.
SendUnlocked(t) ==
    /\ At(t, "idle")
    /\ \/ options.use_dtls /\ Goto(t, "write") /\ UNCHANGED sock_err
       \/ ~options.use_dtls /\ sock_err' = FALSE /\ UNCHANGED thread
    /\ UNCHANGED <<setup, waited, owner, held, skipped, inbox, pending>>

\* send: plain UDP goes straight to the socket, whose pending error it takes.
Send(t) ==
    /\ At(t, "idle")
    /\ \/ options.use_dtls /\ Goto(t, "want_write") /\ UNCHANGED sock_err
       \/ ~options.use_dtls /\ sock_err' = FALSE /\ UNCHANGED thread
    /\ UNCHANGED <<setup, waited, owner, held, skipped, inbox, pending>>

\* SSL_write does not wait; it fails when it meets the socket's error.
SslWrite(t) ==
    /\ At(t, "write")
    /\ Goto(t, "idle") /\ Unlock
    /\ sock_err' = FALSE
    /\ UNCHANGED <<setup, waited, inbox, pending>>

Receive ==
    /\ At("recv", "idle")
    /\ Goto("recv", IF options.use_dtls THEN "want_pending" ELSE "poll")
    /\ waited' = 0
    /\ UNCHANGED <<setup, owner, held, skipped, inbox, sock_err, pending>>

\* Mutant of ReadPending: the whole buffer counts as read.
ReadPendingWhole ==
    /\ At("recv", "pending") \/ At("recv", "read")
    /\ pending > 0
    /\ pending' = pending - BufLen
    /\ Goto("recv", "idle") /\ Unlock
    /\ UNCHANGED <<setup, waited, inbox, sock_err>>

\* SSL_pending(ssl_) > 0: SSL_read without waiting, then return.
ReadPending ==
    /\ At("recv", "pending") \/ At("recv", "read")
    /\ pending > 0
    /\ pending' = IF pending > BufLen THEN pending - BufLen ELSE 0
    /\ Goto("recv", "idle") /\ Unlock
    /\ UNCHANGED <<setup, waited, inbox, sock_err>>

\* Mutant of LeaveForPoll: the lock is kept while waiting for a datagram.
PollLocked ==
    /\ At("recv", "pending") /\ pending = 0
    /\ Goto("recv", "poll") /\ waited' = 0
    /\ UNCHANGED <<setup, owner, held, skipped, inbox, sock_err, pending>>

\* Mutant of LeaveForPoll: SSL_pending is not looked at.
PollAlways ==
    /\ At("recv", "pending")
    /\ Goto("recv", "poll") /\ waited' = 0 /\ Unlock
    /\ UNCHANGED <<setup, inbox, sock_err, pending>>

\* Nothing pending: the lock is released before the wait.
LeaveForPoll ==
    /\ At("recv", "pending") /\ pending = 0
    /\ Goto("recv", "poll") /\ waited' = 0 /\ Unlock
    /\ UNCHANGED <<setup, inbox, sock_err, pending>>

Readable == inbox # <<>> \/ sock_err

\* waitReadable: poll wakes for a datagram or an error, or times out.
Poll ==
    /\ At("recv", "poll")
    /\ \/ Readable /\ Goto("recv", IF options.use_dtls THEN "want_read" ELSE "read")
       \/ ~Readable /\ waited = PollTimeout /\ Goto("recv", "idle")
    /\ waited' = 0
    /\ UNCHANGED <<setup, owner, held, skipped, inbox, sock_err, pending>>

\* recv and SSL_read first report the socket's error: receive returns -1.
ReadFails ==
    /\ At("recv", "read") /\ sock_err /\ pending = 0
    /\ sock_err' = FALSE
    /\ Goto("recv", "idle") /\ Unlock
    /\ UNCHANGED <<setup, waited, inbox, pending>>

\* A record with data is returned; DTLS keeps what the buffer has no room for,
\* plain UDP loses it.
ReadData ==
    /\ At("recv", "read") /\ ~sock_err /\ pending = 0
    /\ inbox # <<>> /\ Head(inbox) > 0
    /\ inbox' = Tail(inbox)
    /\ pending' = IF options.use_dtls /\ Head(inbox) > BufLen
                  THEN Head(inbox) - BufLen ELSE 0
    /\ Goto("recv", "idle") /\ Unlock
    /\ UNCHANGED <<setup, waited, sock_err>>

\* SSL_read deals with a record of its own and waits for the next.
ReadOther ==
    /\ At("recv", "read") /\ ~sock_err /\ pending = 0
    /\ inbox # <<>> /\ Head(inbox) = 0
    /\ inbox' = Tail(inbox)
    /\ skipped' = skipped + 1 /\ waited' = 0
    /\ UNCHANGED <<setup, thread, owner, held, sock_err, pending>>

\* SO_RCVTIMEO: EAGAIN or WANT_READ, receive returns 0.
ReadTimesOut ==
    /\ At("recv", "read") /\ pending = 0 /\ ~Readable /\ waited = RecvTimeout
    /\ Goto("recv", "idle") /\ Unlock
    /\ UNCHANGED <<setup, waited, inbox, sock_err, pending>>

-----------------------------------------------------------------------------
\* The network and time.

OtherRecords == skipped + Cardinality({i \in DOMAIN inbox: inbox[i] = 0})

Arrive ==
    /\ pc = "open" /\ Len(inbox) < MaxInbox
    /\ \E size \in 0 .. MaxRecord:
         /\ size = 0 => options.use_dtls /\ OtherRecords < MaxSkipped
         /\ inbox' = Append(inbox, size)
    /\ UNCHANGED <<setup, waited, thread, owner, held, skipped, sock_err, pending>>

\* The robot's host has no socket on the port.
PortUnreachable ==
    /\ pc = "open" /\ ~sock_err
    /\ sock_err' = TRUE
    /\ UNCHANGED <<setup, waited, thread, owner, held, skipped, inbox, pending>>

Waiting(t) == thread[t] \in {"want_pending", "want_read", "want_write"}

\* While a transport is open, time passes when every thread waits for the
\* socket, for the lock or for its next call.
Idle ==
    \/ pc = "handshake" /\ waited < RecvTimeout
    \/ /\ pc = "open"
       /\ owner = NoOne => \A t \in Threads: ~Waiting(t)
       /\ \A t \in Threads: thread[t] \notin {"pending", "write"}
       /\ thread["recv"] = "poll" => ~Readable /\ waited < PollTimeout
       /\ thread["recv"] = "read" => ~Readable /\ waited < RecvTimeout

Tick ==
    /\ Idle
    /\ elapsed' = IF pc = "handshake" THEN elapsed + 1 ELSE elapsed
    /\ waited' = IF pc = "handshake" \/ thread["recv"] \in {"poll", "read"}
                 THEN waited + 1 ELSE waited
    /\ held' = IF owner = NoOne THEN 0 ELSE held + 1
    /\ UNCHANGED <<options, pc, live, spoiled, thread, owner, skipped, inbox,
                   sock_err, pending>>

Ended == pc \in {"threw", "closed"} /\ UNCHANGED vars

Constructor ==
    OpenSocket \/ MakeObjects \/ SetBio \/ StartDtlsFails \/ HandshakeDone
    \/ HandshakeOther \/ HandshakeWants \/ HandshakeAgain \/ Catch

Receiver ==
    Receive \/ ReadPending \/ LeaveForPoll \/ Poll \/ ReadFails \/ ReadData
    \/ ReadOther \/ ReadTimesOut

Next ==
    \/ Constructor \/ Destroy
    \/ \E t \in Threads: Acquire(t)
    \/ \E t \in Senders: Send(t) \/ SslWrite(t)
    \/ Receiver
    \/ Arrive \/ PortUnreachable \/ Tick \/ Ended

Spec == Init /\ [][Next]_vars

\* Threads that can run do run and time passes.  A thread waiting for the
\* lock gets it if it is free again and again: the senders pause between sends.
Fairness ==
    /\ WF_vars(Constructor) /\ WF_vars(Receiver) /\ WF_vars(Tick)
    /\ \A t \in Threads: SF_vars(Acquire(t))
    /\ \A t \in Senders: WF_vars(SslWrite(t))

FairSpec == Spec /\ Fairness

-----------------------------------------------------------------------------
Places == {"idle", "want_pending", "pending", "poll", "want_read", "read",
           "want_write", "write"}

\* Types of the variables.  Who holds ssl_mutex_ where is SslExclusive's.
TypeOK ==
    /\ options \in [use_dtls: BOOLEAN, ca_file: BOOLEAN, timeout: HandshakeTimeouts]
    /\ pc \in DOMAIN Cleanup \cup {"socket", "catch", "threw", "open", "closed"}
    /\ live \subseteq {"sock", "ctx", "ssl", "bio", "addr"}
    /\ spoiled \in BOOLEAN /\ sock_err \in BOOLEAN
    /\ {elapsed, waited, held, skipped, pending} \subseteq Nat
    /\ thread \in [Threads -> Places]
    /\ owner \in Threads \cup {NoOne}
    /\ inbox \in Seq(0 .. MaxRecord)

InSsl == {t \in Threads: thread[t] \in {"pending", "read", "write"}}

\* Two threads are never inside the SSL object at once (UdpTransport.h:13-14),
\* and the one that is holds ssl_mutex_.
SslExclusive == options.use_dtls => InSsl \subseteq {owner}

\* Whichever step of the constructor fails, and when the destructor runs,
\* every object made has been released, and released once: there is no
\* destructor call after a constructor that throws.
ReleasedOnce ==
    /\ ~spoiled
    /\ pc \in {"threw", "closed"} => live = {}

\* The senders wait for the receiver at most one socket timeout per record
\* without application data, and one more: the wait for the next datagram,
\* which may last 0.2 s, is not under the lock.
LockHeldBriefly == held <= RecvTimeout * (1 + skipped)

\* The deadline is looked at only between two calls of SSL_do_handshake, and
\* one call waits a socket timeout for each record it deals with: the handshake
\* overruns its setting by that much and no more.
HandshakeOnTime == elapsed < Deadline + RecvTimeout * (1 + MaxSkipped)

\* Data that was decrypted and did not fit the buffer is fetched by a later
\* receive although the socket has nothing more to read, unless the node ends.
PendingTaken == pending > 0 ~> (pending = 0 \/ pc = "closed")

\* The handshake ends, with a peer that never answers too: the constructor
\* returns or throws.
ConstructorEnds == <>(pc \in {"open", "threw"})
=============================================================================
