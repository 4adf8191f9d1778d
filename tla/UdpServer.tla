----------------------------- MODULE UdpServer -----------------------------
(***************************************************************************)
(* The UDP server: server_transport and server_socket of udp.cc, the       *)
(* dgram_handler below them, and the requests handed to the dispatcher,    *)
(* each with a response_sender that remembers where it came from.          *)
(*                                                                         *)
(* Processes.  One receive is outstanding at a time; the loop fills the    *)
(* unpacker's buffer and m_remote, then the strand runs on_read().         *)
(* Threads answer requests, as in TcpServer.  send_to() is one step, under *)
(* the handler's mutex, and may throw (a response too long for a datagram, *)
(* say); a dispatcher that does not catch this ends on_read() like any     *)
(* other exception.                                                        *)
(*                                                                         *)
(* The network loses, repeats and reorders datagrams.  A datagram longer   *)
(* than the room in the unpacker's buffer is cut: the unpacker waits for   *)
(* the rest and takes the bytes of the next datagram for it.               *)
(***************************************************************************)
EXTENDS Naturals, FiniteSets

CONSTANTS
    Threads,    \* threads that answer requests
    Clients,    \* the endpoints requests come from
    Requests,   \* the messages of a run
    Notes,      \* those of them that are notifications
    Large,      \* those that may not fit into the buffer
    MaxCopies,  \* bound: how often the network delivers a datagram
    None        \* no client, no request

\* A request object: the message, the how many-eth of its copies, the endpoint.
Objects == [q : Requests, n : 1 .. MaxCopies, to : Clients]

ASSUME UdpServerAssumption ==
    /\ Notes \subseteq Requests /\ Large \subseteq Requests
    /\ MaxCopies \in Nat \ {0}
    /\ None \notin Clients \cup Requests /\ None \notin Objects

VARIABLES
    stopped,    \* loop_impl::end() has stopped the io_service
    net,        \* datagrams on the way
    of,         \* the client that has sent a message
    copies,     \* how often it was delivered
    recv,       \* the receive: "pending", "arrived" (with a datagram), "failed" or "off"
    got,        \* the datagram in the buffer
    m_remote,   \* where it came from
    reading,    \* on_read() is running
    msg,        \* the message it is about to handle
    rest,       \* the message the unpacker has the beginning of
    handed,     \* the requests given to the dispatcher, with their response_sender
    m_ms,       \* those of them that have not been answered
    pc, req,    \* what each thread does, and with which request
    \* history
    born,       \* requests made of each message
    replies,    \* responses sent to each request
    raced,      \* requests that two threads have answered at once
    mixed,      \* messages put together from two datagrams
    broken      \* a receive has failed or on_read() was left by an exception

netVars  == <<net, of, copies>>
readVars == <<recv, got, m_remote, reading, msg, rest, born, mixed, broken>>
sendVars == <<m_ms, pc, req, replies, raced>>
vars == <<stopped, netVars, readVars, handed, sendVars>>

\* listen() has bound the socket and started the first receive; serve() has
\* been called.
Init ==
    /\ stopped = FALSE
    /\ net = {} /\ of = [q \in Requests |-> None] /\ copies = [q \in Requests |-> 0]
    /\ recv = "pending" /\ got = None /\ m_remote = None
    /\ reading = FALSE /\ msg = None /\ rest = None
    /\ handed = {} /\ m_ms = {}
    /\ pc = [t \in Threads |-> "idle"] /\ req = [t \in Threads |-> None]
    /\ born = [q \in Requests |-> 0] /\ replies = [o \in Objects |-> 0]
    /\ raced = {} /\ mixed = {} /\ broken = FALSE

-----------------------------------------------------------------------------
(* Clients and the network *)

client_sends(c, q) ==
    /\ of[q] = None
    /\ of' = [of EXCEPT ![q] = c]
    /\ net' = net \cup {q}
    /\ UNCHANGED <<stopped, copies, readVars, handed, sendVars>>

datagram_lost(q) ==
    /\ q \in net
    /\ net' = net \ {q}
    /\ UNCHANGED <<stopped, of, copies, readVars, handed, sendVars>>

\* The receive completes; the network may keep a copy.
receive(q, kept) ==
    /\ ~stopped /\ recv = "pending" /\ q \in net
    /\ copies' = [copies EXCEPT ![q] = @ + 1]
    /\ net' = IF kept /\ copies'[q] < MaxCopies THEN net ELSE net \ {q}
    /\ recv' = "arrived" /\ got' = q /\ m_remote' = of[q]
    /\ UNCHANGED <<stopped, of, reading, msg, rest, born, mixed, broken, handed, sendVars>>

receive_fails ==
    /\ ~stopped /\ recv = "pending"
    /\ recv' = "failed"
    /\ UNCHANGED <<stopped, netVars, got, m_remote, reading, msg, rest, born, mixed, broken,
                   handed, sendVars>>

-----------------------------------------------------------------------------
(* dgram_handler::on_read() *)

\* What the unpacker makes of a datagram: a message, or none yet; m and r are
\* the message and what is kept of one that is not complete.
unpacked(m, r) ==
    \/ rest = None /\ m = got /\ r = None
    \/ rest = None /\ got \in Large /\ m = None /\ r = got
    \/ rest # None /\ m = rest /\ r = None
    \/ rest # None /\ m = None /\ r = rest

\* A mutated form: the next receive is started before the message is handled.
on_read_receives_first(m, r) ==
    /\ ~stopped /\ recv = "arrived" /\ ~reading
    /\ unpacked(m, r)
    /\ reading' = TRUE /\ recv' = "pending"
    /\ msg' = m /\ rest' = r
    /\ mixed' = IF rest # None THEN mixed \cup {rest} ELSE mixed
    /\ UNCHANGED <<stopped, netVars, got, m_remote, born, broken, handed, sendVars>>

on_read(m, r) ==
    /\ ~stopped /\ recv = "arrived" /\ ~reading
    /\ unpacked(m, r)
    /\ reading' = TRUE /\ recv' = "off"
    /\ msg' = m /\ rest' = r
    /\ mixed' = IF rest # None THEN mixed \cup {rest} ELSE mixed
    /\ UNCHANGED <<stopped, netVars, got, m_remote, born, broken, handed, sendVars>>

on_read_error ==
    /\ ~stopped /\ recv = "failed"
    /\ recv' = "off" /\ broken' = TRUE
    /\ UNCHANGED <<stopped, netVars, got, m_remote, reading, msg, rest, born, mixed, handed,
                   sendVars>>

\* The request object for the message in hand.
request(to) == [q |-> msg, n |-> born[msg] + 1, to |-> to]

\* A mutated form: the response_sender has no endpoint.
on_message_without_endpoint ==
    /\ reading /\ msg # None
    /\ handed' = handed \cup {request(None)}
    /\ m_ms' = IF msg \in Notes THEN m_ms ELSE m_ms \cup {request(None)}
    /\ born' = [born EXCEPT ![msg] = @ + 1]
    /\ msg' = None
    /\ UNCHANGED <<stopped, netVars, recv, got, m_remote, reading, rest, mixed, broken, pc, req,
                   replies, raced>>

\* on_request() takes a response_sender with a copy of m_remote, on_notify()
\* takes none, and the dispatcher is called.
on_message ==
    /\ reading /\ msg # None
    /\ handed' = handed \cup {request(m_remote)}
    /\ m_ms' = IF msg \in Notes THEN m_ms ELSE m_ms \cup {request(m_remote)}
    /\ born' = [born EXCEPT ![msg] = @ + 1]
    /\ msg' = None
    /\ UNCHANGED <<stopped, netVars, recv, got, m_remote, reading, rest, mixed, broken, pc, req,
                   replies, raced>>

\* An exception, of the unpacker, of a message that is none, or of the
\* dispatcher: it is logged, and no receive follows.
on_read_throws ==
    /\ reading
    /\ reading' = FALSE /\ msg' = None /\ rest' = None /\ broken' = TRUE
    /\ UNCHANGED <<stopped, netVars, recv, got, m_remote, born, mixed, handed, sendVars>>

\* A mutated form: a datagram without a message ends the reading.
start_after_message ==
    /\ reading /\ msg = None
    /\ reading' = FALSE
    /\ recv' = IF rest = None THEN "pending" ELSE recv
    /\ UNCHANGED <<stopped, netVars, got, m_remote, msg, rest, born, mixed, broken, handed, sendVars>>

start ==
    /\ reading /\ msg = None
    /\ reading' = FALSE /\ recv' = "pending"
    /\ UNCHANGED <<stopped, netVars, got, m_remote, msg, rest, born, mixed, broken, handed, sendVars>>

-----------------------------------------------------------------------------
(* Answering: request_impl::send_data(), response_sender *)

\* A copy of m_ms is taken, unless it is null.
send_data(t, o) ==
    /\ pc[t] = "idle" /\ o \in m_ms
    /\ pc' = [pc EXCEPT ![t] = "send_to"] /\ req' = [req EXCEPT ![t] = o]
    /\ raced' = IF \E u \in Threads : req[u] = o THEN raced \cup {o} ELSE raced
    /\ UNCHANGED <<stopped, netVars, readVars, handed, m_ms, replies>>

send_to(t) ==
    /\ pc[t] = "send_to"
    /\ replies' = [replies EXCEPT ![req[t]] = @ + 1]
    /\ pc' = [pc EXCEPT ![t] = "reset"]
    /\ UNCHANGED <<stopped, netVars, readVars, handed, m_ms, req, raced>>

\* A mutated form: as over TCP, a response that failed counts as sent.
send_to_fails(t) ==
    /\ pc[t] = "send_to"
    /\ pc' = [pc EXCEPT ![t] = "reset"]
    /\ UNCHANGED <<stopped, netVars, readVars, handed, m_ms, req, replies, raced>>

\* send_to() throws into the program; m_ms is not reset.
send_to_throws(t) ==
    /\ pc[t] = "send_to"
    /\ pc' = [pc EXCEPT ![t] = "idle"] /\ req' = [req EXCEPT ![t] = None]
    /\ UNCHANGED <<stopped, netVars, readVars, handed, m_ms, replies, raced>>

\* m_ms.reset().
reset(t) ==
    /\ pc[t] = "reset"
    /\ m_ms' = m_ms \ {req[t]}
    /\ pc' = [pc EXCEPT ![t] = "idle"] /\ req' = [req EXCEPT ![t] = None]
    /\ UNCHANGED <<stopped, netVars, readVars, handed, replies, raced>>

\* server::close() stops the loop; close() of the transport does nothing, and
\* the requests keep the socket they answer through.
close ==
    /\ ~stopped /\ stopped' = TRUE
    /\ UNCHANGED <<netVars, readVars, handed, sendVars>>

-----------------------------------------------------------------------------

Network == \E q \in Requests :
    \/ \E c \in Clients : client_sends(c, q)
    \/ datagram_lost(q)
    \/ \E kept \in BOOLEAN : receive(q, kept)
Reading ==
    \/ \E m \in Requests \cup {None}, r \in Requests \cup {None} : on_read(m, r)
    \/ on_message \/ on_read_throws \/ start \/ on_read_error
Answering(t) ==
    \/ \E o \in handed : send_data(t, o)
    \/ send_to(t) \/ send_to_throws(t) \/ reset(t)

Next ==
    \/ Network \/ receive_fails \/ Reading \/ close
    \/ \E t \in Threads : Answering(t)

Safety == Init /\ [][Next]_vars

-----------------------------------------------------------------------------
(* Properties *)

\* Type invariant.
TypeOK ==
    /\ stopped \in BOOLEAN /\ reading \in BOOLEAN /\ broken \in BOOLEAN
    /\ net \subseteq Requests /\ of \in [Requests -> Clients \cup {None}]
    /\ copies \in [Requests -> 0 .. MaxCopies] /\ born \in [Requests -> 0 .. MaxCopies]
    /\ recv \in {"pending", "arrived", "failed", "off"}
    /\ {got, msg, rest} \subseteq Requests \cup {None} /\ m_remote \in Clients \cup {None}
    /\ handed \subseteq Objects /\ m_ms \subseteq handed
    /\ pc \in [Threads -> {"idle", "send_to", "reset"}]
    /\ req \in [Threads -> handed \cup {None}]
    /\ replies \in [Objects -> Nat] /\ raced \subseteq handed /\ mixed \subseteq Requests

\* The response_sender of a request has the endpoint of the client that sent
\* it, although m_remote is overwritten by every datagram, copies and those
\* that are only part of a message included.  The exception is a message whose
\* rest was taken from another client's datagram.
RepliesGoHome == \A o \in handed : o.to = of[o.q] \/ o.q \in mixed

\* A delivered request is answered at most once, a notification never, unless
\* two threads answer at the same time; and is_sent() is true only of one whose
\* response went out: when send_to() threw it can still be answered, with an
\* error say.  (A request delivered twice is executed and answered twice.)
AnsweredOnce ==
    \A o \in handed :
        /\ replies[o] > (IF o.q \in Notes THEN 0 ELSE 1) => o \in raced
        /\ o.q \notin Notes /\ o \notin m_ms => replies[o] > 0

\* The server listens unless an error or an exception has ended on_read():
\* duplicates, incomplete messages and notifications do not.
DeafAfterError == recv = "off" /\ ~reading => broken
=============================================================================
