----------------------------- MODULE UdpClient -----------------------------
(***************************************************************************)
(* A session over UDP: client_transport and client_socket of udp.cc and    *)
(* the dgram_handler below them, with the loop running.                    *)
(*                                                                         *)
(* As in TcpClient every step is a step of Session or leaves its state     *)
(* alone.  There are three differences.  Nothing is locked between the     *)
(* test of is_open() and connect(), so two threads may connect at once.    *)
(* No error ever reaches the session: a failed connect() only closes the   *)
(* socket, a failed send_to() throws, a failed receive ends.  And the      *)
(* network loses, repeats and reorders datagrams.                          *)
(*                                                                         *)
(* A datagram holds one answer.  One that the room in the unpacker's       *)
(* buffer cuts short is kept, and the next datagram is taken for its rest: *)
(* the message, if one comes of it, carries the msgid of the first, and    *)
(* what else it then says is not modelled.  Two receives that share the    *)
(* buffer may garble what they get, which is a datagram lost, repeated or  *)
(* bad.  Opening the socket starts a new incarnation with a port of its    *)
(* own; what was sent to the old port is lost.                             *)
(***************************************************************************)
EXTENDS Session

CONSTANTS
    Strand,         \* the handler: on_read()
    MaxConn         \* bound: incarnations of the socket

ASSUME UdpAssumption == Readers = {Strand} /\ MaxConn \in Nat \ {0}

Conns == 0 .. MaxConn

VARIABLES
    sock,           \* "closed", "open" (not connected) or "up"
    conn,           \* incarnation of the socket, 0 before the first
    refused,        \* the socket holds an error the peer's host has sent
    spoke,          \* something was sent on this incarnation
    inbox,          \* answers on the way to this incarnation
    wrote,          \* the incarnation a request was sent on, 0 for none
    at,             \* where a thread is in send_data()
    reads,          \* receives outstanding on each incarnation
    batch,          \* the answer on_read() has received and not yet handled
    rest,           \* the answer the unpacker has only a part of
    reading,        \* on_read() is handling a message
    \* history
    failed,         \* incarnations on which a receive has failed
    crowded         \* two threads were in connect() at once

netVars  == <<sock, conn, refused, spoke, inbox, wrote>>
readVars == <<reads, batch, rest, reading, failed>>
udpVars  == <<netVars, readVars, at, crowded>>
udpAll   == <<vars, udpVars>>

\* The constructor of client_transport has connected, or failed to.
UInit ==
    /\ Init
    /\ \/ sock = "closed" /\ conn = 0 /\ reads = [k \in Conns |-> 0]
       \/ sock = "up" /\ conn = 1 /\ reads = [k \in Conns |-> IF k = 1 THEN 1 ELSE 0]
    /\ refused = FALSE /\ spoke = FALSE /\ inbox = {} /\ wrote = [c \in Calls |-> 0]
    /\ at = [t \in Threads |-> "out"]
    /\ batch = {} /\ rest = {} /\ reading = FALSE /\ failed = {} /\ crowded = FALSE

is_open == sock # "closed"

goto(t, where) == at' = [at EXCEPT ![t] = where]

-----------------------------------------------------------------------------
(* send_data() of client_transport, connect() of client_socket *)

udp_call(t) ==
    /\ \/ \E c \in Calls : next_msgid(t, c)
       \/ send_request_impl(t)
       \/ send_notify_impl(t)
    /\ UNCHANGED udpVars

\* A mutated form: is_open() is not looked at.
send_data_connects(t) ==
    /\ pc[t] = "send" /\ at[t] = "out"
    /\ goto(t, "connect")
    /\ crowded' = (crowded \/ \E u \in Threads : at[u] \in {"connect", "connecting", "start"})
    /\ UNCHANGED <<vars, netVars, readVars>>

\* The unlocked test of is_open().
send_data(t) ==
    /\ pc[t] = "send" /\ at[t] = "out"
    /\ goto(t, IF is_open THEN "test" ELSE "connect")
    /\ crowded' = (crowded \/ (~is_open /\ \E u \in Threads :
                                  at[u] \in {"connect", "connecting", "start"}))
    /\ UNCHANGED <<vars, netVars, readVars>>

\* connect() of the socket opens it if it is closed, ...
connect_opens(t) ==
    /\ at[t] = "connect" /\ (is_open \/ conn < MaxConn)
    /\ sock' = IF is_open THEN sock ELSE "open"
    /\ conn' = IF is_open THEN conn ELSE conn + 1
    /\ spoke' = (is_open /\ spoke)
    /\ goto(t, "connecting")
    /\ UNCHANGED <<vars, refused, inbox, wrote, readVars, crowded>>

\* ... and names the peer,
connect_succeeds(t) ==
    /\ at[t] = "connecting" /\ is_open
    /\ sock' = "up"
    /\ goto(t, "start")
    /\ UNCHANGED <<vars, conn, refused, spoke, inbox, wrote, readVars, crowded>>

\* or fails: the socket is closed, whoever may be using it, and connect()
\* returns as if all were well.
connect_fails(t) ==
    /\ at[t] = "connecting"
    /\ sock' = "closed" /\ inbox' = {} /\ refused' = FALSE /\ spoke' = FALSE
    /\ goto(t, "test")
    /\ UNCHANGED <<vars, conn, wrote, readVars, crowded>>

\* start(): the first receive, in vain if the socket was closed just now.
start(t) ==
    /\ at[t] = "start"
    /\ reads' = [reads EXCEPT ![conn] = @ + 1]
    /\ goto(t, "test")
    /\ UNCHANGED <<vars, netVars, batch, rest, reading, failed, crowded>>

\* set_option() throws on a socket that was closed meanwhile.
start_throws(t) ==
    /\ at[t] = "start" /\ ~is_open
    /\ send_throws(t)
    /\ goto(t, "out")
    /\ UNCHANGED <<netVars, readVars, crowded>>

-----------------------------------------------------------------------------
(* send_data() of dgram_handler *)

\* is_open() is false and send_data() returns, ...
send_test_drops(t) ==
    /\ at[t] = "test" /\ ~is_open
    /\ send_dropped(t)
    /\ goto(t, "out")
    /\ UNCHANGED <<netVars, readVars, crowded>>

\* ... or it goes on to remote_endpoint() and send_to():
send_test_passes(t) ==
    /\ at[t] = "test" /\ is_open
    /\ goto(t, "send_to")
    /\ UNCHANGED <<vars, netVars, readVars, crowded>>

\* the datagram is sent,
send_to(t) ==
    /\ at[t] = "send_to" /\ sock = "up" /\ ~refused
    /\ send_written(t)
    /\ wrote' = [c \in Calls |-> IF c = cur[t] THEN conn ELSE wrote[c]]
    /\ spoke' = TRUE
    /\ goto(t, "out")
    /\ UNCHANGED <<sock, conn, refused, inbox, readVars, crowded>>

\* or one of them throws: the socket is closed or not connected, an error was
\* waiting, or the message is too long for a datagram.
send_to_throws(t) ==
    /\ at[t] = "send_to"
    /\ send_throws(t)
    /\ refused' = FALSE
    /\ goto(t, "out")
    /\ UNCHANGED <<sock, conn, spoke, inbox, wrote, readVars, crowded>>

-----------------------------------------------------------------------------
(* dgram_handler::on_read(), on the strand *)

StrandIdle == ~reading /\ pc[Strand] = "idle"

\* What the unpacker makes of a datagram: a message or none yet; m is the answer
\* it has now, r the one it has a part of.
unpacked(c, m, r) ==
    \/ rest = {} /\ m = {c} /\ r = {}
    \/ rest = {} /\ m = {} /\ r = {c}
    \/ rest # {} /\ m = rest /\ r = {}
    \/ rest # {} /\ m = {} /\ r = rest

\* A datagram has been received; the network may have kept a copy.
on_read(c, kept) ==
    /\ StrandIdle /\ sock = "up" /\ reads[conn] > 0 /\ ~refused /\ c \in inbox
    /\ reads' = [reads EXCEPT ![conn] = @ - 1]
    /\ inbox' = IF kept THEN inbox ELSE inbox \ {c}
    /\ unpacked(c, batch', rest') /\ reading' = TRUE
    /\ UNCHANGED <<vars, sock, conn, refused, spoke, wrote, failed, at, crowded>>

\* Or it is a notification: the session's on_notify() ignores it.
on_notify ==
    /\ StrandIdle /\ sock = "up" /\ reads[conn] > 0 /\ ~refused /\ rest = {}
    /\ reads' = [reads EXCEPT ![conn] = @ - 1]
    /\ reading' = TRUE
    /\ UNCHANGED <<vars, netVars, batch, rest, failed, at, crowded>>

on_message(c) ==
    /\ c \in batch
    /\ on_response(Strand, c)
    /\ batch' = {}
    /\ UNCHANGED <<netVars, reads, rest, reading, failed, at, crowded>>

message_done ==
    /\ handler_done(Strand)
    /\ UNCHANGED udpVars

\* A mutated form: an answer is taken for the last one.
read_over ==
    /\ reading /\ batch = {} /\ pc[Strand] = "idle"
    /\ reading' = FALSE
    /\ UNCHANGED <<vars, netVars, reads, batch, rest, failed, at, crowded>>

\* The next receive, on whatever the socket is by now.
read_again ==
    /\ reading /\ batch = {} /\ pc[Strand] = "idle"
    /\ reads' = [reads EXCEPT ![conn] = @ + 1]
    /\ reading' = FALSE
    /\ UNCHANGED <<vars, netVars, batch, rest, failed, at, crowded>>

\* A datagram that is no answer, or not the rest of one, throws: the unpacker is
\* emptied and no receive follows.
bad_message ==
    /\ StrandIdle /\ sock = "up" /\ reads[conn] > 0
    /\ reads' = [reads EXCEPT ![conn] = @ - 1]
    /\ failed' = failed \cup {conn} /\ rest' = {}
    /\ UNCHANGED <<vars, netVars, batch, reading, at, crowded>>

\* Nor does one follow an error: the socket was closed, or held an error.
on_read_error(k) ==
    /\ StrandIdle /\ reads[k] > 0
    /\ k # conn \/ ~is_open \/ refused
    /\ reads' = [reads EXCEPT ![k] = @ - 1]
    /\ refused' = (refused /\ k # conn)
    /\ failed' = failed \cup {k} /\ rest' = {}
    /\ UNCHANGED <<vars, sock, conn, spoke, inbox, wrote, batch, reading, at, crowded>>

-----------------------------------------------------------------------------
(* The peer and the network *)

\* The peer answers to the port the request came from, ...
udp_answers(c, kind) ==
    /\ sock = "up" /\ wrote[c] = conn
    /\ peer_answers(c, kind)
    /\ inbox' = inbox \cup {c}
    /\ UNCHANGED <<sock, conn, refused, spoke, wrote, readVars, at, crowded>>

\* ... the answer is lost, ...
datagram_lost(c) ==
    /\ c \in inbox
    /\ inbox' = inbox \ {c}
    /\ UNCHANGED <<vars, sock, conn, refused, spoke, wrote, readVars, at, crowded>>

\* ... or nobody listens there and the host says so.
peer_refuses ==
    /\ sock = "up" /\ spoke /\ ~refused
    /\ refused' = TRUE
    /\ UNCHANGED <<vars, sock, conn, spoke, inbox, wrote, readVars, at, crowded>>

\* The rest of the session.
udp_settle(p) == Settle(p) /\ UNCHANGED udpVars
udp_timer     == (step_timer_handler \/ handler_done(Timer)) /\ UNCHANGED udpVars

Sending(t) ==
    \/ send_data(t) \/ connect_opens(t) \/ connect_succeeds(t) \/ connect_fails(t) \/ start(t)
    \/ start_throws(t) \/ send_test_drops(t) \/ send_test_passes(t) \/ send_to(t)
    \/ send_to_throws(t)
Reading ==
    \/ \E c \in Calls : on_message(c) \/ \E kept \in BOOLEAN : on_read(c, kept)
    \/ message_done \/ read_again \/ \E k \in Conns : on_read_error(k)

UNext ==
    \/ \E t \in Threads : udp_call(t) \/ Sending(t)
    \/ Reading \/ on_notify \/ bad_message
    \/ \E c \in Calls : datagram_lost(c) \/ \E kind \in Answers : udp_answers(c, kind)
    \/ peer_refuses
    \/ \E p \in Procs : udp_settle(p)
    \/ udp_timer

\* A thread inside the library goes on, the loop runs every handler that is
\* ready and the timer fires again and again.  Nothing is assumed of the
\* network.
UFairness ==
    /\ \A t \in Threads : WF_udpAll(Sending(t)) /\ WF_udpAll(send_request_impl(t) /\ UNCHANGED udpVars)
    /\ \A p \in Procs : WF_udpAll(udp_settle(p))
    /\ WF_udpAll(Reading)
    /\ WF_udpAll(udp_timer)

USafety == UInit /\ [][UNext]_udpAll
USpec   == USafety /\ UFairness

-----------------------------------------------------------------------------
(* Properties *)

\* Type invariant, of the session and of its transport.
UTypeOK ==
    /\ TypeOK
    /\ sock \in {"closed", "open", "up"} /\ conn \in Conns
    /\ refused \in BOOLEAN /\ spoke \in BOOLEAN
    /\ inbox \subseteq Calls /\ batch \subseteq Calls /\ rest \subseteq Calls
    /\ wrote \in [Calls -> Conns]
    /\ at \in [Threads -> {"out", "connect", "connecting", "start", "test", "send_to"}]
    /\ reads \in [Conns -> Nat] /\ reading \in BOOLEAN
    /\ failed \subseteq Conns /\ crowded \in BOOLEAN

\* Without a failed receive a socket that is up is listened to: connect() has
\* started a receive for it whoever closed and opened it in between, and
\* on_read() starts the next one.  After a failed one it may be deaf for good.
DeafAfterError ==
    sock = "up" /\ conn \notin failed /\ (\A t \in Threads : at[t] # "start") =>
        reads[conn] > 0 \/ reading

\* The unpacker's buffer and m_remote belong to one receive at a time, and a
\* connected socket is never closed, although nothing is locked: it takes two
\* threads that find the socket closed at the same time to break this.
OneReceive ==
    ~crowded =>
        /\ reads[conn] + (IF reading THEN 1 ELSE 0) <= 1
        /\ \A k \in Conns \ {conn} : reads[k] = 0
        /\ reads[conn] > 0 \/ reading => sock = "up"

\* Every call is settled, although its request or its answer may be lost, the
\* send may throw and the socket may be deaf: the step timer needs no answer.
UdpCallSettles == \A c \in Calls : fstate[c] = "pending" ~> completions[c] = 1
=============================================================================
