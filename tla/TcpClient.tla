----------------------------- MODULE TcpClient -----------------------------
(***************************************************************************)
(* A session over TCP: client_transport, its client_socket and the         *)
(* stream_handler below it, with the loop running.                         *)
(*                                                                         *)
(* Session says that send_data() may write, drop, throw or report an       *)
(* error, and that handlers report answers and errors at any time.  Here   *)
(* each of these steps is tied to the state of the one socket that the     *)
(* user threads, the strand of the connection (on_read) and the connect    *)
(* timer (on_timeout) share, so that every step of this module is a step   *)
(* of Session.  Waiting and callbacks leave the socket alone and are left  *)
(* out; a callback that calls again does so between two steps of settle(), *)
(* where any other thread may call as well.  The exception is a callback   *)
(* that is run under client_transport::mutex and waits for it.             *)
(*                                                                         *)
(* Opening the socket starts a new incarnation, numbered by conn; a read   *)
(* belongs to the incarnation it was started on, and fails once that one   *)
(* is closed.  The connect timer's handler is bound without its error      *)
(* argument, so it also runs when the timer is cancelled.                  *)
(***************************************************************************)
EXTENDS Session

CONSTANTS
    Strand, ConnectTimer,   \* the handlers: on_read() and on_timeout()
    reconnect_limit,        \* tcp_builder::m_reconnect_limit
    MaxConn                 \* bound: incarnations of the socket

ASSUME TcpAssumption ==
    /\ Readers = {Strand, ConnectTimer} /\ Strand # ConnectTimer
    /\ reconnect_limit \in Nat /\ MaxConn \in Nat

Conns == 0 .. MaxConn

VARIABLES
    sock,           \* "closed", "open" (connect() under way) or "up"
    conn,           \* incarnation of the socket, 0 before the first
    peer_up,        \* the peer has not closed this connection
    inbox,          \* calls whose answers wait in the socket
    wrote,          \* the incarnation a request was written to, 0 for none
    \* client_transport
    at,             \* where a thread is in send_data()
    owner,          \* the holder of client_transport::mutex, if any
    m_connecting,   \* attempts of the connect() under way
    armed, due,     \* m_timer: waiting; its deadline has passed
    queued,         \* calls of on_timeout() waiting for a worker
    failing,        \* on_timeout() is past its tests and is to "close" the socket, or
                    \* to "report" to the session
    \* stream_handler
    reads,          \* async reads outstanding on each incarnation
    reading,        \* what on_read() is at: "idle", "messages" or "error"
    batch,          \* answers it has read and not yet handled
    \* history
    meddled,        \* another than the strand has closed the socket
    late            \* calls inserted while an error was being reported

timerVars  == <<armed, due, queued, failing>>
socketVars == <<sock, conn, peer_up, inbox>>
readVars   == <<reads, reading, batch>>
sendVars   == <<at, owner, m_connecting>>
logVars    == <<wrote, meddled, late>>
tcpVars    == <<timerVars, socketVars, readVars, sendVars, logVars>>
tcpAll     == <<vars, tcpVars>>

TInit ==
    /\ Init
    /\ sock = "closed" /\ conn = 0 /\ peer_up = FALSE /\ inbox = {}
    /\ wrote = [c \in Calls |-> 0]
    /\ at = [t \in Threads |-> "out"] /\ owner = {} /\ m_connecting = 0
    /\ armed = FALSE /\ due = FALSE /\ queued = 0 /\ failing = "no"
    /\ reads = [k \in Conns |-> 0] /\ reading = "idle" /\ batch = {}
    /\ meddled = FALSE /\ late = {}

-----------------------------------------------------------------------------
(* The socket *)

is_open == sock # "closed"

\* close(), done by the strand or by another: what was not read is lost.
close(other) ==
    /\ sock' = "closed" /\ peer_up' = FALSE /\ inbox' = {}
    /\ meddled' = (meddled \/ (other /\ is_open))
    /\ UNCHANGED conn

\* m_timer.cancel(): a waiting handler is called.
cancel ==
    /\ armed' = FALSE
    /\ queued' = IF armed THEN queued + 1 ELSE queued

\* Somebody is between session_impl::on_system_error() and close().
ErrorUnderWay == reading = "error" \/ \E t \in Threads : at[t] = "write_failed"

-----------------------------------------------------------------------------
(* send_data() of client_transport and of stream_handler *)

\* The calls up to send_data().
tcp_call(t) ==
    /\ \/ (\E c \in Calls : next_msgid(t, c)) /\ UNCHANGED late
       \/ send_request_impl(t) /\ late' = IF ErrorUnderWay THEN late \cup {cur[t]} ELSE late
       \/ send_notify_impl(t) /\ UNCHANGED late
    /\ UNCHANGED <<timerVars, socketVars, readVars, sendVars, wrote, meddled>>

\* try_connect(): connect() of the socket opens it if it is closed.
opened ==
    /\ is_open \/ conn < MaxConn
    /\ conn' = IF is_open THEN conn ELSE conn + 1

\* A mutated form: without the mutex.
lock_without_mutex(t) ==
    /\ pc[t] = "send" /\ at[t] = "out"
    /\ \/ /\ is_open
          /\ at' = [at EXCEPT ![t] = "write"]
          /\ UNCHANGED <<owner, m_connecting, timerVars, sock, conn>>
       \/ /\ ~is_open /\ opened /\ sock' = "open"
          /\ at' = [at EXCEPT ![t] = "connect"]
          /\ owner' = {t} /\ m_connecting' = 1
          /\ armed' = TRUE /\ due' = FALSE
          /\ queued' = IF armed THEN queued + 1 ELSE queued
          /\ UNCHANGED failing
    /\ UNCHANGED <<vars, peer_up, inbox, readVars, logVars>>

\* The locked test of is_open(); connect() arms the timer, which cancels a
\* wait that was left over, and the first attempt begins.
lock(t) ==
    /\ pc[t] = "send" /\ at[t] = "out" /\ owner = {}
    /\ \/ /\ is_open
          /\ at' = [at EXCEPT ![t] = "write"]
          /\ UNCHANGED <<owner, m_connecting, timerVars, sock, conn>>
       \/ /\ ~is_open /\ opened /\ sock' = "open"
          /\ at' = [at EXCEPT ![t] = "connect"]
          /\ owner' = {t} /\ m_connecting' = 1
          /\ armed' = TRUE /\ due' = FALSE
          /\ queued' = IF armed THEN queued + 1 ELSE queued
          /\ UNCHANGED failing
    /\ UNCHANGED <<vars, peer_up, inbox, readVars, logVars>>

connect_succeeds(t) ==
    /\ at[t] = "connect" /\ is_open
    /\ sock' = "up" /\ peer_up' = TRUE /\ inbox' = {}
    /\ at' = [at EXCEPT ![t] = "start"]
    /\ UNCHANGED <<vars, conn, timerVars, readVars, owner, m_connecting, logVars>>

\* A mutated form: one attempt too many.
connect_retried_again(t) ==
    /\ at[t] = "connect" /\ m_connecting <= reconnect_limit
    /\ opened /\ sock' = "open"
    /\ m_connecting' = m_connecting + 1
    /\ UNCHANGED <<vars, peer_up, inbox, at, owner, timerVars, readVars, logVars>>

\* on_connect_failed(): an error other than ETIMEDOUT is tried again, on a new
\* incarnation if the socket was closed during the attempt.
connect_retried(t) ==
    /\ at[t] = "connect" /\ m_connecting < reconnect_limit
    /\ opened /\ sock' = "open"
    /\ m_connecting' = m_connecting + 1
    /\ UNCHANGED <<vars, peer_up, inbox, at, owner, timerVars, readVars, logVars>>

\* Otherwise the timer is cancelled, the socket closed and the session told;
\* the mutex is held all the while.
connect_fails(t) ==
    /\ at[t] = "connect"
    /\ sock' = "closed"
    /\ cancel
    /\ on_connect_failed(t)
    /\ at' = [at EXCEPT ![t] = "connect_failed"]
    /\ UNCHANGED <<conn, peer_up, inbox, due, failing, owner, m_connecting, readVars, logVars>>

\* Meanwhile set_result() runs a callback that calls again: it gets as far as
\* the mutex, which its own thread holds, and stays there.  (Its request is in
\* the table, like that of any thread that waits for the mutex.)
callback_calls_again(t) ==
    /\ at[t] = "connect_failed"
    /\ \E c \in Calls : c \in held /\ settle(t, c)
    /\ at' = [at EXCEPT ![t] = "callback"]
    /\ UNCHANGED <<owner, m_connecting, timerVars, socketVars, readVars, logVars>>

\* connect() finds the socket closed and throws connect_error.
connect_throws(t) ==
    /\ at[t] = "connect_failed"
    /\ send_failed(t)
    /\ at' = [at EXCEPT ![t] = "out"] /\ owner' = {}
    /\ UNCHANGED <<m_connecting, timerVars, socketVars, readVars, logVars>>

\* A mutated form: the mutex stays locked.
success_keeps_mutex(t) ==
    /\ at[t] = "start" /\ is_open
    /\ cancel
    /\ reads' = [reads EXCEPT ![conn] = @ + 1]
    /\ at' = [at EXCEPT ![t] = "write"]
    /\ UNCHANGED <<vars, due, failing, socketVars, reading, batch, owner, m_connecting, logVars>>

\* on_connect_success(): cancel the timer and start to read.
on_connect_success(t) ==
    /\ at[t] = "start" /\ is_open
    /\ cancel
    /\ reads' = [reads EXCEPT ![conn] = @ + 1]
    /\ at' = [at EXCEPT ![t] = "write"] /\ owner' = {}
    /\ UNCHANGED <<vars, due, failing, socketVars, reading, batch, m_connecting, logVars>>

\* When the socket has been closed meanwhile, set_option() throws, or, if that
\* was a moment later, connect() does after its read was started in vain.
start_throws(t) ==
    /\ at[t] = "start" /\ ~is_open
    /\ cancel
    /\ reads' \in {reads, [reads EXCEPT ![conn] = @ + 1]}
    /\ send_throws(t)
    /\ at' = [at EXCEPT ![t] = "out"] /\ owner' = {}
    /\ UNCHANGED <<due, failing, socketVars, reading, batch, m_connecting, logVars>>

\* The write: it reaches the connection, even one the peer has closed;
write_succeeds(t) ==
    /\ at[t] = "write" /\ sock = "up"
    /\ send_written(t)
    /\ wrote' = [c \in Calls |-> IF c = cur[t] THEN conn ELSE wrote[c]]
    /\ at' = [at EXCEPT ![t] = "out"]
    /\ UNCHANGED <<owner, m_connecting, timerVars, socketVars, readVars, meddled, late>>

\* or is_open() is false and send_data() returns;
write_dropped(t) ==
    /\ at[t] = "write" /\ ~is_open
    /\ send_dropped(t)
    /\ at' = [at EXCEPT ![t] = "out"]
    /\ UNCHANGED <<owner, m_connecting, timerVars, socketVars, readVars, logVars>>

\* or it fails, on a connection the peer has closed or a socket that was closed
\* or is not yet connected: client_socket::on_system_error() tells the session,
write_fails(t) ==
    /\ at[t] = "write" /\ ~(sock = "up" /\ peer_up)
    /\ on_system_error_in_send(t)
    /\ at' = [at EXCEPT ![t] = "write_failed"]
    /\ UNCHANGED <<owner, m_connecting, timerVars, socketVars, readVars, logVars>>

\* and then closes the socket, whichever incarnation it is by now.
write_error_closes(t) ==
    /\ at[t] = "write_failed"
    /\ send_failed(t)
    /\ close(TRUE)
    /\ at' = [at EXCEPT ![t] = "out"]
    /\ UNCHANGED <<owner, m_connecting, timerVars, readVars, wrote, late>>

-----------------------------------------------------------------------------
(* The strand: stream_handler::on_read() *)

StrandIdle == reading = "idle" /\ pc[Strand] = "idle"

\* A mutated form: the next read is started before the messages are handled.
on_read_starts_first(arrived) ==
    /\ StrandIdle /\ sock = "up" /\ reads[conn] > 0
    /\ arrived # {} /\ arrived \subseteq inbox
    /\ inbox' = inbox \ arrived
    /\ batch' = arrived /\ reading' = "messages"
    /\ UNCHANGED <<vars, reads, sock, conn, peer_up, timerVars, sendVars, logVars>>

\* A read completes with some of the answers that have arrived.
on_read(arrived) ==
    /\ StrandIdle /\ sock = "up" /\ reads[conn] > 0
    /\ arrived # {} /\ arrived \subseteq inbox
    /\ reads' = [reads EXCEPT ![conn] = @ - 1]
    /\ inbox' = inbox \ arrived
    /\ batch' = arrived /\ reading' = "messages"
    /\ UNCHANGED <<vars, sock, conn, peer_up, timerVars, sendVars, logVars>>

\* on_message() of a response.
on_message(c) ==
    /\ reading = "messages" /\ c \in batch
    /\ on_response(Strand, c)
    /\ batch' = batch \ {c}
    /\ UNCHANGED <<reads, reading, timerVars, socketVars, sendVars, logVars>>

message_done ==
    /\ reading = "messages"
    /\ handler_done(Strand)
    /\ UNCHANGED tcpVars

\* After the last message start() reads again, on whatever the socket is now.
start ==
    /\ reading = "messages" /\ batch = {} /\ pc[Strand] = "idle"
    /\ reads' = [reads EXCEPT ![conn] = @ + 1]
    /\ reading' = "idle"
    /\ UNCHANGED <<vars, batch, timerVars, socketVars, sendVars, logVars>>

\* A message that is no response or notification ends in on_system_error().
bad_message ==
    /\ reading = "messages"
    /\ on_system_error(Strand)
    /\ batch' = {} /\ reading' = "error"
    /\ UNCHANGED <<reads, timerVars, socketVars, sendVars, logVars>>

\* A read fails: its socket was closed or is not connected, or the peer closed
\* the connection and everything has been read.
on_read_error(k) ==
    /\ StrandIdle /\ reads[k] > 0
    /\ k = conn /\ sock = "up" => ~peer_up /\ inbox = {}
    /\ on_system_error(Strand)
    /\ reads' = [reads EXCEPT ![k] = @ - 1]
    /\ reading' = "error"
    /\ UNCHANGED <<batch, timerVars, socketVars, sendVars, logVars>>

\* A mutated form: the socket stays open and nobody reads from it.
read_error_keeps_socket ==
    /\ reading = "error"
    /\ handler_done(Strand)
    /\ reading' = "idle"
    /\ UNCHANGED <<reads, batch, timerVars, socketVars, sendVars, logVars>>

\* client_socket::on_system_error() has told the session and closes the socket.
read_error_closes ==
    /\ reading = "error"
    /\ handler_done(Strand)
    /\ close(FALSE)
    /\ reading' = "idle"
    /\ UNCHANGED <<reads, batch, timerVars, sendVars, wrote, late>>

-----------------------------------------------------------------------------
(* The connect timer *)

deadline ==
    /\ ~due /\ due' = TRUE
    /\ cancel
    /\ UNCHANGED <<vars, failing, socketVars, readVars, sendVars, logVars>>

\* on_timeout(): nothing if the socket is open or the deadline is not over.
on_timeout ==
    /\ queued > 0 /\ failing = "no" /\ pc[ConnectTimer] = "idle"
    /\ queued' = queued - 1
    /\ failing' = IF ~is_open /\ due THEN "close" ELSE "no"
    /\ UNCHANGED <<vars, armed, due, socketVars, readVars, sendVars, logVars>>

\* Else on_connect_failed(ETIMEDOUT) closes the socket, without the mutex and
\* whatever it is by now, ...
on_timeout_closes ==
    /\ failing = "close" /\ failing' = "report"
    /\ cancel
    /\ close(TRUE)
    /\ UNCHANGED <<vars, due, readVars, sendVars, wrote, late>>

\* ... and tells the session, which may be connected again.
on_timeout_fails ==
    /\ failing = "report" /\ failing' = "no"
    /\ on_system_error(ConnectTimer)
    /\ UNCHANGED <<armed, due, queued, socketVars, readVars, sendVars, logVars>>

on_timeout_done ==
    /\ handler_done(ConnectTimer)
    /\ UNCHANGED tcpVars

-----------------------------------------------------------------------------
(* The peer *)

\* The peer answers a request on the connection it came on, ...
tcp_answers(c, kind) ==
    /\ sock = "up" /\ peer_up /\ wrote[c] = conn
    /\ peer_answers(c, kind)
    /\ inbox' = inbox \cup {c}
    /\ UNCHANGED <<sock, conn, peer_up, timerVars, readVars, sendVars, logVars>>

\* ... or closes the connection, or resets it, and what was under way is lost.
peer_closes ==
    /\ sock = "up" /\ peer_up
    /\ peer_up' = FALSE
    /\ inbox' \in {inbox, {}}
    /\ UNCHANGED <<vars, sock, conn, timerVars, readVars, sendVars, logVars>>

\* The rest of the session.
tcp_settle(p) ==
    /\ p \in Threads => at[p] # "callback"
    /\ Settle(p)
    /\ UNCHANGED tcpVars
tcp_timer     == (step_timer_handler \/ handler_done(Timer)) /\ UNCHANGED tcpVars

Connect(t) == \/ connect_succeeds(t) \/ connect_retried(t) \/ connect_fails(t)
Sending(t) == \/ connect_throws(t) \/ on_connect_success(t) \/ start_throws(t)
              \/ write_succeeds(t) \/ write_dropped(t) \/ write_fails(t) \/ write_error_closes(t)
Reading    == \/ \E s \in SUBSET Calls : on_read(s)
              \/ \E c \in Calls : on_message(c)
              \/ message_done \/ start
              \/ \E k \in Conns : on_read_error(k)
              \/ read_error_closes

TNext ==
    \/ \E t \in Threads : tcp_call(t) \/ lock(t) \/ Connect(t) \/ Sending(t) \/ callback_calls_again(t)
    \/ Reading \/ bad_message
    \/ deadline \/ on_timeout \/ on_timeout_closes \/ on_timeout_fails \/ on_timeout_done
    \/ \E c \in Calls, kind \in Answers : tcp_answers(c, kind)
    \/ peer_closes
    \/ \E p \in Procs : tcp_settle(p)
    \/ tcp_timer

\* A thread inside send_data() goes on, connect() of the socket ends, and the
\* loop runs every handler that is ready.  The peer may do what it likes.
Progress ==
    /\ \A t \in Threads : WF_tcpAll(lock(t)) /\ WF_tcpAll(Sending(t))
    /\ \A p \in Procs : WF_tcpAll(tcp_settle(p))
    /\ WF_tcpAll(Reading)
    /\ WF_tcpAll(on_timeout \/ on_timeout_closes \/ on_timeout_fails \/ on_timeout_done)
    /\ WF_tcpAll(deadline)

ConnectEnds == \A t \in Threads : WF_tcpAll(Connect(t))

TSafety  == TInit /\ [][TNext]_tcpAll
TSpec    == TSafety /\ Progress /\ ConnectEnds

\* The same, but a connect() of the socket may take for ever.
TSpecMayHang == TSafety /\ Progress

-----------------------------------------------------------------------------
(* Properties *)

\* Type invariant.  connect() tries at most reconnect_limit times, but once at
\* least, and counts from 0 each time.
TTypeOK ==
    /\ TypeOK
    /\ sock \in {"closed", "open", "up"} /\ conn \in Conns /\ peer_up \in BOOLEAN
    /\ inbox \subseteq Calls /\ wrote \in [Calls -> Conns]
    /\ at \in [Threads -> {"out", "connect", "connect_failed", "callback", "start", "write",
                           "write_failed"}]
    /\ owner \subseteq Threads
    /\ m_connecting \in 0 .. (IF reconnect_limit = 0 THEN 1 ELSE reconnect_limit)
    /\ armed \in BOOLEAN /\ due \in BOOLEAN /\ queued \in Nat
    /\ failing \in {"no", "close", "report"}
    /\ reads \in [Conns -> Nat] /\ reading \in {"idle", "messages", "error"}
    /\ batch \subseteq Calls
    /\ meddled \in BOOLEAN /\ late \subseteq Calls

\* client_transport::mutex: one thread at a time is in connect(), and only it
\* makes the socket an open one that is not connected.
OneConnect ==
    /\ \A t \in Threads :
          at[t] \in {"connect", "connect_failed", "callback", "start"} <=> owner = {t}
    /\ sock = "open" => \E t \in Threads : at[t] = "connect"

\* A connection is always being read: whoever closed and opened the socket in
\* between, start() was called for it, and an error on it closes it.
NeverDeaf ==
    sock = "up" /\ (\A t \in Threads : at[t] # "start") => reads[conn] > 0 \/ reading # "idle"

\* As long as only the strand closes the socket, a new connection has nothing
\* of the old one: no read that will fail and close it, and no second reader
\* that shares the unpacker's buffer.  A failed write in a user thread or a
\* late on_timeout() breaks this.
CleanReconnect ==
    ~meddled => /\ sock = "up" => \A k \in Conns \ {conn} : reads[k] = 0
                /\ reads[conn] + (IF reading = "messages" THEN 1 ELSE 0) <= 1

\* The request was written to a connection that is gone, every error has been
\* reported, and still the table holds it.
Orphan(c) ==
    /\ c \in Futures(m_map) /\ wrote[c] # 0
    /\ wrote[c] # conn \/ ~is_open
    /\ reads[wrote[c]] = 0 /\ reading = "idle" /\ ~ErrorUnderWay /\ failing # "report"

\* on_read() is to "set exception for orphaned promises": on_system_error()
\* fails every request of the connection that broke, except those inserted
\* between its take_all() and the close() of the socket.
OrphansAreLate == \A c \in Calls : Orphan(c) => c \in late

\* Nobody stays in send_data(): not in connect(), and not for the mutex, which
\* is held during connect() and while connect_failed runs callbacks.  The
\* exception is a callback that calls again there: then its thread holds the
\* mutex for ever and everyone that comes to it waits with it.  (The bound on
\* incarnations also ends a behaviour: the socket cannot be opened again.)
SendReturns ==
    \A t \in Threads : pc[t] = "send" ~>
        \/ pc[t] = "idle"
        \/ \E u \in Threads : at[u] = "callback"
        \/ conn = MaxConn /\ ~is_open

\* "connection time out" (client_transport::connect()): the timer ends a
\* connect() that takes too long.
ConnectTimesOut == \A t \in Threads : at[t] = "connect" /\ due ~> at[t] # "connect"
=============================================================================
