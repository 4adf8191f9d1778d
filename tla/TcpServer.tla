----------------------------- MODULE TcpServer -----------------------------
(***************************************************************************)
(* The TCP server: server and server_impl, server_transport with its       *)
(* acceptor and its set of connections, server_socket with the             *)
(* stream_handler below it, and the request objects handed to the          *)
(* program's dispatcher.                                                   *)
(*                                                                         *)
(* Processes.  The loop runs on_accept(), which starts the next accept     *)
(* only at its end, and for each connection a strand of on_read()          *)
(* handlers, one at a time.  Threads are whatever answers requests: user   *)
(* threads, or the dispatcher itself inside on_read() (a failed write      *)
(* there does the same as one in a thread that comes in between).  One     *)
(* more thread calls server::close().                                      *)
(*                                                                         *)
(* Atomicity.  What server_transport does under m_mutex is one step; a     *)
(* response is written in two halves, under the mutex of stream_handler.   *)
(* When the peer has reset the connection remote_endpoint() throws, which  *)
(* ends on_accept() early and keeps stop() from closing the socket.        *)
(***************************************************************************)
EXTENDS Naturals, FiniteSets

CONSTANTS
    Threads,    \* threads that answer requests
    Conns,      \* the connections of a run
    Requests,   \* the messages of a run
    Notes,      \* those of them that are notifications
    NoConn,     \* no connection
    NoRequest   \* no request

ASSUME ServerAssumption ==
    Notes \subseteq Requests /\ NoConn \notin Conns /\ NoRequest \notin Requests

VARIABLES
    stopped,        \* loop_impl::end() has stopped the io_service
    m_stran,        \* server_impl::m_stran: "up", then "gone"
    acc,            \* "waiting" (async_accept), "accepted", "failed", "again", "down"
    m_conn,         \* the connection on_accept() is about
    m_connections,  \* the managed connections
    sock,           \* "none", "backlog", "open" or "closed"
    peer,           \* the other end: "up", "fin" (closed) or "rst" (reset)
    inbox,          \* messages that wait in the socket
    reading,        \* "off", "pending" (async_read_some), "messages" or "error"
    batch,          \* messages read and not yet handled
    of,             \* the connection a message came on
    handed,         \* requests given to the dispatcher
    m_ms,           \* request_impl::m_ms: TRUE until the response was sent
    pc, req,        \* what each thread does, and with which request
    writer,         \* holders of each connection's stream_handler::mutex
    half,           \* threads whose response has been written by half
    \* history
    replies,        \* responses written to each request
    raced,          \* requests that two threads have answered at once
    mangled         \* connections on which two responses were mixed up

acceptVars == <<stopped, m_stran, acc, m_conn>>
connVars   == <<m_connections, sock, peer>>
readVars   == <<inbox, reading, batch, of, handed>>
sendVars   == <<m_ms, pc, req, writer, half, replies, raced, mangled>>
vars == <<acceptVars, connVars, readVars, sendVars>>

\* listen() and serve() have been called.
Init ==
    /\ stopped = FALSE /\ m_stran = "up" /\ acc = "waiting" /\ m_conn = NoConn
    /\ m_connections = {}
    /\ sock = [c \in Conns |-> "none"] /\ peer = [c \in Conns |-> "up"]
    /\ inbox = [c \in Conns |-> {}] /\ batch = [c \in Conns |-> {}]
    /\ reading = [c \in Conns |-> "off"]
    /\ of = [q \in Requests |-> NoConn] /\ handed = {}
    /\ m_ms = [q \in Requests |-> FALSE]
    /\ pc = [t \in Threads |-> "idle"] /\ req = [t \in Threads |-> NoRequest]
    /\ writer = [c \in Conns |-> {}] /\ half = [c \in Conns |-> {}]
    /\ replies = [q \in Requests |-> 0] /\ raced = {} /\ mangled = {}

-----------------------------------------------------------------------------
(* Clients *)

client_connects(c) ==
    /\ sock[c] = "none" /\ m_stran = "up"
    /\ sock' = [sock EXCEPT ![c] = "backlog"]
    /\ UNCHANGED <<acceptVars, m_connections, peer, readVars, sendVars>>

client_sends(c, q) ==
    /\ sock[c] \in {"backlog", "open"} /\ peer[c] = "up" /\ of[q] = NoConn
    /\ of' = [of EXCEPT ![q] = c]
    /\ inbox' = [inbox EXCEPT ![c] = @ \cup {q}]
    /\ UNCHANGED <<acceptVars, connVars, reading, batch, handed, sendVars>>

\* The client closes the connection, or it is reset and what is unread lost.
client_goes(c, how) ==
    /\ sock[c] \in {"backlog", "open"}
    /\ \/ how = "fin" /\ peer[c] = "up" /\ UNCHANGED inbox
       \/ how = "rst" /\ peer[c] # "rst" /\ inbox' = [inbox EXCEPT ![c] = {}]
    /\ peer' = [peer EXCEPT ![c] = how]
    /\ UNCHANGED <<acceptVars, m_connections, sock, reading, batch, of, handed, sendVars>>

-----------------------------------------------------------------------------
(* server_transport: the acceptor *)

\* An accept completes, with a connection or with an error, and a worker
\* enters on_accept().
accept_completes(c) ==
    /\ ~stopped /\ acc = "waiting" /\ sock[c] = "backlog"
    /\ acc' = "accepted" /\ m_conn' = c
    /\ sock' = [sock EXCEPT ![c] = "open"]
    /\ UNCHANGED <<stopped, m_stran, m_connections, peer, readVars, sendVars>>

accept_fails ==
    /\ ~stopped /\ acc = "waiting"
    /\ acc' = "failed"
    /\ UNCHANGED <<stopped, m_stran, m_conn, connVars, readVars, sendVars>>

\* A mutated form: the pointer is moved from before it is inserted.
on_accept_moved ==
    /\ acc = "accepted" /\ m_stran = "up" /\ peer[m_conn] # "rst"
    /\ m_connections' = m_connections \cup {NoConn}
    /\ reading' = [reading EXCEPT ![m_conn] = "pending"]
    /\ acc' = "again"
    /\ UNCHANGED <<stopped, m_stran, m_conn, sock, peer, inbox, batch, of, handed, sendVars>>

\* on_accept() without an error: insert, set the option, start to read.
on_accept ==
    /\ acc = "accepted" /\ m_stran = "up" /\ peer[m_conn] # "rst"
    /\ m_connections' = m_connections \cup {m_conn}
    /\ reading' = [reading EXCEPT ![m_conn] = "pending"]
    /\ acc' = "again"
    /\ UNCHANGED <<stopped, m_stran, m_conn, sock, peer, inbox, batch, of, handed, sendVars>>

\* remote_endpoint() throws and the exception leaves the handler.  In a worker
\* it ends the process; the program goes on, without start_accept(), if the
\* handler ran in a thread of its own that called run() and caught it.
on_accept_throws ==
    /\ acc = "accepted" /\ m_stran = "up" /\ peer[m_conn] = "rst"
    /\ m_connections' = m_connections \cup {m_conn}
    /\ acc' = "down"
    /\ UNCHANGED <<stopped, m_stran, m_conn, sock, peer, readVars, sendVars>>

\* A mutated form: after an error there is no next accept.
start_accept_after_success ==
    /\ acc = "again" /\ m_stran = "up"
    /\ acc' = "waiting" /\ m_conn' = NoConn
    /\ UNCHANGED <<stopped, m_stran, connVars, readVars, sendVars>>

start_accept ==
    /\ acc \in {"again", "failed"} /\ m_stran = "up"
    /\ acc' = "waiting" /\ m_conn' = NoConn
    /\ UNCHANGED <<stopped, m_stran, connVars, readVars, sendVars>>

-----------------------------------------------------------------------------
(* server_transport: the connections *)

\* stream_handler::stop() closes the socket unless remote_endpoint() throws.
stop(S) == [c \in Conns |-> IF c \in S /\ sock[c] = "open" /\ peer[c] # "rst" THEN "closed"
                            ELSE sock[c]]

\* A mutated form: the connection stays in the set.
on_system_error_keeps(c) ==
    /\ m_stran = "up"
    /\ sock' = stop({c})
    /\ UNCHANGED <<m_connections, peer>>

\* on_system_error(), from on_read() or from a failed write.  Once the
\* transport is gone m_tran dangles and nothing can be said.
on_system_error(c) ==
    /\ m_stran = "up"
    /\ m_connections' = m_connections \ {c}
    /\ sock' = stop({c})
    /\ UNCHANGED peer

\* server::close(): the loop is told to stop, ...
end ==
    /\ ~stopped /\ stopped' = TRUE
    /\ UNCHANGED <<m_stran, acc, m_conn, connVars, readVars, sendVars>>

\* ... and the transport closes its acceptor and its connections and is gone.
close ==
    /\ stopped /\ m_stran = "up"
    /\ m_stran' = "gone"
    /\ m_connections' = {}
    /\ sock' = [c \in Conns |-> IF sock[c] = "backlog" THEN "closed" ELSE stop(m_connections)[c]]
    /\ UNCHANGED <<stopped, acc, m_conn, peer, readVars, sendVars>>

-----------------------------------------------------------------------------
(* stream_handler::on_read() of a server_socket *)

\* Data: some messages are complete.
on_read(c, arrived) ==
    /\ ~stopped /\ reading[c] = "pending" /\ sock[c] = "open"
    /\ arrived # {} /\ arrived \subseteq inbox[c]
    /\ inbox' = [inbox EXCEPT ![c] = @ \ arrived]
    /\ batch' = [batch EXCEPT ![c] = arrived]
    /\ reading' = [reading EXCEPT ![c] = "messages"]
    /\ UNCHANGED <<acceptVars, connVars, of, handed, sendVars>>

\* on_request() and on_notify() make a request_impl, without a sender for a
\* notification, and dispatch() it.
dispatch(c, q) ==
    /\ reading[c] = "messages" /\ q \in batch[c]
    /\ batch' = [batch EXCEPT ![c] = @ \ {q}]
    /\ handed' = handed \cup {q}
    /\ m_ms' = [m_ms EXCEPT ![q] = q \notin Notes]
    /\ UNCHANGED <<acceptVars, connVars, inbox, reading, of, pc, req, writer, half, replies,
                   raced, mangled>>

\* A mutated form: the rest of what was read is forgotten and reading goes on.
dispatch_throws_reads_on(c) ==
    /\ reading[c] = "messages"
    /\ batch' = [batch EXCEPT ![c] = {}]
    /\ reading' = [reading EXCEPT ![c] = "pending"]
    /\ UNCHANGED <<acceptVars, connVars, inbox, of, handed, sendVars>>

\* dispatch() throws, or a message is none: the rest is not handled.
dispatch_throws(c) ==
    /\ reading[c] = "messages"
    /\ batch' = [batch EXCEPT ![c] = {}]
    /\ reading' = [reading EXCEPT ![c] = "error"]
    /\ UNCHANGED <<acceptVars, connVars, inbox, of, handed, sendVars>>

start(c) ==
    /\ reading[c] = "messages" /\ batch[c] = {}
    /\ reading' = [reading EXCEPT ![c] = "pending"]
    /\ UNCHANGED <<acceptVars, connVars, inbox, batch, of, handed, sendVars>>

\* A mutated form: the end of the file is no error.
on_read_error_but_eof(c) ==
    /\ ~stopped /\ reading[c] = "pending"
    /\ sock[c] = "closed" \/ peer[c] = "rst"
    /\ reading' = [reading EXCEPT ![c] = "error"]
    /\ UNCHANGED <<acceptVars, connVars, inbox, batch, of, handed, sendVars>>

\* A read fails: end of file, reset, or the socket was closed.
on_read_error(c) ==
    /\ ~stopped /\ reading[c] = "pending"
    /\ sock[c] = "closed" \/ peer[c] = "rst" \/ (peer[c] = "fin" /\ inbox[c] = {})
    /\ reading' = [reading EXCEPT ![c] = "error"]
    /\ UNCHANGED <<acceptVars, connVars, inbox, batch, of, handed, sendVars>>

read_error_reported(c) ==
    /\ reading[c] = "error"
    /\ on_system_error(c)
    /\ reading' = [reading EXCEPT ![c] = "off"]
    /\ UNCHANGED <<acceptVars, inbox, batch, of, handed, sendVars>>

-----------------------------------------------------------------------------
(* Answering: request_impl::send_data() and stream_handler::send_data() *)

\* A copy of m_ms is taken, unless it is null; then the unlocked is_open().
send_data(t, q) ==
    /\ pc[t] = "idle" /\ q \in handed /\ m_ms[q]
    /\ req' = [req EXCEPT ![t] = q]
    /\ pc' = [pc EXCEPT ![t] = IF sock[of[q]] = "open" THEN "lock" ELSE "reset"]
    /\ raced' = IF \E u \in Threads : req[u] = q THEN raced \cup {q} ELSE raced
    /\ UNCHANGED <<acceptVars, connVars, readVars, m_ms, writer, half, replies, mangled>>

\* A mutated form: the lock is not waited for.
lock_busy(t) ==
    LET c == of[req[t]] IN
    /\ pc[t] = "lock"
    /\ writer' = [writer EXCEPT ![c] = @ \cup {t}]
    /\ pc' = [pc EXCEPT ![t] = "write"]
    /\ UNCHANGED <<acceptVars, connVars, readVars, m_ms, req, half, replies, raced, mangled>>

\* A mutated form: a response that finds the lock taken is dropped.
lock_tried(t) ==
    LET c == of[req[t]] IN
    /\ pc[t] = "lock"
    /\ writer' = IF writer[c] = {} THEN [writer EXCEPT ![c] = {t}] ELSE writer
    /\ pc' = [pc EXCEPT ![t] = IF writer[c] = {} THEN "write" ELSE "reset"]
    /\ UNCHANGED <<acceptVars, connVars, readVars, m_ms, req, half, replies, raced, mangled>>

lock(t) ==
    LET c == of[req[t]] IN
    /\ pc[t] = "lock" /\ writer[c] = {}
    /\ writer' = [writer EXCEPT ![c] = {t}]
    /\ pc' = [pc EXCEPT ![t] = "write"]
    /\ UNCHANGED <<acceptVars, connVars, readVars, m_ms, req, half, replies, raced, mangled>>

Writable(c) == sock[c] = "open" /\ peer[c] # "rst"

write_first(t) ==
    LET c == of[req[t]] IN
    /\ pc[t] = "write" /\ Writable(c)
    /\ half' = [half EXCEPT ![c] = @ \cup {t}]
    /\ mangled' = IF half[c] # {} THEN mangled \cup {c} ELSE mangled
    /\ pc' = [pc EXCEPT ![t] = "rest"]
    /\ UNCHANGED <<acceptVars, connVars, readVars, m_ms, req, writer, replies, raced>>

write_rest(t) ==
    LET c == of[req[t]] IN
    /\ pc[t] = "rest" /\ Writable(c)
    /\ half' = [half EXCEPT ![c] = @ \ {t}]
    /\ writer' = [writer EXCEPT ![c] = @ \ {t}]
    /\ replies' = [replies EXCEPT ![req[t]] = @ + 1]
    /\ pc' = [pc EXCEPT ![t] = "reset"]
    /\ UNCHANGED <<acceptVars, connVars, readVars, m_ms, req, raced, mangled>>

\* The write throws; the lock is given back before on_system_error().
write_throws(t) ==
    LET c == of[req[t]] IN
    /\ pc[t] \in {"write", "rest"} /\ ~Writable(c)
    /\ writer' = [writer EXCEPT ![c] = @ \ {t}]
    /\ pc' = [pc EXCEPT ![t] = "failed"]
    /\ UNCHANGED <<acceptVars, connVars, readVars, m_ms, req, half, replies, raced, mangled>>

write_error_reported(t) ==
    /\ pc[t] = "failed"
    /\ on_system_error(of[req[t]])
    /\ pc' = [pc EXCEPT ![t] = "reset"]
    /\ UNCHANGED <<acceptVars, readVars, m_ms, req, writer, half, replies, raced, mangled>>

\* A mutated form: m_ms is kept.
reset_forgotten(t) ==
    /\ pc[t] = "reset"
    /\ pc' = [pc EXCEPT ![t] = "idle"] /\ req' = [req EXCEPT ![t] = NoRequest]
    /\ UNCHANGED <<acceptVars, connVars, readVars, m_ms, writer, half, replies, raced, mangled>>

\* m_ms.reset().
reset(t) ==
    /\ pc[t] = "reset"
    /\ m_ms' = [m_ms EXCEPT ![req[t]] = FALSE]
    /\ pc' = [pc EXCEPT ![t] = "idle"] /\ req' = [req EXCEPT ![t] = NoRequest]
    /\ UNCHANGED <<acceptVars, connVars, readVars, writer, half, replies, raced, mangled>>

-----------------------------------------------------------------------------

Client(c) ==
    \/ client_connects(c) \/ (\E how \in {"fin", "rst"} : client_goes(c, how))
    \/ \E q \in Requests : client_sends(c, q)
Strand(c) ==
    \/ \E arrived \in SUBSET Requests : on_read(c, arrived)
    \/ (\E q \in Requests : dispatch(c, q))
    \/ start(c) \/ on_read_error(c) \/ read_error_reported(c)
Accepting == on_accept \/ on_accept_throws \/ start_accept
Send(t) ==
    \/ lock(t) \/ write_first(t) \/ write_rest(t) \/ write_throws(t)
    \/ write_error_reported(t) \/ reset(t)

Next ==
    \/ \E c \in Conns : Client(c) \/ accept_completes(c) \/ Strand(c) \/ dispatch_throws(c)
    \/ accept_fails \/ Accepting \/ end \/ close
    \/ \E t \in Threads : (\E q \in Requests : send_data(t, q)) \/ Send(t)

\* The loop runs every handler that is ready, dispatch() returns, and a thread
\* inside send_data() goes on.  Nothing is assumed of clients and dispatcher.
Fairness ==
    /\ \A c \in Conns : WF_vars(Strand(c)) /\ WF_vars(accept_completes(c))
    /\ WF_vars(Accepting)
    /\ \A t \in Threads : WF_vars(Send(t))

Safety == Init /\ [][Next]_vars
Spec   == Safety /\ Fairness

-----------------------------------------------------------------------------
(* Properties *)

\* Type invariant.
TypeOK ==
    /\ stopped \in BOOLEAN /\ m_stran \in {"up", "gone"} /\ m_conn \in Conns \cup {NoConn}
    /\ acc \in {"waiting", "accepted", "failed", "again", "down"}
    /\ m_connections \subseteq Conns
    /\ sock \in [Conns -> {"none", "backlog", "open", "closed"}]
    /\ peer \in [Conns -> {"up", "fin", "rst"}]
    /\ inbox \in [Conns -> SUBSET Requests] /\ batch \in [Conns -> SUBSET Requests]
    /\ reading \in [Conns -> {"off", "pending", "messages", "error"}]
    /\ of \in [Requests -> Conns \cup {NoConn}] /\ handed \subseteq Requests
    /\ m_ms \in [Requests -> BOOLEAN]
    /\ pc \in [Threads -> {"idle", "lock", "write", "rest", "failed", "reset"}]
    /\ req \in [Threads -> Requests \cup {NoRequest}]
    /\ writer \in [Conns -> SUBSET Threads] /\ half \in [Conns -> SUBSET Threads]
    /\ replies \in [Requests -> Nat] /\ raced \subseteq Requests /\ mangled \subseteq Conns

\* request_impl::send_data() tests m_ms, writes and resets it, without a lock:
\* a request is answered at most once, a notification never, unless two
\* threads answer the same request at the same time.
AnsweredOnce ==
    \A q \in Requests : replies[q] > (IF q \in Notes THEN 0 ELSE 1) => q \in raced

\* Responses of several threads on one connection follow one another whole,
\* also when a write fails in the middle or another thread stops the
\* connection meanwhile.
FramesIntact == mangled = {}

\* is_sent() becomes true without a response only when the connection is lost:
\* the silent return and the failed write drop no response to a live client.
SentOrLost ==
    \A q \in handed \ Notes : ~m_ms[q] => replies[q] > 0 \/ ~Writable(of[q])

\* A managed connection has a read under way or is being failed; the one that
\* on_accept() was about when it threw is the exception, and it stays for ever.
Managed ==
    \A c \in m_connections : reading[c] = "off" => acc = "down" /\ m_conn = c

\* Every message that was read is handed to the dispatcher, is about to be, or
\* its connection is being dropped: an exception of the dispatcher takes the
\* messages behind it along, but never on a connection that goes on.
NoneSkipped ==
    \A q \in Requests : of[q] # NoConn /\ q \notin handed =>
        \/ q \in inbox[of[q]] \cup batch[of[q]]
        \/ peer[of[q]] = "rst" \/ reading[of[q]] \in {"error", "off"}

\* on_accept() goes on accepting after a connection and after an error, unless
\* it threw or the server is closed.
AcceptsAgain == acc \in {"accepted", "failed"} ~> (acc \in {"waiting", "down"} \/ stopped)

\* A connection whose client is gone leaves the set, whichever of the read and
\* the writes notices first.
GoneIsDropped ==
    \A c \in Conns : c \in m_connections /\ peer[c] # "up" ~>
        (c \notin m_connections \/ stopped \/ acc = "down")

\* "to prevent trailing handle_accept()" (server::close()): no worker is in
\* on_accept() when the transport is destroyed.
NoTrailingAccept == m_stran = "gone" => acc \notin {"accepted", "failed", "again"}
=============================================================================
