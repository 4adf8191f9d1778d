---------------------------- MODULE SessionPool ----------------------------
(***************************************************************************)
(* session_pool_impl, client, and the lifetime of the sessions.            *)
(*                                                                         *)
(* A session_impl lives as long as a shared_ptr refers to it: the pool's   *)
(* table, the session objects of the program (handles; a client is one,    *)
(* around a session of its own that no table has), the futures that        *)
(* wait for an answer (future_impl::m_session), and an on_read() handler   *)
(* that has locked its weak_ptr.  Three things refer to it without being   *)
(* counted: the handler of its step timer and the handler of its           *)
(* transport's connect timer, each bound to a plain this, and the socket   *)
(* with its pending async_read, which outlives the session.  The pool      *)
(* itself lives for ever here: its own destruction is not modelled.        *)
(*                                                                         *)
(* Requests are reduced to what lifetime needs: "waiting" (in the request  *)
(* table, the future has m_session), "given_up" (timed_wait() ran out and  *)
(* dropped m_session, the table still has the future) or "done".           *)
(***************************************************************************)
EXTENDS Naturals, FiniteSets

CONSTANTS
    Threads,    \* user threads
    Addrs,      \* addresses
    Sessions,   \* the session_impl objects of a run
    Clients,    \* the ones that client constructors create
    Calls,      \* the calls of a run
    NoSession,  \* the empty table entry
    TimeLimit   \* SESSION_POOL_TIME_LIMIT, in steps of the pool's timer

ASSUME PoolAssumption == TimeLimit \in Nat /\ NoSession \notin Sessions /\ Clients \subseteq Sessions

VARIABLES
    m_table,    \* the session of each address
    ttl,        \* entry_t::ttl of each session
    doomed,     \* entries the step timer has found to be unused and expired
    ticking,    \* the pool's step timer handler holds m_table_mutex
    life,       \* "unborn", "alive" or "dead"
    handles,    \* the threads that hold the session
    call,       \* state of each call: "none", "waiting", "given_up", "done"
    on,         \* the session of each call
    locked,     \* sessions an on_read() handler has locked
    timer,      \* the session's step timer: "off", "waiting", or its handler
                \* is "queued", "running", or "arming" the timer again
    dials,      \* handlers of the session's connect timer that have still to run
    conn,       \* the session's socket is open (and has a read pending)
    failing,    \* sessions whose socket on_system_error() has still to close
    idle        \* steps of the pool's timer since the session was last used

vars == <<m_table, ttl, doomed, ticking, life, handles, call, on, locked, timer,
          dials, conn, failing, idle>>

Init ==
    /\ m_table = [a \in Addrs |-> NoSession]
    /\ ttl = [s \in Sessions |-> 0]
    /\ doomed = {} /\ ticking = FALSE
    /\ life = [s \in Sessions |-> "unborn"]
    /\ handles = [s \in Sessions |-> {}]
    /\ call = [c \in Calls |-> "none"]
    /\ on = [c \in Calls |-> NoSession]
    /\ locked = {}
    /\ timer = [s \in Sessions |-> "off"]
    /\ dials = [s \in Sessions |-> 0]
    /\ conn = [s \in Sessions |-> FALSE]
    /\ failing = {}
    /\ idle = [s \in Sessions |-> 0]

-----------------------------------------------------------------------------
(* References *)

InTable(s) == \E a \in Addrs : m_table[a] = s
Waiting(s) == {c \in Calls : on[c] = s /\ call[c] = "waiting"}
Pending(s) == {c \in Calls : on[c] = s /\ call[c] \in {"waiting", "given_up"}}

\* A mutated form: a future has no reference to its session.
unique_but_futures(s) == handles[s] = {} /\ s \notin locked

\* shared_ptr::unique() of the table's entry.
unique(s) == handles[s] = {} /\ Waiting(s) = {} /\ s \notin locked

\* Futures F that waited were a use of the session until now.
used_by(s, F) == [idle EXCEPT ![s] = IF F \cap Waiting(s) # {} THEN 0 ELSE @]

\* The references a step leaves decide whether the session is destroyed:
\* disarm_step_timer() takes a waiting timer off; a handler that is queued or
\* running stays, and so does the socket while its read is pending.
destroyed(s) == life'[s] = "dead" /\ life[s] = "alive"
released ==
    /\ life' = [s \in Sessions |->
          IF life[s] = "alive" /\ ~InTable(s)' /\ unique(s)' THEN "dead" ELSE life[s]]

disarm(t) == [s \in Sessions |-> IF destroyed(s) /\ t[s] = "waiting" THEN "off" ELSE t[s]]

-----------------------------------------------------------------------------
(* session_pool_impl *)

\* A mutated form: the ttl of a session found in the table is left as it is.
get_session_keeps_ttl(t, a) ==
    /\ ~ticking
    /\ \/ \E s \in Sessions :
             /\ m_table[a] = s
             /\ handles' = [handles EXCEPT ![s] = @ \cup {t}]
             /\ idle' = [idle EXCEPT ![s] = 0]
             /\ UNCHANGED <<m_table, ttl, life, timer>>
       \/ \E s \in Sessions \ Clients :
             /\ m_table[a] = NoSession /\ life[s] = "unborn"
             /\ m_table' = [m_table EXCEPT ![a] = s]
             /\ life' = [life EXCEPT ![s] = "alive"]
             /\ timer' = [timer EXCEPT ![s] = "waiting"]
             /\ ttl' = [ttl EXCEPT ![s] = TimeLimit]
             /\ handles' = [handles EXCEPT ![s] = {t}]
             /\ idle' = [idle EXCEPT ![s] = 0]
    /\ UNCHANGED <<doomed, ticking, call, on, locked, dials, conn, failing>>

\* get_session(), under m_table_mutex: the session in the table with a fresh
\* ttl, or a new one whose step timer is armed.
get_session(t, a) ==
    /\ ~ticking
    /\ \/ \E s \in Sessions :
             /\ m_table[a] = s
             /\ ttl' = [ttl EXCEPT ![s] = TimeLimit]
             /\ handles' = [handles EXCEPT ![s] = @ \cup {t}]
             /\ idle' = [idle EXCEPT ![s] = 0]
             /\ UNCHANGED <<m_table, life, timer>>
       \/ \E s \in Sessions \ Clients :
             /\ m_table[a] = NoSession /\ life[s] = "unborn"
             /\ m_table' = [m_table EXCEPT ![a] = s]
             /\ life' = [life EXCEPT ![s] = "alive"]
             /\ timer' = [timer EXCEPT ![s] = "waiting"]
             /\ ttl' = [ttl EXCEPT ![s] = TimeLimit]
             /\ handles' = [handles EXCEPT ![s] = {t}]
             /\ idle' = [idle EXCEPT ![s] = 0]
    /\ UNCHANGED <<doomed, ticking, call, on, locked, dials, conn, failing>>

\* A mutated form: an unsigned ttl is compared with a value it never has.
expired_never == {s \in Sessions : InTable(s) /\ unique(s) /\ ttl[s] < 0}

\* step_timer_handler(): unused entries count down and go when they are at 0.
expired_entries == {s \in Sessions : InTable(s) /\ unique(s) /\ ttl[s] = 0}

\* A mutated form: every unused entry counts down, whatever its ttl.
counted_past_zero == {s \in Sessions : InTable(s) /\ unique(s)}
counted_entries   == {s \in Sessions : InTable(s) /\ unique(s) /\ ttl[s] > 0}

step_timer_handler ==
    /\ ~ticking /\ ticking' = TRUE
    /\ doomed' = expired_entries
    /\ ttl' = [s \in Sessions |-> IF s \in counted_entries THEN ttl[s] - 1 ELSE ttl[s]]
    /\ idle' = [s \in Sessions |-> IF InTable(s) /\ unique(s) /\ idle[s] <= TimeLimit
                                   THEN idle[s] + 1 ELSE idle[s]]
    /\ UNCHANGED <<m_table, life, handles, call, on, locked, timer, dials, conn, failing>>

\* The second half: the entries are erased, the mutex given back, the timer
\* armed.  An on_read() handler may have locked the session in between.
step_timer_erases ==
    /\ ticking /\ ticking' = FALSE
    /\ m_table' = [a \in Addrs |-> IF m_table[a] \in doomed THEN NoSession ELSE m_table[a]]
    /\ doomed' = {}
    /\ UNCHANGED <<ttl, handles, call, on, locked, dials, conn, failing, idle>>
    /\ released
    /\ timer' = disarm(timer)

-----------------------------------------------------------------------------
(* The program: clients, calls, waits that run out of time, dropped handles *)

\* client::client() creates a session that only the client refers to.
create_client(t, s) ==
    /\ s \in Clients /\ life[s] = "unborn"
    /\ life' = [life EXCEPT ![s] = "alive"]
    /\ timer' = [timer EXCEPT ![s] = "waiting"]
    /\ handles' = [handles EXCEPT ![s] = {t}]
    /\ UNCHANGED <<m_table, ttl, doomed, ticking, call, on, locked, dials, conn, failing, idle>>

\* A call enters the request table.  If the socket is closed it is connected,
\* first of all by starting the connect timer.  On success as on failure the
\* timer is cancelled, and a cancelled handler is still called.  A failure
\* completes all requests, this one included.
send_request(t, s, c, connects) ==
    /\ t \in handles[s] /\ call[c] = "none"
    /\ on' = [on EXCEPT ![c] = s]
    /\ IF conn[s] \/ connects
         THEN call' = [call EXCEPT ![c] = "waiting"]
         ELSE call' = [d \in Calls |-> IF d = c \/ d \in Pending(s) THEN "done" ELSE call[d]]
    /\ dials' = [dials EXCEPT ![s] = IF conn[s] THEN @ ELSE @ + 1]
    /\ conn' = [conn EXCEPT ![s] = @ \/ connects]
    /\ UNCHANGED <<m_table, ttl, doomed, ticking, life, handles, locked, timer, failing, idle>>

\* future_impl::timed_wait() runs out: m_session is dropped.
timed_wait_expires(c) ==
    /\ call[c] = "waiting"
    /\ call' = [call EXCEPT ![c] = "given_up"]
    /\ idle' = [idle EXCEPT ![on[c]] = 0]
    /\ UNCHANGED <<m_table, ttl, doomed, ticking, handles, on, locked, dials, conn, failing>>
    /\ released
    /\ timer' = disarm(timer)

drop_handle(t, s) ==
    /\ t \in handles[s]
    /\ handles' = [handles EXCEPT ![s] = @ \ {t}]
    /\ idle' = [idle EXCEPT ![s] = 0]
    /\ UNCHANGED <<m_table, ttl, doomed, ticking, call, on, locked, dials, conn, failing>>
    /\ released
    /\ timer' = disarm(timer)

-----------------------------------------------------------------------------
(* Handlers of a session and its socket *)

\* An on_read() handler locks the weak_ptr of its session, ...
on_read(s) ==
    /\ conn[s] /\ life[s] = "alive" /\ s \notin locked
    /\ locked' = locked \cup {s}
    /\ UNCHANGED <<m_table, ttl, doomed, ticking, life, handles, call, on, timer,
                   dials, conn, failing, idle>>

\* ... completes the futures F that its messages answer and gives the lock
\* back.  A message may answer none: its msgid is unknown or it is a
\* notification.  The locks of the messages of one read are taken as one.
on_read_done(s, F) ==
    /\ s \in locked \ failing /\ F \subseteq Pending(s)
    /\ call' = [c \in Calls |-> IF c \in F THEN "done" ELSE call[c]]
    /\ locked' = locked \ {s}
    /\ idle' = used_by(s, F)
    /\ UNCHANGED <<m_table, ttl, doomed, ticking, handles, on, dials, conn, failing>>
    /\ released
    /\ timer' = disarm(timer)

\* Or the read has failed: on_system_error() completes all futures, ...
on_system_error(s) ==
    /\ s \in locked \ failing
    /\ failing' = failing \cup {s}
    /\ call' = [c \in Calls |-> IF c \in Pending(s) THEN "done" ELSE call[c]]
    /\ idle' = used_by(s, Pending(s))
    /\ UNCHANGED <<m_table, ttl, doomed, ticking, handles, on, locked, dials, conn>>
    /\ released
    /\ timer' = disarm(timer)

\* ... closes the socket and gives the lock back.
on_system_error_closes(s) ==
    /\ s \in failing
    /\ failing' = failing \ {s}
    /\ locked' = locked \ {s}
    /\ conn' = [conn EXCEPT ![s] = FALSE]
    /\ UNCHANGED <<m_table, ttl, doomed, ticking, handles, call, on, dials, idle>>
    /\ released
    /\ timer' = disarm(timer)

\* The connection of a session that is gone fails, or brings a message, which
\* throws closed_exception: on_system_error() finds no session and closes the
\* socket.
on_read_orphan(s) ==
    /\ conn[s] /\ life[s] = "dead"
    /\ conn' = [conn EXCEPT ![s] = FALSE]
    /\ UNCHANGED <<m_table, ttl, doomed, ticking, life, handles, call, on, locked, timer,
                   dials, failing, idle>>

\* client_transport::on_timeout(), also after a cancel: nothing while the socket
\* is open or the time is not over, else on_connect_failed() completes the
\* futures F, which are all.
on_timeout(s, F) ==
    /\ life[s] = "alive" /\ dials[s] > 0
    /\ F = {} \/ (~conn[s] /\ F = Pending(s))
    /\ dials' = [dials EXCEPT ![s] = @ - 1]
    /\ call' = [c \in Calls |-> IF c \in F THEN "done" ELSE call[c]]
    /\ idle' = used_by(s, F)
    /\ UNCHANGED <<m_table, ttl, doomed, ticking, handles, on, locked, conn, failing>>
    /\ released
    /\ timer' = disarm(timer)

\* The session's step timer runs out: its handler waits for a worker, ...
timer_expires(s) ==
    /\ timer[s] = "waiting"
    /\ timer' = [timer EXCEPT ![s] = "queued"]
    /\ UNCHANGED <<m_table, ttl, doomed, ticking, life, handles, call, on, locked,
                   dials, conn, failing, idle>>

\* ... starts, ...
timer_starts(s) ==
    /\ life[s] = "alive" /\ timer[s] = "queued"
    /\ timer' = [timer EXCEPT ![s] = "running"]
    /\ UNCHANGED <<m_table, ttl, doomed, ticking, life, handles, call, on, locked,
                   dials, conn, failing, idle>>

\* ... completes the futures F that timed out, of which set_result() drops the
\* reference to the session, ...
timer_times_out(s, F) ==
    /\ life[s] = "alive" /\ timer[s] = "running" /\ F \subseteq Pending(s)
    /\ call' = [c \in Calls |-> IF c \in F THEN "done" ELSE call[c]]
    /\ idle' = used_by(s, F)
    /\ UNCHANGED <<m_table, ttl, doomed, ticking, handles, on, locked, dials, conn, failing>>
    /\ released
    /\ timer' = [timer EXCEPT ![s] = "arming"]

\* ... and arms the timer again.  What a handler does to a session that is
\* gone is undefined and not followed.
timer_arms(s) ==
    /\ life[s] = "alive" /\ timer[s] = "arming"
    /\ timer' = [timer EXCEPT ![s] = "waiting"]
    /\ UNCHANGED <<m_table, ttl, doomed, ticking, life, handles, call, on, locked,
                   dials, conn, failing, idle>>

PoolTimer == step_timer_handler \/ step_timer_erases
ReadEnds(s) ==
    \/ \E F \in SUBSET Calls : on_read_done(s, F)
    \/ on_system_error(s) \/ on_system_error_closes(s)
Read(s)   == on_read(s) \/ ReadEnds(s) \/ on_read_orphan(s)
ConnectTimer(s) == \E F \in SUBSET Calls : on_timeout(s, F)
StepTimer(s) ==
    \/ timer_expires(s) \/ timer_starts(s) \/ timer_arms(s)
    \/ \E F \in SUBSET Calls : timer_times_out(s, F)
Program(t) ==
    \/ \E a \in Addrs : get_session(t, a)
    \/ \E s \in Sessions :
          \/ create_client(t, s) \/ drop_handle(t, s)
          \/ \E c \in Calls, connects \in BOOLEAN : send_request(t, s, c, connects)

Next ==
    \/ PoolTimer
    \/ \E t \in Threads : Program(t)
    \/ \E c \in Calls : timed_wait_expires(c)
    \/ \E s \in Sessions : Read(s) \/ ConnectTimer(s) \/ StepTimer(s)

\* The loop runs the pool's timer, and every handler that was started ends.
Fairness ==
    /\ WF_vars(PoolTimer)
    /\ \A s \in Sessions : WF_vars(ReadEnds(s))

Safety == Init /\ [][Next]_vars
Spec   == Safety /\ Fairness

-----------------------------------------------------------------------------
(* Properties *)

\* Type invariant.
TypeOK ==
    /\ m_table \in [Addrs -> Sessions \cup {NoSession}]
    /\ ttl \in [Sessions -> 0 .. TimeLimit] /\ idle \in [Sessions -> 0 .. TimeLimit + 1]
    /\ doomed \subseteq Sessions /\ ticking \in BOOLEAN
    /\ life \in [Sessions -> {"unborn", "alive", "dead"}]
    /\ handles \in [Sessions -> SUBSET Threads]
    /\ call \in [Calls -> {"none", "waiting", "given_up", "done"}]
    /\ on \in [Calls -> Sessions \cup {NoSession}]
    /\ locked \subseteq Sessions
    /\ timer \in [Sessions -> {"off", "waiting", "queued", "running", "arming"}]
    /\ dials \in [Sessions -> Nat]
    /\ conn \in [Sessions -> BOOLEAN] /\ failing \subseteq locked

\* The pool never forgets a session that somebody uses: one with a handle or
\* with a future that still waits is alive and, unless a client made it, the
\* one that get_session() returns, so that there is one session, and one
\* connection, for each address in use.
UsedIsPooled ==
    \A s \in Sessions : handles[s] # {} \/ Waiting(s) # {} =>
        life[s] = "alive" /\ (s \in Clients \/ InTable(s))

\* A session leaves the table only after it has been unused for more than
\* TimeLimit steps of the pool's timer in a row.
KeptLongEnough == \A s \in doomed : idle[s] > TimeLimit

\* A session that stays unused is dropped, unless, time and again, a read has
\* it locked just when the pool's timer looks.
UnusedIsDropped ==
    \A s \in Sessions :
        <>[](InTable(s) /\ handles[s] = {} /\ Waiting(s) = {})
            => []<><<step_timer_handler /\ s \in locked>>_vars
=============================================================================
