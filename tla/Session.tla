------------------------------ MODULE Session ------------------------------
(***************************************************************************)
(* A client session: session_impl with its request table (reqtable), the   *)
(* futures it hands out (future_impl, future) and the step timer, used by  *)
(* several user threads while the loop runs with worker threads            *)
(* (loop_impl::is_running() is TRUE).                                      *)
(*                                                                         *)
(* Processes.  Threads are user threads: they issue calls and              *)
(* notifications, attach callbacks and wait on futures.  Readers are the   *)
(* handlers through which the transport reports answers and errors: for    *)
(* TCP the strand of the connection, which runs one on_read at a time, and *)
(* the connect timer.  Timer is the step timer, whose handler re-arms      *)
(* itself only when it is done, so it never overlaps itself.  Both kinds   *)
(* run on worker threads.                                                  *)
(*                                                                         *)
(* Atomicity.  A step is what one thread does between two points where     *)
(* another can interfere: a reqtable method (under its m_mutex), a         *)
(* set_result() or attach_callback() (under the future's m_mutex), one     *)
(* unlocked read.  The local vector of futures that a handler has taken    *)
(* out of the table and has still to complete is todo[p].                  *)
(*                                                                         *)
(* The transport is an abstraction here: send_data() may write the         *)
(* request, drop it, throw, or report an error to the session.  TcpClient  *)
(* models it in detail.  The peer may answer any request it was sent, in   *)
(* any order, and an answer may arrive any number of times.                *)
(***************************************************************************)
EXTENDS Naturals, FiniteSets, ReqTable

CONSTANTS
    Threads,        \* user threads
    Readers,        \* handlers on the loop that report answers and errors
    Timer,          \* the step timer's handler
    Calls,          \* the calls of a run; each has one future_impl
    IdSpace,        \* number of values of msgid_t (2^32 in the build)
    Timeouts,       \* the values set_timeout() is given, in timer steps
    Answers,        \* how the peer answers: "reply" (no error), "remote" (an error)
    MaxAttach       \* bound: callbacks attached to one future

ASSUME SessionAssumption ==
    /\ IdSpace \in Nat \ {0, 1}
    /\ Timeouts \in SUBSET Nat /\ Timeouts # {}
    /\ Answers \subseteq {"reply", "remote"}
    /\ MaxAttach \in Nat
    /\ NoFuture \notin Calls
    /\ Threads \cap Readers = {} /\ Timer \notin Threads \cup Readers

Handlers  == Readers \cup {Timer}
Procs     == Threads \cup Handlers
Ids       == 0 .. IdSpace - 1
Callbacks == 1 .. MaxAttach

\* What a future holds (m_result and m_error): nothing yet, an answer of the
\* peer without or with an error, or one of the two local errors.
Kinds   == {"unset", "reply", "remote", "timeout", "connect"}
Results == [kind : Kinds, from : Calls \cup {NoFuture}]

local(kind)     == [kind |-> kind, from |-> NoFuture]
answer(kind, c) == [kind |-> kind, from |-> c]

VARIABLES
    \* session_impl
    m_msgid_rr,     \* the next message id
    m_timeout,      \* the timeout given to new futures
    m_map,          \* the request table
    \* future_impl, one per call
    fstate,         \* "none", "id" (id drawn), "pending" (m_session set), "ready"
    msgid,          \* m_msgid
    f_timeout,      \* m_timeout: steps left
    result,         \* m_result and m_error
    m_callback,     \* the callback set, 0 for none
    attached,       \* number of callbacks attached so far
    posted,         \* callbacks submitted to the loop: pairs <<call, callback>>
    \* the processes
    pc,             \* what each process does next
    cur,            \* the future it works on
    op,             \* which waiting operation a thread is in
    todo,           \* futures taken from the table and not yet completed
    give,           \* the result to complete them with
    ret,            \* what a get() came back with
    \* the peer and the program around the session
    held,           \* futures that a call has returned to the program
    sent,           \* requests written to the transport
    replies,        \* the peer's answer to each call
    \* history
    issued,         \* number of ids drawn
    ran,            \* how often each callback ran
    completions,    \* how often a future was completed by a table handler
    settled,        \* the result of that completion
    expired         \* threads whose wait on the future ran out of time

sessionVars == <<m_msgid_rr, m_timeout, m_map, issued>>
futureVars  == <<fstate, result>>
birthVars   == <<msgid, f_timeout>>
cbVars      == <<m_callback, attached, posted, ran>>
procVars    == <<pc, cur, op, todo, give, ret>>
peerVars    == <<held, sent, replies>>
ghostVars   == <<completions, settled, expired>>
vars == <<sessionVars, futureVars, birthVars, cbVars, procVars, peerVars, ghostVars>>

\* Where a process is: in call() or notify(), completing futures, in a wait,
\* in get_impl(), or nowhere.
Pcs == {"idle", "insert", "send", "settle", "settle_throw", "waiting", "expired",
        "get_error", "get_result", "throw", "returned"}

\* How get() comes back: the value, or the exception it throws.  A "nil" value
\* and a remote_error holding nil are mixtures of two completions.
Hows == {"none", "value", "nil", "timeout_error", "connect_error", "remote_error",
         "remote_error_nil"}
NoRet == [how |-> "none", from |-> NoFuture]

Init ==
    /\ m_msgid_rr = 1
    /\ m_timeout \in Timeouts
    /\ m_map = [i \in Ids |-> NoFuture]
    /\ issued = 0
    /\ fstate = [c \in Calls |-> "none"]
    /\ result = [c \in Calls |-> local("unset")]
    /\ msgid = [c \in Calls |-> 0]
    /\ f_timeout = [c \in Calls |-> 0]
    /\ m_callback = [c \in Calls |-> 0]
    /\ attached = [c \in Calls |-> 0]
    /\ posted = {}
    /\ ran = [x \in Calls \X Callbacks |-> 0]
    /\ pc = [p \in Procs |-> "idle"]
    /\ cur = [t \in Threads |-> NoFuture]
    /\ op = [t \in Threads |-> "none"]
    /\ todo = [p \in Procs |-> {}]
    /\ give = [p \in Procs |-> local("unset")]
    /\ ret = [t \in Threads |-> NoRet]
    /\ held = {}
    /\ sent = {}
    /\ replies = [c \in Calls |-> "none"]
    /\ completions = [c \in Calls |-> 0]
    /\ settled = [c \in Calls |-> local("unset")]
    /\ expired = [c \in Calls |-> {}]

-----------------------------------------------------------------------------
(* future_impl *)

\* A mutated form: the callback is invoked and not cleared.
set_result_keeps_callback(c, r) ==
    /\ result' = [result EXCEPT ![c] = r]
    /\ fstate' = [fstate EXCEPT ![c] = "ready"]
    /\ ran' = IF m_callback[c] = 0 THEN ran
              ELSE [ran EXCEPT ![<<c, m_callback[c]>>] = @ + 1]
    /\ UNCHANGED m_callback

\* set_result(): store result and error, drop the session, wake the waiters,
\* run the callback (callback_real swallows what it throws) and clear it, all
\* under the future's mutex.  It does not look whether a result is there.
set_result(c, r) ==
    /\ result' = [result EXCEPT ![c] = r]
    /\ fstate' = [fstate EXCEPT ![c] = "ready"]
    /\ ran' = IF m_callback[c] = 0 THEN ran
              ELSE [ran EXCEPT ![<<c, m_callback[c]>>] = @ + 1]
    /\ m_callback' = [m_callback EXCEPT ![c] = 0]

\* attach_callback(): a ready future submits the callback to the loop, a
\* pending one stores it, replacing the one that was there.
attach_callback(t, c) ==
    /\ pc[t] = "idle" /\ c \in held /\ attached[c] < MaxAttach
    /\ attached' = [attached EXCEPT ![c] = @ + 1]
    /\ \/ /\ fstate[c] = "ready"
          /\ posted' = posted \cup {<<c, attached[c] + 1>>}
          /\ UNCHANGED m_callback
       \/ /\ fstate[c] = "pending"
          /\ m_callback' = [m_callback EXCEPT ![c] = attached[c] + 1]
          /\ UNCHANGED posted
    /\ UNCHANGED <<ran, sessionVars, futureVars, birthVars, procVars, peerVars, ghostVars>>

\* A worker thread runs a submitted callback.
callback_real(c, k) ==
    /\ <<c, k>> \in posted
    /\ posted' = posted \ {<<c, k>>}
    /\ ran' = [ran EXCEPT ![<<c, k>>] = @ + 1]
    /\ UNCHANGED <<m_callback, attached, sessionVars, futureVars, birthVars,
                   procVars, peerVars, ghostVars>>

-----------------------------------------------------------------------------
(* Issuing a call: next_msgid(), insert into the table, send *)

\* A mutated form: the counter is wider than msgid_t.
wide_increment(p) == p + 1

\* __sync_fetch_and_add() on a msgid_t.
atomic_increment(p) == (p + 1) % IdSpace

next_msgid(t, c) ==
    /\ pc[t] = "idle" /\ fstate[c] = "none"
    /\ msgid' = [msgid EXCEPT ![c] = m_msgid_rr]
    /\ m_msgid_rr' = atomic_increment(m_msgid_rr)
    /\ issued' = issued + 1
    /\ fstate' = [fstate EXCEPT ![c] = "id"]
    /\ pc' = [pc EXCEPT ![t] = "insert"]
    /\ cur' = [cur EXCEPT ![t] = c]
    /\ UNCHANGED <<m_timeout, m_map, result, f_timeout, cbVars, op, todo, give, ret,
                   peerVars, ghostVars>>

\* send_request_impl(): create the future and put it into the table.
send_request_impl(t) ==
    LET c == cur[t] IN
    /\ pc[t] = "insert"
    /\ fstate' = [fstate EXCEPT ![c] = "pending"]
    /\ f_timeout' = [f_timeout EXCEPT ![c] = m_timeout]
    /\ m_map' = insert(m_map, msgid[c], c)
    /\ pc' = [pc EXCEPT ![t] = "send"]
    /\ UNCHANGED <<m_msgid_rr, m_timeout, issued, result, msgid, cbVars, cur, op, todo,
                   give, ret, peerVars, ghostVars>>

\* send_notify_impl(): only the transport is involved.
send_notify_impl(t) ==
    /\ pc[t] = "idle"
    /\ pc' = [pc EXCEPT ![t] = "send"]
    /\ cur' = [cur EXCEPT ![t] = NoFuture]
    /\ UNCHANGED <<op, todo, give, ret, sessionVars, futureVars, birthVars, cbVars,
                   peerVars, ghostVars>>

\* The thread leaves call() or notify(); call() returns the future.
returns(t) ==
    /\ pc' = [pc EXCEPT ![t] = "idle"]
    /\ held' = held \cup ({cur[t]} \ {NoFuture})
    /\ cur' = [cur EXCEPT ![t] = NoFuture]

\* send_data() writes the request.
send_written(t) ==
    /\ pc[t] = "send"
    /\ sent' = sent \cup ({cur[t]} \ {NoFuture})
    /\ returns(t)
    /\ UNCHANGED <<op, todo, give, ret, replies, sessionVars, futureVars, birthVars,
                   cbVars, ghostVars>>

\* send_data() finds the socket closed and returns.
send_dropped(t) ==
    /\ pc[t] = "send"
    /\ returns(t)
    /\ UNCHANGED <<op, todo, give, ret, sent, replies, sessionVars, futureVars, birthVars,
                   cbVars, ghostVars>>

\* send_data() throws without telling the session; the program gets no future
\* and the request stays in the table.
send_throws(t) ==
    /\ pc[t] = "send"
    /\ pc' = [pc EXCEPT ![t] = "idle"]
    /\ cur' = [cur EXCEPT ![t] = NoFuture]
    /\ UNCHANGED <<op, todo, give, ret, peerVars, sessionVars, futureVars, birthVars,
                   cbVars, ghostVars>>

\* A mutated form: futures whose waiter gave up are not failed.
take_all_pending(p) ==
    /\ todo' = [todo EXCEPT ![p] = {c \in Futures(m_map) : fstate[c] = "pending"}]
    /\ give' = [give EXCEPT ![p] = local("connect")]
    /\ m_map' = after_take_all(m_map)

\* Process p takes every future out of the table to fail it.
take_all(p) ==
    /\ todo' = [todo EXCEPT ![p] = Futures(m_map)]
    /\ give' = [give EXCEPT ![p] = local("connect")]
    /\ m_map' = after_take_all(m_map)

\* on_system_error() called from a failed write, or on_connect_failed() from a
\* failed connect; after the latter call() throws connect_error.
on_send_error(t, next) ==
    /\ pc[t] = "send"
    /\ take_all(t)
    /\ pc' = [pc EXCEPT ![t] = next]
    /\ UNCHANGED <<m_msgid_rr, m_timeout, issued, cur, op, ret, futureVars, birthVars,
                   cbVars, peerVars, ghostVars>>

on_system_error_in_send(t) == on_send_error(t, "settle")
on_connect_failed(t)       == on_send_error(t, "settle_throw")

-----------------------------------------------------------------------------
(* Completing the futures a process has taken *)

settle(p, c) ==
    /\ pc[p] \in {"settle", "settle_throw"}
    /\ c \in todo[p]
    /\ set_result(c, give[p])
    /\ todo' = [todo EXCEPT ![p] = @ \ {c}]
    /\ completions' = [completions EXCEPT ![c] = @ + 1]
    /\ settled' = [settled EXCEPT ![c] = give[p]]
    /\ UNCHANGED <<attached, posted, expired, pc, cur, op, give, ret, sessionVars, birthVars,
                   peerVars>>

\* The loop over the taken futures ends in a user thread's send.
send_failed(t) ==
    /\ todo[t] = {}
    /\ \/ pc[t] = "settle" /\ returns(t)
       \/ /\ pc[t] = "settle_throw"
          /\ pc' = [pc EXCEPT ![t] = "idle"]
          /\ cur' = [cur EXCEPT ![t] = NoFuture]
          /\ UNCHANGED held
    /\ give' = [give EXCEPT ![t] = local("unset")]
    /\ UNCHANGED <<op, todo, ret, sent, replies, sessionVars, futureVars, birthVars,
                   cbVars, ghostVars>>

\* ... or in a handler on the loop, which reads on or re-arms the timer.
handler_done(p) ==
    /\ p \in Handlers /\ pc[p] = "settle" /\ todo[p] = {}
    /\ pc' = [pc EXCEPT ![p] = "idle"]
    /\ give' = [give EXCEPT ![p] = local("unset")]
    /\ UNCHANGED <<cur, op, todo, ret, sessionVars, futureVars, birthVars, cbVars,
                   peerVars, ghostVars>>

-----------------------------------------------------------------------------
(* Handlers on the loop *)

\* A mutated form: the answer goes to whichever request is in the table.
on_response_any_id(r, c) ==
    /\ pc[r] = "idle" /\ replies[c] # "none"
    /\ \E i \in Ids :
         /\ todo' = [todo EXCEPT ![r] = taken(m_map, i)]
         /\ m_map' = after_take(m_map, i)
    /\ give' = [give EXCEPT ![r] = answer(replies[c], c)]
    /\ pc' = [pc EXCEPT ![r] = "settle"]
    /\ UNCHANGED <<m_msgid_rr, m_timeout, issued, cur, op, ret, futureVars, birthVars,
                   cbVars, peerVars, ghostVars>>

\* on_response(): the answer to call c arrives (perhaps once more).  Without
\* an entry for its id it is logged and dropped.
on_response(r, c) ==
    /\ pc[r] = "idle" /\ replies[c] # "none"
    /\ todo' = [todo EXCEPT ![r] = taken(m_map, msgid[c])]
    /\ give' = [give EXCEPT ![r] = answer(replies[c], c)]
    /\ m_map' = after_take(m_map, msgid[c])
    /\ pc' = [pc EXCEPT ![r] = "settle"]
    /\ UNCHANGED <<m_msgid_rr, m_timeout, issued, cur, op, ret, futureVars, birthVars,
                   cbVars, peerVars, ghostVars>>

\* A mutated form: the requests in the table are not told.
on_system_error_silent(r) ==
    /\ pc[r] = "idle"
    /\ pc' = [pc EXCEPT ![r] = "settle"]
    /\ UNCHANGED <<todo, give, cur, op, ret, sessionVars, futureVars, birthVars, cbVars,
                   peerVars, ghostVars>>

\* on_system_error() after a failed read or a message that cannot be handled.
on_system_error(r) ==
    /\ pc[r] = "idle"
    /\ take_all(r)
    /\ pc' = [pc EXCEPT ![r] = "settle"]
    /\ UNCHANGED <<m_msgid_rr, m_timeout, issued, cur, op, ret, futureVars, birthVars,
                   cbVars, peerVars, ghostVars>>

\* A mutated form: the timer completes futures that stay in the table.
step_timer_without_erase ==
    /\ pc[Timer] = "idle"
    /\ todo' = [todo EXCEPT ![Timer] = timed_out(m_map, f_timeout)]
    /\ give' = [give EXCEPT ![Timer] = local("timeout")]
    /\ f_timeout' = counted_down(m_map, f_timeout)
    /\ pc' = [pc EXCEPT ![Timer] = "settle"]
    /\ UNCHANGED <<m_map, m_msgid_rr, m_timeout, issued, msgid, cur, op, ret, futureVars,
                   cbVars, peerVars, ghostVars>>

\* step_timer_handler(): reqtable::step_timeout(), then complete what timed
\* out, then arm_step_timer().
step_timer_handler ==
    /\ pc[Timer] = "idle"
    /\ todo' = [todo EXCEPT ![Timer] = timed_out(m_map, f_timeout)]
    /\ give' = [give EXCEPT ![Timer] = local("timeout")]
    /\ f_timeout' = counted_down(m_map, f_timeout)
    /\ m_map' = after_step_timeout(m_map, f_timeout)
    /\ pc' = [pc EXCEPT ![Timer] = "settle"]
    /\ UNCHANGED <<m_msgid_rr, m_timeout, issued, msgid, cur, op, ret, futureVars, cbVars,
                   peerVars, ghostVars>>

-----------------------------------------------------------------------------
(* Waiting on a future: future::timed_wait(), and get() = join(), get_impl() *)

\* get() goes on to read the result, timed_wait() is over.
waited(t) ==
    /\ \/ op[t] = "get" /\ pc' = [pc EXCEPT ![t] = "get_error"] /\ UNCHANGED cur
       \/ op[t] = "timed_wait" /\ pc' = [pc EXCEPT ![t] = "idle"]
          /\ cur' = [cur EXCEPT ![t] = NoFuture]
    /\ op' = [op EXCEPT ![t] = "none"]
    /\ UNCHANGED <<todo, give, ret>>

\* Start: an unlocked is_ready() (get only), then the locked test of m_session.
timed_wait(t, c, o) ==
    /\ pc[t] = "idle" /\ c \in held
    /\ cur' = [cur EXCEPT ![t] = c]
    /\ \/ /\ fstate[c] = "pending"
          /\ pc' = [pc EXCEPT ![t] = "waiting"]
          /\ op' = [op EXCEPT ![t] = o]
       \/ /\ fstate[c] = "ready" /\ o = "get"
          /\ pc' = [pc EXCEPT ![t] = "get_error"]
          /\ UNCHANGED op
    /\ UNCHANGED <<todo, give, ret, sessionVars, futureVars, birthVars, cbVars, peerVars,
                   ghostVars>>

\* A mutated form: m_session is not looked at again after a wake-up.
wait_notified_once(t) ==
    /\ pc[t] = "waiting"
    /\ waited(t)
    /\ UNCHANGED <<sessionVars, futureVars, birthVars, cbVars, peerVars, ghostVars>>

\* Woken up with m_session gone.
wait_notified(t) ==
    /\ pc[t] = "waiting" /\ fstate[cur[t]] = "ready"
    /\ waited(t)
    /\ UNCHANGED <<sessionVars, futureVars, birthVars, cbVars, peerVars, ghostVars>>

\* The condition's timed_wait() returns false; the lock is given back without
\* another look at m_session.
wait_expired(t) ==
    /\ pc[t] = "waiting"
    /\ pc' = [pc EXCEPT ![t] = "expired"]
    /\ expired' = [expired EXCEPT ![cur[t]] = @ \cup {t}]
    /\ UNCHANGED <<completions, settled, cur, op, todo, give, ret, sessionVars, futureVars,
                   birthVars, cbVars, peerVars>>

\* set_result(TIMEOUT_ERROR) by the waiter; the table still has the future.
wait_timeout(t) ==
    /\ pc[t] = "expired"
    /\ set_result(cur[t], local("timeout"))
    /\ waited(t)
    /\ UNCHANGED <<attached, posted, sessionVars, birthVars, peerVars, ghostVars>>

\* get_impl() looks at m_error, without the lock ...
get_error(t) ==
    /\ pc[t] = "get_error"
    /\ pc' = [pc EXCEPT ![t] = IF result[cur[t]].kind \in {"reply", "unset"}
                               THEN "get_result" ELSE "throw"]
    /\ UNCHANGED <<cur, op, todo, give, ret, sessionVars, futureVars, birthVars, cbVars,
                   peerVars, ghostVars>>

\* ... then returns m_result, which is a nil object beside a local error; or
\* throw_exception() reads m_error once more and picks the exception, a
\* remote_error for anything it does not know, a nil included.
get_comes_back(t, how) ==
    /\ pc' = [pc EXCEPT ![t] = "returned"]
    /\ ret' = [ret EXCEPT ![t] = [how |-> how, from |-> result[cur[t]].from]]
    /\ UNCHANGED <<cur, op, todo, give, sessionVars, futureVars, birthVars, cbVars, peerVars,
                   ghostVars>>

get_result(t) ==
    /\ pc[t] = "get_result"
    /\ get_comes_back(t, IF result[cur[t]].kind = "reply" THEN "value" ELSE "nil")

exception_for ==
    [unset |-> "remote_error_nil", reply |-> "remote_error_nil", remote |-> "remote_error",
     timeout |-> "timeout_error", connect |-> "connect_error"]

throw_exception(t) ==
    /\ pc[t] = "throw"
    /\ get_comes_back(t, exception_for[result[cur[t]].kind])

\* The program has seen what get() came back with.
get_over(t) ==
    /\ pc[t] = "returned"
    /\ pc' = [pc EXCEPT ![t] = "idle"]
    /\ cur' = [cur EXCEPT ![t] = NoFuture]
    /\ ret' = [ret EXCEPT ![t] = NoRet]
    /\ UNCHANGED <<op, todo, give, sessionVars, futureVars, birthVars, cbVars, peerVars,
                   ghostVars>>

-----------------------------------------------------------------------------
(* The program and the peer *)

set_timeout(sec) ==
    /\ m_timeout' = sec
    /\ UNCHANGED <<m_msgid_rr, m_map, issued, futureVars, birthVars, cbVars, procVars,
                   peerVars, ghostVars>>

\* The peer answers a request that was written.
peer_answers(c, kind) ==
    /\ c \in sent /\ replies[c] = "none"
    /\ replies' = [replies EXCEPT ![c] = kind]
    /\ UNCHANGED <<held, sent, sessionVars, futureVars, birthVars, cbVars, procVars, ghostVars>>

Call(t)     == (\E c \in Calls : next_msgid(t, c)) \/ send_request_impl(t)
Send(t)     == \/ send_written(t) \/ send_dropped(t) \/ send_throws(t)
               \/ on_system_error_in_send(t) \/ on_connect_failed(t) \/ send_failed(t)
Settle(p)   == \E c \in Calls : settle(p, c)
Wait(t)     == \/ \E c \in Calls, o \in {"get", "timed_wait"} : timed_wait(t, c, o)
               \/ wait_notified(t) \/ wait_expired(t) \/ wait_timeout(t)
Get(t)      == get_error(t) \/ get_result(t) \/ throw_exception(t) \/ get_over(t)
Attach(t)   == \E c \in Calls : attach_callback(t, c)
Callback    == \E c \in Calls, k \in Callbacks : callback_real(c, k)
Respond(r)  == \E c \in Calls : on_response(r, c)
Peer        == \E c \in Calls, kind \in Answers : peer_answers(c, kind)

Next ==
    \/ \E t \in Threads : Call(t) \/ send_notify_impl(t) \/ Send(t) \/ Wait(t) \/ Get(t) \/ Attach(t)
    \/ \E p \in Procs : Settle(p) \/ handler_done(p)
    \/ \E r \in Readers : Respond(r) \/ on_system_error(r)
    \/ step_timer_handler
    \/ Callback \/ Peer
    \/ \E sec \in Timeouts : set_timeout(sec)

\* A thread that is inside the library keeps running, the loop runs every
\* handler that is ready, the timer fires again and again, and a timed wait
\* ends.  Nothing is assumed of the peer, and nothing of when a program calls.
Fairness ==
    /\ \A t \in Threads : WF_vars(send_request_impl(t)) /\ WF_vars(Send(t)) /\ WF_vars(Get(t))
    /\ \A t \in Threads : WF_vars(wait_notified(t) \/ wait_expired(t) \/ wait_timeout(t))
    /\ \A p \in Procs : WF_vars(Settle(p)) /\ WF_vars(handler_done(p))
    /\ WF_vars(step_timer_handler)
    /\ WF_vars(Callback)

Safety == Init /\ [][Next]_vars
Spec   == Safety /\ Fairness

-----------------------------------------------------------------------------
(* Properties *)

\* Type invariant.
TypeOK ==
    /\ m_msgid_rr \in Ids /\ m_timeout \in Timeouts /\ issued \in Nat
    /\ m_map \in [Ids -> Calls \cup {NoFuture}]
    /\ fstate \in [Calls -> {"none", "id", "pending", "ready"}]
    /\ result \in [Calls -> Results]
    /\ msgid \in [Calls -> Ids] /\ f_timeout \in [Calls -> Nat]
    /\ m_callback \in [Calls -> 0 .. MaxAttach]
    /\ attached \in [Calls -> 0 .. MaxAttach]
    /\ posted \subseteq Calls \X Callbacks
    /\ ran \in [Calls \X Callbacks -> Nat]
    /\ pc \in [Procs -> Pcs]
    /\ cur \in [Threads -> Calls \cup {NoFuture}]
    /\ op \in [Threads -> {"none", "get", "timed_wait"}]
    /\ todo \in [Procs -> SUBSET Calls]
    /\ give \in [Procs -> Results]
    /\ ret \in [Threads -> [how : Hows, from : Calls \cup {NoFuture}]]
    /\ held \subseteq Calls /\ sent \subseteq Calls
    /\ replies \in [Calls -> Answers \cup {"none"}]
    /\ completions \in [Calls -> Nat]
    /\ settled \in [Calls -> Results]
    /\ expired \in [Calls -> SUBSET Threads]

Inserted(c) == fstate[c] \in {"pending", "ready"}
NoWrap      == issued < IdSpace

\* take(), take_all() and reqtable::step_timeout() hand a future to exactly one
\* handler, whatever the order in which an answer, the timer, a failed write
\* and a failed read get to the table: a future is in the table under its own
\* id, or in the hands of one handler, or was completed, never two of these.
ExclusiveCustody ==
    /\ \A i \in Ids : m_map[i] # NoFuture =>
          /\ msgid[m_map[i]] = i /\ Inserted(m_map[i]) /\ completions[m_map[i]] = 0
          /\ \A p \in Procs : m_map[i] \notin todo[p]
    /\ \A p \in Procs : \A c \in todo[p] :
          /\ Inserted(c) /\ completions[c] = 0
          /\ \A q \in Procs \ {p} : c \notin todo[q]
    /\ \A c \in Calls : completions[c] <= 1 /\ (completions[c] = 1 => fstate[c] = "ready")

\* A future that send_request_impl() has put into the table stays in reach of
\* the handler that will complete it, although its waiter may have given up;
\* only the insert of a later call with the same id (the id wrapped around)
\* can push it out.
NoLostCall ==
    \A c \in Calls : Inserted(c) /\ completions[c] = 0 =>
        \/ c \in Futures(m_map)
        \/ \E p \in Procs : c \in todo[p]
        \/ ~NoWrap /\ \E d \in Calls \ {c} : Inserted(d) /\ msgid[d] = msgid[c]

\* on_response() completes a future with the answer to its own request, late
\* and repeated answers included; two calls can only be confused when they
\* have the same id, which needs IdSpace calls on the session.
OwnReply ==
    \A c \in Calls : result[c].kind \in Answers =>
        /\ msgid[result[c].from] = msgid[c]
        /\ NoWrap => result[c].from = c

\* A callback runs at most once, by set_result() or on the loop, although the
\* waiter that gives up and the handler that has the future both go through
\* set_result(); and none is left behind in a future that is ready.
CallbackOnce ==
    \A c \in Calls :
        /\ \A k \in Callbacks :
              /\ ran[<<c, k>>] <= 1
              /\ <<c, k>> \in posted => ran[<<c, k>>] = 0 /\ m_callback[c] # k
              /\ m_callback[c] = k => ran[<<c, k>>] = 0
        /\ fstate[c] = "ready" => m_callback[c] = 0

\* get_impl() reads m_error and m_result (and throw_exception() m_error again)
\* without the lock.  A thread gets the value or the exception of one
\* completion; the mixtures, a nil value and a remote_error of nil, need a wait
\* on the same future that ran out of time: another thread's for the former.
TornRead ==
    \A t \in Threads :
        /\ ret[t].how = "nil" => expired[cur[t]] \ {t} # {}
        /\ ret[t].how = "remote_error_nil" => expired[cur[t]] # {}

\* Once is_ready() is true it stays true, and the result stays what it is
\* unless a waiter has given up; then one of the two results is its timeout.
StableResult ==
    [][\A c \in Calls : fstate[c] = "ready" =>
          /\ fstate'[c] = "ready"
          /\ result'[c] # result[c] =>
                expired[c] # {} /\ "timeout" \in {result[c].kind, result'[c].kind}]_vars

-----------------------------------------------------------------------------
(* The inductive invariant behind the safety properties *)

\* Where a process is agrees with the future it works on; only a call that is
\* in the table or was there is seen outside of send_request_impl().
ControlInv ==
    /\ \A t \in Threads :
          /\ pc[t] = "insert" =>
                /\ cur[t] \in Calls /\ fstate[cur[t]] = "id"
                /\ \A u \in Threads \ {t} : pc[u] = "insert" => cur[u] # cur[t]
          /\ pc[t] # "insert" /\ cur[t] # NoFuture => Inserted(cur[t])
          /\ pc[t] \in {"waiting", "expired", "get_error", "get_result", "throw", "returned"}
                => cur[t] # NoFuture
          /\ pc[t] = "expired" => t \in expired[cur[t]]
    /\ \A p \in Handlers : pc[p] \in {"idle", "settle"}
    /\ \A p \in Procs : todo[p] # {} => pc[p] \in {"settle", "settle_throw"}
    /\ \A c \in held \cup sent : Inserted(c)
    /\ \A c \in Calls : replies[c] # "none" => c \in sent

\* Ids are handed out in order, so that they differ until they wrap around.
IdInv ==
    /\ issued + 1 < IdSpace => m_msgid_rr = issued + 1
    /\ NoWrap => \A c \in Calls : fstate[c] # "none" =>
          /\ msgid[c] \in 1 .. issued
          /\ \A d \in Calls \ {c} : fstate[d] # "none" => msgid[d] # msgid[c]

\* A handler completes what it has taken with a local error or with an answer
\* that carries the id of the future.
GiveInv ==
    \A p \in Procs : todo[p] # {} =>
        \/ give[p] \in {local("timeout"), local("connect")}
        \/ /\ give[p].kind \in Answers /\ give[p].from \in Calls
           /\ give[p].kind = replies[give[p].from]
           /\ \A c \in todo[p] : msgid[c] = msgid[give[p].from]

\* A result is an answer to a call with the same id; it is a waiter's timeout
\* as long as no handler has completed the future.
ResultInv ==
    \A c \in Calls :
        /\ result[c].kind \in Answers =>
              /\ Inserted(c) /\ result[c].from \in Calls /\ Inserted(result[c].from)
              /\ msgid[result[c].from] = msgid[c]
        /\ fstate[c] = "ready" /\ completions[c] = 0 =>
              result[c] = local("timeout") /\ expired[c] # {}

IInv == /\ TypeOK /\ ControlInv /\ IdInv /\ GiveInv /\ ResultInv
        /\ ExclusiveCustody /\ NoLostCall

\* Refinement mapping: a call is open from the insert into the table until a
\* handler completes its future.
outcome_of(c) ==
    IF completions[c] > 0 THEN settled[c]
    ELSE local(IF Inserted(c) THEN "open" ELSE "idle")

P == INSTANCE Promise WITH answered <- replies, outcome <- [c \in Calls |-> outcome_of(c)]

\* The session keeps the promise: the first completion of a call by an answer,
\* the timer or an error is the only one, and there is one, even when the
\* request was dropped or the send threw.  It takes fewer calls than there are
\* ids.
KeepsPromise == P!PSpec
=============================================================================
