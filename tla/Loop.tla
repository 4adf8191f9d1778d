-------------------------------- MODULE Loop --------------------------------
(***************************************************************************)
(* loop_impl: the boost io_service, its worker threads, and the mode       *)
(* without workers, in which a thread that waits for an answer runs the    *)
(* loop itself (future_impl::recv()).                                      *)
(*                                                                         *)
(* Processes.  Threads are the program's, Workers those that add_worker()  *)
(* creates.  A process is inside the io_service in run(), run_one() or     *)
(* poll().  There it takes one handler at a time: a submitted callback, or *)
(* one of a session: an answer, or an expiry of the step timer, which      *)
(* times calls out and arms the timer again.  Session models what those    *)
(* handlers do to a call; here a call is waiting or done.                  *)
(*                                                                         *)
(* The io_service (external) stops when stop() is called, and when the     *)
(* last of its work is done or somebody enters it without work: no session *)
(* and no callback.  The pending read that a session leaves behind may     *)
(* keep it from that.  loop_impl never resets it.                          *)
(*                                                                         *)
(* The loop lives as long as somebody refers to it: a thread of the        *)
(* program, a session, or a submitted callback whose future does.  A       *)
(* session lives while the program has a handle to it or a future waits.   *)
(* The last one to let go of the loop runs its destructor, and that may be *)
(* a worker, in a callback or in a handler that completes the last future. *)
(*                                                                         *)
(* A callback may call start(), end(), submit() and join(), and so a       *)
(* worker may join itself; one that enters the io_service again (run(),    *)
(* flush(), or get() without workers) is left out.  The program is taken   *)
(* not to call join() in two threads at once: m_workers is not protected.  *)
(***************************************************************************)
EXTENDS Naturals, FiniteSets

CONSTANTS
    Threads,    \* threads of the program
    MaxWorkers, \* bound: worker threads of a run, numbered from 1
    Tasks,      \* callbacks to submit
    Holding,    \* those of them that refer to the loop
    Calls,      \* calls to wait for
    Timeout,    \* steps of the timer after which a call times out
    Team,       \* the argument of start() and run()
    None        \* no task, no call

ASSUME LoopAssumption ==
    /\ Holding \subseteq Tasks /\ Timeout \in Nat /\ Team \in Nat \ {0}
    /\ MaxWorkers \in Nat /\ Threads \cap (1 .. MaxWorkers) = {}
    /\ None \notin Tasks \cup Calls

Workers == 1 .. MaxWorkers
Procs   == Threads \cup Workers

VARIABLES
    stopped,    \* the io_service is stopped
    m_workers,  \* the worker threads that loop_impl knows of
    at,         \* what each process does
    mode,       \* how it entered the io_service
    cur,        \* the callback it runs
    want,       \* the call it waits for in recv()
    left,       \* workers that start() has still to create
    joining,    \* workers that join() has still to wait for
    task,       \* callbacks: "none", "queued", "running" or "done"
    call,       \* calls: "none", "waiting" or "done"
    f_timeout,  \* future_impl::m_timeout of each call
    handle,     \* the program has a handle to the session
    armed,      \* the session's step timer: "off", "waiting", or its expiry is "due"
    holders,    \* threads of the program that refer to the loop
    life,       \* of loop_impl: "alive", "dying" (in its destructor) or "dead"
    detached,   \* workers that have joined themselves
    \* history
    entangled   \* processes were in start() or join() at once

ioVars   == <<stopped, task, call, f_timeout, handle, armed>>
procVars == <<at, mode, cur, want, left, joining>>
lifeVars == <<holders, life, detached, entangled>>
vars == <<ioVars, m_workers, procVars, lifeVars>>

Init ==
    /\ stopped = FALSE /\ m_workers = {}
    /\ at = [p \in Procs |-> IF p \in Threads THEN "out" ELSE "none"]
    /\ mode = [p \in Procs |-> "run"]
    /\ cur = [p \in Procs |-> None] /\ want = [p \in Procs |-> None]
    /\ left = [p \in Procs |-> 0] /\ joining = [p \in Procs |-> {}]
    /\ task = [k \in Tasks |-> "none"] /\ call = [c \in Calls |-> "none"]
    /\ f_timeout = [c \in Calls |-> 0]
    /\ handle = FALSE /\ armed = "off"
    /\ holders = Threads /\ life = "alive" /\ detached = {} /\ entangled = FALSE

goto(p, where) == at' = [at EXCEPT ![p] = where]

\* The process can call the loop: outside, or in a callback that refers to it.
Caller(p) == \/ p \in holders /\ at[p] = "out"
             \/ at[p] = "task" /\ cur[p] \in Holding

\* Where such a call returns to.
home(p) == IF cur[p] = None THEN "out" ELSE "task"

\* How a process entered the io_service no longer matters when it is outside.
mode_at(p, where) ==
    IF where \in {"out", "recv", "ended"} THEN [mode EXCEPT ![p] = "run"] ELSE mode

\* future_impl::m_session of a call that waits refers to the session.
session == handle \/ \E c \in Calls : call[c] = "waiting"

is_running == m_workers # {}

-----------------------------------------------------------------------------
(* start(), run(), end(), submit(), flush() *)

\* Workers that can still be created (a bound).
Unborn == {w \in Workers : at[w] = "none"}
Room   == \A p \in Procs : Cardinality(Unborn) >= Team + left[p]

Entangles == \E p \in Procs : at[p] \in {"adding", "join"}

\* A mutated form: a running loop gets more workers.
start_again(p, then) ==
    /\ Caller(p) /\ Room
    /\ goto(p, "adding") /\ left' = [left EXCEPT ![p] = Team]
    /\ mode' = IF cur[p] = None THEN [mode EXCEPT ![p] = then] ELSE mode
    /\ entangled' = (entangled \/ Entangles)
    /\ UNCHANGED <<ioVars, m_workers, cur, want, joining, holders, life, detached>>

\* A mutated form: one worker too many.
start_one_more(p, then) ==
    /\ Caller(p) /\ ~is_running /\ Room
    /\ goto(p, "adding") /\ left' = [left EXCEPT ![p] = Team + 1]
    /\ mode' = IF cur[p] = None THEN [mode EXCEPT ![p] = then] ELSE mode
    /\ entangled' = (entangled \/ Entangles)
    /\ UNCHANGED <<ioVars, m_workers, cur, want, joining, holders, life, detached>>

\* start(num), and run(num), which then enters the io_service itself; when
\* there are workers start() throws and changes nothing.
start(p, then) ==
    /\ Caller(p) /\ ~is_running /\ Room
    /\ goto(p, "adding") /\ left' = [left EXCEPT ![p] = Team]
    /\ mode' = IF cur[p] = None THEN [mode EXCEPT ![p] = then] ELSE mode
    /\ entangled' = (entangled \/ Entangles)
    /\ UNCHANGED <<ioVars, m_workers, cur, want, joining, holders, life, detached>>

\* add_worker(): one thread that calls io_service::run().
add_worker(p, w) ==
    /\ at[p] = "adding" /\ left[p] > 0 /\ w \in Unborn /\ \A v \in Unborn : w <= v
    /\ m_workers' = m_workers \cup {w}
    /\ left' = [left EXCEPT ![p] = @ - 1]
    /\ goto(w, "in")
    /\ UNCHANGED <<ioVars, mode, cur, want, joining, lifeVars>>

start_done(p) ==
    /\ at[p] = "adding" /\ left[p] = 0
    /\ LET next == IF cur[p] = None /\ mode[p] = "run" THEN "in" ELSE home(p)
       IN  goto(p, next) /\ mode' = mode_at(p, next)
    /\ UNCHANGED <<ioVars, m_workers, cur, want, left, joining, lifeVars>>

\* run() of a loop that has workers, or is to have none, run_once() and flush().
enter(t, how) ==
    /\ t \in holders /\ at[t] = "out"
    /\ goto(t, "in") /\ mode' = [mode EXCEPT ![t] = how]
    /\ UNCHANGED <<ioVars, m_workers, cur, want, left, joining, lifeVars>>

end(p) ==
    /\ Caller(p) /\ ~stopped /\ stopped' = TRUE
    /\ UNCHANGED <<task, call, f_timeout, handle, armed, m_workers, procVars, lifeVars>>

submit(p, k) ==
    /\ Caller(p) /\ task[k] = "none"
    /\ task' = [task EXCEPT ![k] = "queued"]
    /\ UNCHANGED <<stopped, call, f_timeout, handle, armed, m_workers, procVars, lifeVars>>

-----------------------------------------------------------------------------
(* Inside the io_service *)

Working == session \/ \E k \in Tasks : task[k] \in {"queued", "running"}

\* Where a process goes when run(), run_one() or poll() returns.
outside(p) ==
    IF p \in Workers THEN "ended" ELSE IF want[p] # None THEN "recv" ELSE "out"

\* After a handler: run() and poll() go on, run_one() returns.
after_handler(p) == IF mode[p] = "run_one" THEN outside(p) ELSE "in"

\* run(), run_one() and poll() return: the io_service is stopped or stops for
\* lack of work, or poll() finds nothing ready.
io_returns(p) ==
    /\ at[p] = "in"
    /\ \/ (stopped \/ ~Working) /\ stopped' = TRUE
       \/ mode[p] = "poll" /\ UNCHANGED stopped
    /\ goto(p, outside(p)) /\ mode' = mode_at(p, outside(p))
    /\ UNCHANGED <<task, call, f_timeout, handle, armed, m_workers, cur, want, left, joining,
                   lifeVars>>

take_task(p, k) ==
    /\ at[p] = "in" /\ ~stopped /\ task[k] = "queued"
    /\ task' = [task EXCEPT ![k] = "running"]
    /\ goto(p, "task") /\ cur' = [cur EXCEPT ![p] = k]
    /\ UNCHANGED <<stopped, call, f_timeout, handle, armed, m_workers, mode, want, left, joining,
                   lifeVars>>

-----------------------------------------------------------------------------
(* References to the loop *)

\* Whether anything refers to the loop after the step.
Referred == \/ holders # {} \/ session
            \/ \E k \in Holding : task[k] \in {"queued", "running"}

\* The step lets go of a reference; the last one starts the destructor, which
\* is end() and join().  Otherwise the process goes on elsewhere, and the
\* io_service is stopped if the step may do that.
let_go(p, elsewhere, stop) ==
    \/ /\ Referred' \/ life # "alive"
       /\ stopped' \in {stopped, stop}
       /\ goto(p, elsewhere) /\ mode' = mode_at(p, elsewhere)
       /\ UNCHANGED <<life, joining>>
    \/ /\ ~Referred' /\ life = "alive"
       /\ life' = "dying" /\ stopped' = TRUE
       /\ goto(p, "join") /\ joining' = [joining EXCEPT ![p] = m_workers]
       /\ UNCHANGED mode

\* A handler is over.
handler_ends(p) == let_go(p, after_handler(p), stopped \/ ~Working')

\* What is left of the step timer when a future lets go of the session; if
\* that is gone a handler of the timer that is due is not followed here.
disarmed(timer) == IF session' THEN timer ELSE "off"

\* An answer completes a call.
on_answer(p, c) ==
    /\ at[p] = "in" /\ ~stopped /\ call[c] = "waiting"
    /\ call' = [call EXCEPT ![c] = "done"]
    /\ UNCHANGED <<task, f_timeout, handle, m_workers, cur, want, left, holders, detached,
                   entangled>>
    /\ armed' = disarmed(armed)
    /\ handler_ends(p)

timer_expires ==
    /\ armed = "waiting" /\ armed' = "due"
    /\ UNCHANGED <<stopped, task, call, f_timeout, handle, m_workers, procVars, lifeVars>>

\* A mutated form: the timer is not armed again.
step_timer_once(p) ==
    /\ at[p] = "in" /\ ~stopped /\ armed = "due"
    /\ call' = [c \in Calls |-> IF call[c] = "waiting" /\ f_timeout[c] = 0 THEN "done" ELSE call[c]]
    /\ f_timeout' = [c \in Calls |-> IF f_timeout[c] > 0 THEN f_timeout[c] - 1 ELSE 0]
    /\ UNCHANGED <<task, handle, m_workers, cur, want, left, holders, detached, entangled>>
    /\ armed' = "off"
    /\ handler_ends(p)

\* step_timer_handler() of the session counts down, completes the calls that
\* have timed out and arms the timer again.  One expiry is one handler, which
\* any process inside may take.
step_timer_handler(p) ==
    /\ at[p] = "in" /\ ~stopped /\ armed = "due"
    /\ call' = [c \in Calls |-> IF call[c] = "waiting" /\ f_timeout[c] = 0 THEN "done" ELSE call[c]]
    /\ f_timeout' = [c \in Calls |-> IF f_timeout[c] > 0 THEN f_timeout[c] - 1 ELSE 0]
    /\ UNCHANGED <<task, handle, m_workers, cur, want, left, holders, detached, entangled>>
    /\ armed' = disarmed("waiting")
    /\ handler_ends(p)

\* The callback is over and its reference, if it has one, is gone.
task_ends(p) ==
    /\ at[p] = "task"
    /\ task' = [task EXCEPT ![cur[p]] = "done"] /\ cur' = [cur EXCEPT ![p] = None]
    /\ UNCHANGED <<call, f_timeout, handle, armed, m_workers, want, left, holders, detached,
                   entangled>>
    /\ handler_ends(p)

drop(t) ==
    /\ t \in holders /\ at[t] = "out"
    /\ holders' = holders \ {t}
    /\ UNCHANGED <<task, call, f_timeout, handle, armed, m_workers, cur, want, left, detached,
                   entangled>>
    /\ let_go(t, "out", stopped)

\* A session is created and armed; its handle is dropped by any thread.
create_session(t) ==
    /\ t \in holders /\ at[t] = "out" /\ ~session
    /\ handle' = TRUE /\ armed' = "waiting"
    /\ UNCHANGED <<stopped, task, call, f_timeout, m_workers, procVars, lifeVars>>

drop_session(t) ==
    /\ at[t] = "out" /\ handle /\ handle' = FALSE
    /\ UNCHANGED <<task, call, f_timeout, m_workers, cur, want, left, holders, detached,
                   entangled>>
    /\ armed' = disarmed(armed)
    /\ let_go(t, "out", stopped)

-----------------------------------------------------------------------------
(* join() *)

join(p) ==
    /\ Caller(p) /\ \A q \in Procs : at[q] # "join"
    /\ goto(p, "join") /\ joining' = [joining EXCEPT ![p] = m_workers]
    /\ entangled' = (entangled \/ Entangles)
    /\ UNCHANGED <<ioVars, m_workers, mode, cur, want, left, holders, life, detached>>

\* A mutated form: a worker waits for itself.
join_itself(p, w) ==
    /\ at[p] = "join" /\ w \in joining[p] /\ at[w] = "ended"
    /\ joining' = [joining EXCEPT ![p] = @ \ {w}]
    /\ UNCHANGED <<ioVars, m_workers, at, mode, cur, want, left, lifeVars>>

\* A mutated form: join() gives up after a while.
join_timed(p, w) ==
    /\ at[p] = "join" /\ w \in joining[p]
    /\ joining' = [joining EXCEPT ![p] = @ \ {w}]
    /\ detached' = IF w = p THEN detached \cup {w} ELSE detached
    /\ UNCHANGED <<ioVars, m_workers, at, mode, cur, want, left, holders, life, entangled>>

\* The worker has ended, or it is the caller itself: boost's join() throws
\* thread_resource_error and the worker is detached.
join_worker(p, w) ==
    /\ at[p] = "join" /\ w \in joining[p]
    /\ at[w] = "ended" \/ w = p
    /\ joining' = [joining EXCEPT ![p] = @ \ {w}]
    /\ detached' = IF w = p THEN detached \cup {w} ELSE detached
    /\ UNCHANGED <<ioVars, m_workers, at, mode, cur, want, left, holders, life, entangled>>

\* m_workers.clear(), also when the caller was detached and is still inside
\* run(); at the end of the destructor the loop is gone.
join_done(p) ==
    /\ at[p] = "join" /\ joining[p] = {}
    /\ m_workers' = {}
    /\ life' = IF life = "dying" THEN "dead" ELSE life
    /\ goto(p, IF life = "alive" THEN home(p) ELSE "freed")
    /\ UNCHANGED <<ioVars, mode, cur, want, left, joining, holders, detached, entangled>>

-----------------------------------------------------------------------------
(* future_impl::join() without workers: recv() *)

send_request(t, c) ==
    /\ t \in holders /\ at[t] = "out" /\ handle /\ call[c] = "none"
    /\ call' = [call EXCEPT ![c] = "waiting"]
    /\ f_timeout' = [f_timeout EXCEPT ![c] = Timeout]
    /\ UNCHANGED <<stopped, task, handle, armed, m_workers, procVars, lifeVars>>

recv(t, c) ==
    /\ t \in holders /\ at[t] = "out" /\ ~is_running /\ call[c] = "waiting"
    /\ goto(t, "recv") /\ want' = [want EXCEPT ![t] = c]
    /\ UNCHANGED <<ioVars, m_workers, mode, cur, left, joining, lifeVars>>

\* while (m_session) run_once().
run_once(t) ==
    /\ at[t] = "recv"
    /\ \/ /\ call[want[t]] = "waiting"
          /\ goto(t, "in") /\ mode' = [mode EXCEPT ![t] = "run_one"]
          /\ UNCHANGED want
       \/ /\ call[want[t]] = "done"
          /\ goto(t, "out") /\ want' = [want EXCEPT ![t] = None]
          /\ UNCHANGED mode
    /\ UNCHANGED <<ioVars, m_workers, cur, left, joining, lifeVars>>

-----------------------------------------------------------------------------

Starting(p) == (\E w \in Workers : add_worker(p, w)) \/ start_done(p)
Inside(p)   == \/ io_returns(p) \/ step_timer_handler(p)
               \/ \E k \in Tasks : take_task(p, k)
Joining(p)  == (\E w \in Workers : join_worker(p, w)) \/ join_done(p)

\* What the program calls: a thread outside, ...
Program(t) ==
    \/ \E how \in {"run", "run_one", "poll"} : enter(t, how)
    \/ drop(t) \/ create_session(t) \/ drop_session(t)
    \/ \E c \in Calls : send_request(t, c) \/ recv(t, c)

\* ... and a thread or a callback.
Call(p) ==
    \/ \E then \in {"run", "poll"} : start(p, then)
    \/ end(p) \/ join(p)
    \/ \E k \in Tasks : submit(p, k)

Next ==
    \/ \E t \in Threads : Program(t) \/ run_once(t)
    \/ \E p \in Procs :
          \/ Call(p) \/ Starting(p) \/ Joining(p)
          \/ Inside(p) \/ (\E c \in Calls : on_answer(p, c)) \/ task_ends(p)
    \/ timer_expires

\* A process inside the library goes on, one inside the io_service takes a
\* handler that stays ready, an armed timer expires, and a callback returns,
\* however many calls it makes before.  Which of several processes takes a
\* handler is nobody's promise.  Nothing is assumed of answers and of what the
\* program calls.
Fairness ==
    /\ \A t \in Threads : WF_vars(run_once(t))
    /\ \A p \in Procs : WF_vars(Starting(p)) /\ WF_vars(Inside(p)) /\ WF_vars(Joining(p))
                        /\ SF_vars(task_ends(p))
    /\ WF_vars(timer_expires)

Safety == Init /\ [][Next]_vars
Spec   == Safety /\ Fairness

-----------------------------------------------------------------------------
(* Properties *)

\* Type invariant.
TypeOK ==
    /\ stopped \in BOOLEAN /\ handle \in BOOLEAN /\ entangled \in BOOLEAN
    /\ armed \in {"off", "waiting", "due"}
    /\ m_workers \subseteq Workers /\ detached \subseteq Workers /\ holders \subseteq Threads
    /\ at \in [Procs -> {"none", "out", "adding", "in", "task", "recv", "join", "ended", "freed"}]
    /\ mode \in [Procs -> {"run", "run_one", "poll"}]
    /\ cur \in [Procs -> Tasks \cup {None}] /\ want \in [Procs -> Calls \cup {None}]
    /\ left \in [Procs -> 0 .. Team] /\ joining \in [Procs -> SUBSET Workers]
    /\ task \in [Tasks -> {"none", "queued", "running", "done"}]
    /\ call \in [Calls -> {"none", "waiting", "done"}] /\ f_timeout \in [Calls -> 0 .. Timeout]
    /\ life \in {"alive", "dying", "dead"}

\* Workers that are inside run().
Inner == {w \in Workers : at[w] \notin {"none", "ended", "freed"}}

\* start() refuses a loop that has workers and join() forgets those that have
\* ended: there are never more in run() than were asked for.  There are two
\* exceptions: a worker that has joined itself in a callback is forgotten and
\* goes on, and m_workers is not locked when two are in start() or join().
OneTeam == Cardinality(Inner \ detached) <= Team \/ entangled

\* The destructor waits for everybody: when loop_impl is gone nobody is inside
\* its io_service but the one that has destroyed it, whether that is a thread
\* or a worker that let go of the last reference in a callback or a handler.
\* The exceptions are those of OneTeam: a worker that has joined itself, and
\* one that was started while another process was in join(), is not waited for.
LastOutFrees ==
    life = "dead" /\ ~entangled =>
        /\ \A p \in Procs \ detached : at[p] \notin {"in", "task", "recv", "adding", "join"}
        /\ Cardinality({p \in Procs : at[p] = "freed"}) = 1

\* The thread is in recv() and nobody else is there to take a handler of the
\* session.
Alone(t) ==
    /\ want[t] # None /\ session /\ ~stopped
    /\ \A p \in Procs \ {t} : at[p] \notin {"in", "task"}

\* get() without workers comes back, with an answer or a timeout, although
\* another thread may have run the handler that completed its call and have
\* left: run_one() then sleeps until the step timer expires.  As long as
\* others stay inside they may take every handler, and after end(), or when
\* the loop had no work once, recv() spins.
RecvReturns == \A t \in Threads : Alone(t) ~> ~Alone(t)

\* join() of a stopped loop, and so the destructor, comes back: also in a
\* worker, which cannot wait for itself.
JoinReturns == \A p \in Procs : at[p] = "join" /\ stopped ~> at[p] # "join"
=============================================================================
