----------------------------- MODULE LoopProofs -----------------------------
(***************************************************************************)
(* Proofs about loop_impl, for any number of threads, workers and          *)
(* callbacks and a team of any size.                                       *)
(*                                                                         *)
(* Neither of the two safety properties is inductive.  That there is one   *)
(* team needs TeamInv: the workers inside the io_service that have not     *)
(* joined themselves are among m_workers, and start() has as many left to  *)
(* create as are missing; so join() must have waited for all of them when  *)
(* it clears m_workers.  That the last one out frees the loop needs to     *)
(* know who may still be inside when nobody refers to it (PlaceInv,        *)
(* LifeInv), and that a callback which refers to it keeps it alive, also   *)
(* while it is in start() or join() (TaskInv).                             *)
(***************************************************************************)
EXTENDS Loop, FiniteSetTheorems, TLAPS

Places == {"none", "out", "adding", "in", "task", "recv", "join", "ended", "freed"}
Modes  == {"run", "run_one", "poll"}

-----------------------------------------------------------------------------
(* Types *)

\* Where a process goes when it leaves the io_service or a handler.
LEMMA OutsideFacts ==
    \A p \in Procs :
        /\ outside(p) \in {"ended", "recv", "out"} /\ after_handler(p) \in {"ended", "recv", "out", "in"}
        /\ p \in Workers => outside(p) = "ended" /\ after_handler(p) \in {"ended", "in"}
  BY DEF outside, after_handler

LEMMA GotoType ==
    ASSUME TypeOK, NEW p \in Procs, NEW where \in Places, goto(p, where)
    PROVE  at' \in [Procs -> Places]
  BY DEF TypeOK, goto, Places

LEMMA ModeType ==
    ASSUME TypeOK, NEW p \in Procs, NEW where
    PROVE  mode_at(p, where) \in [Procs -> Modes]
  BY DEF TypeOK, mode_at, Modes

\* The destructor is entered or not.
LEMMA LetGoType ==
    ASSUME TypeOK, NEW p \in Procs, NEW where \in Places, NEW stop \in BOOLEAN,
           let_go(p, where, stop)
    PROVE  /\ at' \in [Procs -> Places] /\ stopped' \in BOOLEAN /\ mode' \in [Procs -> Modes]
           /\ life' \in {"alive", "dying", "dead"} /\ joining' \in [Procs -> SUBSET Workers]
<1>1. CASE /\ goto(p, where) /\ mode' = mode_at(p, where) /\ stopped' \in {stopped, stop}
           /\ UNCHANGED <<life, joining>>
  BY <1>1, GotoType, ModeType DEF TypeOK
<1>2. CASE /\ life' = "dying" /\ stopped' = TRUE
           /\ goto(p, "join") /\ joining' = [joining EXCEPT ![p] = m_workers] /\ UNCHANGED mode
  BY <1>2, GotoType DEF TypeOK, Places, Modes
<1>3. QED
  BY <1>1, <1>2 DEF let_go

\* The same for the end of a handler.
LEMMA HandlerType ==
    ASSUME TypeOK, NEW p \in Procs, handler_ends(p)
    PROVE  /\ at' \in [Procs -> Places] /\ stopped' \in BOOLEAN /\ mode' \in [Procs -> Modes]
           /\ life' \in {"alive", "dying", "dead"} /\ joining' \in [Procs -> SUBSET Workers]
<1>1. after_handler(p) \in Places
  BY OutsideFacts DEF Places
<1>2. (stopped \/ ~Working') \in BOOLEAN
  OBVIOUS
<1>3. QED
  BY <1>1, <1>2, LetGoType DEF handler_ends

LEMMA TypeStep == TypeOK /\ [Next]_vars => TypeOK'
<1> SUFFICES ASSUME TypeOK, [Next]_vars PROVE TypeOK'
  OBVIOUS
<1>0. Threads \subseteq Procs /\ Workers \subseteq Procs
  BY DEF Procs
<1> USE <1>0, LoopAssumption DEF TypeOK, Places, Modes, ioVars, procVars, lifeVars
<1>1. ASSUME NEW p \in Procs, NEW then \in {"run", "poll"}, start(p, then)
      PROVE  TypeOK'
  BY <1>1, GotoType DEF start
<1>2. ASSUME NEW p \in Procs, NEW w \in Workers, add_worker(p, w)
      PROVE  TypeOK'
  BY <1>2, GotoType DEF add_worker
<1>3. ASSUME NEW p \in Procs, start_done(p)
      PROVE  TypeOK'
  <2>1. PICK next \in {"in", "out", "task"} : goto(p, next) /\ mode' = mode_at(p, next)
    BY <1>3 DEF start_done, home
  <2>2. QED
    BY <1>3, <2>1, GotoType, ModeType DEF start_done
<1>4. ASSUME NEW t \in Threads, NEW how \in {"run", "run_one", "poll"}, enter(t, how)
      PROVE  TypeOK'
  BY <1>4, GotoType DEF enter
<1>5. ASSUME NEW p \in Procs, end(p)
      PROVE  TypeOK'
  BY <1>5 DEF end
<1>6. ASSUME NEW p \in Procs, NEW k \in Tasks, submit(p, k)
      PROVE  TypeOK'
  BY <1>6 DEF submit
<1>7. ASSUME NEW p \in Procs, io_returns(p)
      PROVE  TypeOK'
  BY <1>7, OutsideFacts, GotoType, ModeType DEF io_returns
<1>8. ASSUME NEW p \in Procs, NEW c \in Calls, on_answer(p, c)
      PROVE  TypeOK'
  BY <1>8, HandlerType DEF on_answer, disarmed
<1>9. ASSUME NEW p \in Procs, step_timer_handler(p)
      PROVE  TypeOK'
  <2>1. /\ call' \in [Calls -> {"none", "waiting", "done"}] /\ f_timeout' \in [Calls -> 0 .. Timeout]
        /\ armed' \in {"off", "waiting", "due"}
    BY <1>9 DEF step_timer_handler, disarmed
  <2>2. QED
    BY <1>9, <2>1, HandlerType DEF step_timer_handler
<1>10. ASSUME NEW p \in Procs, NEW k \in Tasks, take_task(p, k)
      PROVE  TypeOK'
  BY <1>10, GotoType DEF take_task
<1>11. ASSUME NEW p \in Procs, task_ends(p)
      PROVE  TypeOK'
  <2>1. task' \in [Tasks -> {"none", "queued", "running", "done"}]
    BY <1>11 DEF task_ends
  <2>2. cur' \in [Procs -> Tasks \cup {None}]
    BY <1>11 DEF task_ends
  <2>3. QED
    BY <1>11, <2>1, <2>2, HandlerType DEF task_ends
<1>12. ASSUME NEW t \in Threads, drop(t) \/ drop_session(t)
      PROVE  TypeOK'
  <2>1. let_go(t, "out", stopped)
    BY <1>12 DEF drop, drop_session
  <2>2. /\ at' \in [Procs -> Places] /\ stopped' \in BOOLEAN /\ mode' \in [Procs -> Modes]
        /\ life' \in {"alive", "dying", "dead"} /\ joining' \in [Procs -> SUBSET Workers]
    BY <2>1, LetGoType
  <2>3. QED
    BY <1>12, <2>2 DEF drop, drop_session, disarmed
<1>13. ASSUME NEW t \in Threads, create_session(t)
      PROVE  TypeOK'
  BY <1>13 DEF create_session
<1>14. ASSUME NEW p \in Procs, join(p)
      PROVE  TypeOK'
  BY <1>14, GotoType DEF join
<1>15. ASSUME NEW p \in Procs, NEW w \in Workers, join_worker(p, w)
      PROVE  TypeOK'
  BY <1>15 DEF join_worker
<1>16. ASSUME NEW p \in Procs, join_done(p)
      PROVE  TypeOK'
  <2>1. PICK next \in {"freed", "out", "task"} : goto(p, next)
    BY <1>16 DEF join_done, home
  <2>2. QED
    BY <1>16, <2>1, GotoType DEF join_done
<1>17. ASSUME NEW t \in Threads, NEW c \in Calls, send_request(t, c)
      PROVE  TypeOK'
  BY <1>17 DEF send_request
<1>18. ASSUME NEW t \in Threads, NEW c \in Calls, recv(t, c)
      PROVE  TypeOK'
  BY <1>18, GotoType DEF recv
<1>19. ASSUME NEW t \in Threads, run_once(t)
      PROVE  TypeOK'
  BY <1>19, GotoType DEF run_once
<1>20. CASE timer_expires
  BY <1>20 DEF timer_expires
<1>21. CASE UNCHANGED vars
  BY <1>21 DEF vars
<1> HIDE DEF TypeOK
<1>22. QED
  BY <1>1, <1>2, <1>3, <1>4, <1>5, <1>6, <1>7, <1>8, <1>9, <1>10, <1>11, <1>12, <1>13, <1>14,
     <1>15, <1>16, <1>17, <1>18, <1>19, <1>20, <1>21
  DEF Next, Program, Call, Starting, Inside, Joining

-----------------------------------------------------------------------------
(* Who is where *)

\* Inside the io_service.
Busy == {"in", "task", "adding", "join"}

\* The process, or the callback it runs, refers to the loop.
Refers(p) == p \in holders \/ cur[p] \in Holding

\* A thread that has let go of the loop is outside, unless it destroys it; a
\* worker is never outside run(); who starts others refers to the loop; one
\* process is in join().
PlaceInv ==
    /\ \A t \in Threads \ holders : at[t] \in {"out", "join", "freed"}
    /\ \A w \in Workers : at[w] \notin {"out", "recv"}
    /\ \A p \in Procs : at[p] = "adding" => Refers(p)
    /\ \A p, q \in Procs : at[p] = "join" /\ at[q] = "join" => p = q

\* A callback that is running is run by one process; one that has called
\* start() or join() refers to the loop.
TaskInv ==
    /\ \A p \in Procs : at[p] = "task" => cur[p] # None
    /\ \A p \in Procs : cur[p] # None =>
          /\ at[p] \in {"task", "adding", "join"} /\ (at[p] # "task" => cur[p] \in Holding)
          /\ task[cur[p]] = "running"
          /\ \A q \in Procs \ {p} : cur[q] # cur[p]

\* The destructor runs when nothing refers to the loop, in one process, and
\* leaves nobody behind but workers that have joined themselves.
LifeInv ==
    /\ life = "alive" => \A p \in Procs : at[p] = "join" => Refers(p) /\ p \in holders \cup Workers
    /\ life # "alive" => ~Referred
    /\ life # "dead" => \A p \in Procs : at[p] # "freed"
    /\ life = "dead" => /\ \A p \in Procs : at[p] # "join"
                        /\ \E p \in Procs : \A q \in Procs : at[q] = "freed" <=> q = p
    /\ life = "dead" /\ ~entangled => \A w \in Workers \ detached : at[w] \notin Busy

\* Unless start() and join() got into each other's way: the workers inside the
\* io_service that have not joined themselves are known, are no more than the
\* team, less those that start() has still to create, and join() waits for
\* each of them.
TeamInv ==
    ~entangled =>
        /\ \A w \in Workers \ detached : at[w] \in Busy => w \in m_workers
        /\ Cardinality(m_workers) <= Team
        /\ \A p \in Procs : at[p] = "adding" =>
              /\ Cardinality(m_workers) + left[p] <= Team
              /\ \A q \in Procs : at[q] # "join" /\ (at[q] = "adding" => q = p)
        /\ \A p \in Procs : at[p] = "join" =>
              \A w \in m_workers \ detached : at[w] \in Busy => w \in joining[p]

LoopInv == TypeOK /\ PlaceInv /\ TaskInv /\ LifeInv /\ TeamInv

-----------------------------------------------------------------------------
(* Seen from the workers and the destructor, every step is one of nine *)

\* A process moves between the program, the io_service and a callback.
Moves(p, where) ==
    /\ at[p] \in {"out", "in", "task", "recv", "adding"}
    /\ where \in {"out", "in", "task", "recv", "ended"}
    /\ p \in Threads => p \in holders
    /\ p \in Workers => at[p] \in Busy /\ where \in {"in", "task", "ended"}
    /\ goto(p, where)
    /\ UNCHANGED <<m_workers, left, joining, holders, life, detached, entangled>>

\* The last reference goes and the destructor begins.
Dies(p) ==
    /\ life = "alive" /\ life' = "dying" /\ ~Referred'
    /\ at[p] \in {"out", "in", "task"}
    /\ p \in Workers \/ at[p] = "out"
    /\ \A q \in Procs \ {p} : ~Refers(q)
    /\ holders' = {}
    /\ goto(p, "join") /\ joining' = [joining EXCEPT ![p] = m_workers]
    /\ UNCHANGED <<m_workers, left, detached, entangled>>

\* A thread lets go of the loop and another reference is left.
LetsGo(t) ==
    /\ at[t] = "out" /\ holders' = holders \ {t}
    /\ UNCHANGED <<at, m_workers, left, joining, life, detached, entangled>>

Still == UNCHANGED <<at, m_workers, left, joining, holders, life, detached, entangled>>

LoopStep ==
    \/ \E p \in Procs, where \in Places : Moves(p, where)
    \/ \E p \in Procs : Dies(p)
    \/ \E t \in Threads : LetsGo(t)
    \/ \E p \in Procs, then \in {"run", "poll"} : start(p, then)
    \/ \E p \in Procs, w \in Workers : add_worker(p, w)
    \/ \E p \in Procs : join(p)
    \/ \E p \in Procs, w \in Workers : join_worker(p, w)
    \/ \E p \in Procs : join_done(p)
    \/ Still

\* Threads and workers are different processes, each somewhere.
LEMMA ProcFacts ==
    /\ Threads \subseteq Procs /\ Workers \subseteq Procs /\ Threads \cap Workers = {}
    /\ \A p \in Procs : p \in Threads \/ p \in Workers
    /\ None \notin Holding
    /\ TypeOK => at \in [Procs -> Places] /\ holders \subseteq Threads
  BY LoopAssumption DEF Procs, Workers, TypeOK, Places

\* A thread that is not outside has a reference.
LEMMA InsideHolds ==
    ASSUME PlaceInv, NEW t \in Threads, at[t] \notin {"out", "join", "freed"}
    PROVE  t \in holders
  BY DEF PlaceInv

\* Who calls the loop refers to it, and as long as it is in start() or join()
\* it is in the same callback.
LEMMA CallerRefers ==
    ASSUME NEW p \in Procs, Caller(p)
    PROVE  Refers(p)
  BY DEF Caller, Refers

LEMMA CurStep ==
    ASSUME TypeOK, [Next]_vars
    PROVE  \A q \in Procs : at[q] \in {"adding", "join"} => cur'[q] = cur[q]
<1> USE ProcFacts DEF TypeOK, ioVars, procVars, lifeVars
<1>1. ASSUME NEW p \in Procs, task_ends(p)
      PROVE  \A q \in Procs : at[q] \in {"adding", "join"} => cur'[q] = cur[q]
  BY <1>1 DEF task_ends
<1>2. ASSUME NEW p \in Procs, NEW k \in Tasks, take_task(p, k)
      PROVE  \A q \in Procs : at[q] \in {"adding", "join"} => cur'[q] = cur[q]
  BY <1>2 DEF take_task
<1>3. ASSUME NEW p \in Procs, Call(p) \/ Starting(p) \/ Joining(p)
      PROVE  UNCHANGED cur
  BY <1>3 DEF Call, Starting, Joining, start, end, join, submit, add_worker, start_done,
              join_worker, join_done
<1>4. ASSUME NEW p \in Procs, io_returns(p) \/ step_timer_handler(p) \/ \E c \in Calls : on_answer(p, c)
      PROVE  UNCHANGED cur
  BY <1>4 DEF io_returns, step_timer_handler, on_answer
<1>5. ASSUME NEW t \in Threads, Program(t) \/ run_once(t)
      PROVE  UNCHANGED cur
  BY <1>5 DEF Program, run_once, enter, drop, create_session, drop_session, send_request, recv
<1>6. CASE timer_expires \/ UNCHANGED vars
  BY <1>6 DEF timer_expires, vars
<1> HIDE DEF TypeOK
<1>7. QED
  BY <1>1, <1>2, <1>3, <1>4, <1>5, <1>6 DEF Next, Inside

\* A step that lets go of the last reference: no other process has one.
LEMMA OthersGone ==
    ASSUME TypeOK, TaskInv, NEW p \in Procs, ~Referred', holders' \in {holders, holders \ {p}},
           task' \in {task, [task EXCEPT ![cur[p]] = "done"]}
    PROVE  \A q \in Procs \ {p} : ~Refers(q)
<1> SUFFICES ASSUME NEW q \in Procs \ {p}, Refers(q) PROVE FALSE
  OBVIOUS
<1>1. holders' = {} /\ \A k \in Holding : task'[k] # "running"
  BY DEF Referred
<1>2. cur[q] \in Holding
  BY <1>1 DEF Refers
<1>3. task[cur[q]] = "running" /\ cur[q] # cur[p] /\ cur[q] \in Tasks
  BY <1>2, ProcFacts, LoopAssumption DEF TaskInv
<1>4. task'[cur[q]] = "running"
  BY <1>3 DEF TypeOK
<1>5. QED
  BY <1>1, <1>2, <1>4

LEMMA LoopSteps ==
    ASSUME TypeOK, PlaceInv, TaskInv, LifeInv, [Next]_vars
    PROVE  LoopStep
<1>0. at \in [Procs -> Places]
  BY ProcFacts
<1> USE <1>0, ProcFacts DEF ioVars, procVars, lifeVars
<1>1. ASSUME NEW p \in Procs, NEW where \in Places, Moves(p, where)
      PROVE  LoopStep
  BY <1>1 DEF LoopStep
<1>2. ASSUME Still
      PROVE  LoopStep
  BY <1>2 DEF LoopStep
\* Inside the io_service.
<1>3. ASSUME NEW p \in Procs, io_returns(p)
      PROVE  LoopStep
  <2>1. outside(p) \in {"ended", "recv", "out"} /\ (p \in Workers => outside(p) = "ended")
    BY OutsideFacts
  <2>2. Moves(p, outside(p))
    BY <1>3, <2>1, InsideHolds DEF io_returns, Moves, Busy
  <2>3. QED
    BY <1>1, <2>1, <2>2 DEF Places
<1>4. ASSUME NEW p \in Procs, NEW k \in Tasks, take_task(p, k)
      PROVE  LoopStep
  <2>1. Moves(p, "task")
    BY <1>4, InsideHolds DEF take_task, Moves, Busy
  <2>2. QED
    BY <1>1, <2>1 DEF Places
<1>5. ASSUME NEW t \in Threads, run_once(t) \/ (\E how \in Modes : enter(t, how))
                                \/ (\E c \in Calls : recv(t, c))
      PROVE  LoopStep
  <2>1. PICK where \in {"in", "out", "recv"} : goto(t, where)
    BY <1>5 DEF run_once, enter, recv
  <2>2. /\ at[t] \in {"out", "recv"} /\ t \in holders
        /\ UNCHANGED <<m_workers, left, joining, holders, life, detached, entangled>>
    BY <1>5, InsideHolds DEF run_once, enter, recv
  <2>3. Moves(t, where)
    BY <2>1, <2>2 DEF Moves
  <2>4. QED
    BY <1>1, <2>3 DEF Places
<1>6. ASSUME NEW p \in Procs, start_done(p)
      PROVE  LoopStep
  <2>1. PICK where \in {"in", "out", "task"} : goto(p, where) /\ (where # "task" => cur[p] = None)
    BY <1>6 DEF start_done, home
  <2>2. at[p] = "adding" /\ UNCHANGED <<m_workers, left, joining, holders, life, detached, entangled>>
    BY <1>6 DEF start_done
  <2>3. p \in Workers => cur[p] # None
    BY <2>2 DEF PlaceInv, Refers
  <2>4. Moves(p, where)
    BY <2>1, <2>2, <2>3, InsideHolds DEF Moves, Busy
  <2>5. QED
    BY <1>1, <2>4 DEF Places
\* References.
<1>7. ASSUME NEW p \in Procs, task_ends(p) \/ step_timer_handler(p) \/ \E c \in Calls : on_answer(p, c)
      PROVE  LoopStep
  <2>1. /\ at[p] \in {"in", "task"} /\ UNCHANGED <<m_workers, left, holders, detached, entangled>>
        /\ handler_ends(p) /\ task' \in {task, [task EXCEPT ![cur[p]] = "done"]}
    BY <1>7 DEF task_ends, step_timer_handler, on_answer
  <2>2. CASE goto(p, after_handler(p)) /\ UNCHANGED <<life, joining>>
    <3>1. after_handler(p) \in {"ended", "recv", "out", "in"}
          /\ (p \in Workers => after_handler(p) \in {"ended", "in"})
      BY OutsideFacts
    <3>2. Moves(p, after_handler(p))
      BY <2>1, <2>2, <3>1, InsideHolds DEF Moves, Busy
    <3>3. QED
      BY <1>1, <3>1, <3>2 DEF Places
  <2>3. CASE /\ ~Referred' /\ life = "alive" /\ life' = "dying"
             /\ goto(p, "join") /\ joining' = [joining EXCEPT ![p] = m_workers]
    <3>1. holders = {}
      BY <2>1, <2>3 DEF Referred
    <3>2. p \in Workers
      BY <2>1, <3>1, InsideHolds
    <3>3. \A q \in Procs \ {p} : ~Refers(q)
      BY <2>1, <2>3, OthersGone
    <3>4. Dies(p)
      BY <2>1, <2>3, <3>1, <3>2, <3>3 DEF Dies
    <3>5. QED
      BY <3>4 DEF LoopStep
  <2>4. QED
    BY <2>1, <2>2, <2>3 DEF handler_ends, let_go
<1>8. ASSUME NEW t \in Threads, drop(t) \/ drop_session(t)
      PROVE  LoopStep
  <2>1. /\ at[t] = "out" /\ UNCHANGED <<task, m_workers, left, detached, entangled>>
        /\ let_go(t, "out", stopped) /\ holders' \in {holders, holders \ {t}}
    BY <1>8 DEF drop, drop_session
  <2>2. CASE goto(t, "out") /\ UNCHANGED <<life, joining>>
    <3>1. at' = at
      BY <2>1, <2>2 DEF goto
    <3>2. QED
      BY <1>2, <2>1, <2>2, <3>1 DEF LetsGo, Still, LoopStep
  <2>3. CASE /\ ~Referred' /\ life = "alive" /\ life' = "dying"
             /\ goto(t, "join") /\ joining' = [joining EXCEPT ![t] = m_workers]
    <3>1. holders' = {}
      BY <2>3 DEF Referred
    <3>2. \A q \in Procs \ {t} : ~Refers(q)
      BY <2>1, <2>3, OthersGone
    <3>3. Dies(t)
      BY <2>1, <2>3, <3>1, <3>2 DEF Dies
    <3>4. QED
      BY <3>3 DEF LoopStep
  <2>4. QED
    BY <2>1, <2>2, <2>3 DEF let_go
\* The others.
<1>9. ASSUME \/ \E p \in Procs : end(p) \/ \E k \in Tasks : submit(p, k)
             \/ \E t \in Threads : create_session(t) \/ \E c \in Calls : send_request(t, c)
             \/ timer_expires \/ UNCHANGED vars
      PROVE  LoopStep
  BY <1>2, <1>9 DEF end, submit, create_session, send_request, timer_expires, vars, Still
<1>10. QED
  BY <1>3, <1>4, <1>5, <1>6, <1>7, <1>8, <1>9
  DEF Next, Program, Call, Starting, Inside, Joining, LoopStep, Modes

-----------------------------------------------------------------------------
(* The steps keep the invariant *)

LEMMA PlaceStep ==
    ASSUME TypeOK, PlaceInv, TaskInv, LifeInv, [Next]_vars
    PROVE  PlaceInv'
<1>0. /\ LoopStep /\ at \in [Procs -> Places]
      /\ \A q \in Procs : at[q] \in {"adding", "join"} => cur'[q] = cur[q]
  BY LoopSteps, CurStep, ProcFacts
<1> USE <1>0, ProcFacts DEF PlaceInv, Refers, goto
<1>1. ASSUME NEW p \in Procs, NEW where \in Places, Moves(p, where)
      PROVE  PlaceInv'
  BY <1>1 DEF Moves, Busy
<1>2. ASSUME NEW p \in Procs, Dies(p)
      PROVE  PlaceInv'
  <2>1. /\ at' = [at EXCEPT ![p] = "join"] /\ holders' = {}
        /\ \A q \in Procs \ {p} : ~Refers(q)
        /\ \A q \in Procs : at[q] = "join" => Refers(q)
    BY <1>2 DEF Dies, LifeInv
  <2>2. \A q \in Procs \ {p} : at'[q] = at[q] /\ at[q] \notin {"join", "adding"}
    BY <2>1
  <2>3. p \in Threads => at[p] = "out"
    BY <1>2 DEF Dies
  <2>4. at'[p] = "join"
    BY <2>1
  <2>5. \A t \in Threads \ holders' : at'[t] \in {"out", "join", "freed"}
    BY <2>1, <2>2, <2>4
  <2>6. QED
    BY <2>2, <2>4, <2>5
<1>3. ASSUME NEW t \in Threads, LetsGo(t)
      PROVE  PlaceInv'
  BY <1>3 DEF LetsGo
<1>4. ASSUME NEW p \in Procs, NEW then \in {"run", "poll"}, start(p, then)
      PROVE  PlaceInv'
  <2>1. Refers(p) /\ (p \in Threads => p \in holders)
    BY <1>4, CallerRefers, InsideHolds DEF start, Caller
  <2>2. QED
    BY <1>4, <2>1 DEF start
<1>5. ASSUME NEW p \in Procs, NEW w \in Workers, add_worker(p, w)
      PROVE  PlaceInv'
  BY <1>5 DEF add_worker, lifeVars
<1>6. ASSUME NEW p \in Procs, join(p)
      PROVE  PlaceInv'
  <2>1. p \in Threads => p \in holders
    BY <1>6, InsideHolds DEF join, Caller
  <2>2. QED
    BY <1>6, <2>1 DEF join
<1>7. ASSUME NEW p \in Procs, NEW w \in Workers, join_worker(p, w)
      PROVE  PlaceInv'
  BY <1>7 DEF join_worker
<1>8. ASSUME NEW p \in Procs, join_done(p)
      PROVE  PlaceInv'
  <2>1. /\ at[p] = "join" /\ holders' = holders
        /\ at' = [at EXCEPT ![p] = IF life = "alive" THEN home(p) ELSE "freed"]
    BY <1>8 DEF join_done
  <2>2. life = "alive" => Refers(p) /\ p \in holders \cup Workers
    BY <2>1 DEF LifeInv
  <2>3. /\ at'[p] \in {"out", "task", "freed"} /\ \A q \in Procs \ {p} : at'[q] = at[q]
        /\ p \in Workers => at'[p] \in {"task", "freed"}
        /\ p \in Threads \ holders => at'[p] \in {"out", "freed"}
    <3>1. p \in Workers /\ life = "alive" => cur[p] # None
      BY <2>2
    <3>2. life = "alive" => p \notin Threads \ holders
      BY <2>2
    <3>3. QED
      BY <2>1, <3>1, <3>2 DEF home
  <2>4. QED
    BY <2>1, <2>3
<1>9. CASE Still
  BY <1>9 DEF Still
<1>10. QED
  BY <1>0, <1>1, <1>2, <1>3, <1>4, <1>5, <1>6, <1>7, <1>8, <1>9 DEF LoopStep

\* A callback is taken from the queue by one process and ended by it.
LEMMA TaskStep ==
    ASSUME TypeOK, PlaceInv, TaskInv, LifeInv, [Next]_vars
    PROVE  TaskInv'
<1> USE ProcFacts DEF TaskInv, TypeOK, ioVars, procVars, lifeVars
\* Who is in no callback moves about outside callbacks.
<1>1. ASSUME NEW p \in Procs, NEW where, where # "task", goto(p, where), cur[p] = None,
             UNCHANGED <<cur, task>>
      PROVE  TaskInv'
  BY <1>1 DEF goto
<1>2. ASSUME UNCHANGED <<at, cur>>, \A k \in Tasks : task[k] = "running" => task'[k] = "running"
      PROVE  TaskInv'
  BY <1>2
<1>3. ASSUME NEW p \in Procs, NEW k \in Tasks, take_task(p, k)
      PROVE  TaskInv'
  <2>1. /\ at[p] = "in" /\ task[k] = "queued" /\ task' = [task EXCEPT ![k] = "running"]
        /\ at' = [at EXCEPT ![p] = "task"] /\ cur' = [cur EXCEPT ![p] = k]
    BY <1>3 DEF take_task, goto
  <2>2. \A q \in Procs : cur[q] # k
    BY <2>1, LoopAssumption
  <2>3. k # None /\ at'[p] = "task" /\ cur'[p] = k /\ task'[k] = "running"
    BY <2>1, LoopAssumption
  <2>4. \A q \in Procs \ {p} : /\ at'[q] = at[q] /\ cur'[q] = cur[q]
                               /\ cur[q] # None => task'[cur[q]] = task[cur[q]]
    BY <2>1, <2>2
  <2>5. QED
    BY <2>2, <2>3, <2>4
<1>4. ASSUME NEW p \in Procs, task_ends(p)
      PROVE  TaskInv'
  <2>1. /\ at[p] = "task" /\ task' = [task EXCEPT ![cur[p]] = "done"]
        /\ cur' = [cur EXCEPT ![p] = None]
    BY <1>4 DEF task_ends
  <2>2. at'[p] # "task" /\ \A q \in Procs \ {p} : at'[q] = at[q]
    BY <1>4, OutsideFacts DEF task_ends, handler_ends, let_go, goto
  <2>3. QED
    BY <2>1, <2>2
<1>5. ASSUME NEW p \in Procs, NEW k \in Tasks, submit(p, k)
      PROVE  TaskInv'
  BY <1>2, <1>5 DEF submit
<1>6. ASSUME NEW p \in Procs, io_returns(p) \/ step_timer_handler(p) \/ (\E c \in Calls : on_answer(p, c))
      PROVE  TaskInv'
  <2>1. outside(p) # "task" /\ after_handler(p) # "task"
    BY OutsideFacts
  <2>2. PICK where \in {outside(p), after_handler(p), "join"} : goto(p, where)
    BY <1>6 DEF io_returns, step_timer_handler, on_answer, handler_ends, let_go
  <2>3. at[p] = "in" /\ UNCHANGED <<cur, task>>
    BY <1>6 DEF io_returns, step_timer_handler, on_answer
  <2>4. QED
    BY <1>1, <2>1, <2>2, <2>3
<1>7. ASSUME NEW t \in Threads, drop(t) \/ drop_session(t)
      PROVE  TaskInv'
  BY <1>1, <1>7 DEF drop, drop_session, let_go
<1>8. ASSUME NEW t \in Threads, run_once(t) \/ (\E how \in Modes : enter(t, how))
                                \/ (\E c \in Calls : recv(t, c))
      PROVE  TaskInv'
  BY <1>1, <1>8 DEF enter, run_once, recv
<1>9. ASSUME NEW p \in Procs, NEW w \in Workers, add_worker(p, w)
      PROVE  TaskInv'
  <2>1. cur[w] = None
    BY <1>9 DEF add_worker, Unborn
  <2>2. QED
    BY <1>1, <1>9, <2>1 DEF add_worker
\* A callback calls start() or join() and comes back.
<1>10. ASSUME NEW p \in Procs, join(p) \/ \E then \in {"run", "poll"} : start(p, then)
      PROVE  TaskInv'
  <2>1. PICK where \in {"adding", "join"} : goto(p, where)
    BY <1>10 DEF join, start
  <2>2. UNCHANGED <<cur, task>> /\ (cur[p] # None => cur[p] \in Holding)
    BY <1>10 DEF join, start, Caller
  <2>3. QED
    BY <2>1, <2>2 DEF goto
<1>11. ASSUME NEW p \in Procs, start_done(p)
      PROVE  TaskInv'
  <2>1. PICK where : goto(p, where) /\ (where = "task" <=> cur[p] # None)
    BY <1>11 DEF start_done, home
  <2>2. at[p] = "adding" /\ UNCHANGED <<cur, task>>
    BY <1>11 DEF start_done
  <2>3. QED
    BY <2>1, <2>2 DEF goto
<1>12. ASSUME NEW p \in Procs, join_done(p)
      PROVE  TaskInv'
  <2>1. at[p] = "join" /\ UNCHANGED <<cur, task>>
    BY <1>12 DEF join_done
  <2>2. life # "alive" => cur[p] = None
    BY <2>1 DEF LifeInv, Referred
  <2>3. PICK where : goto(p, where) /\ (where = "task" <=> cur[p] # None)
    BY <1>12, <2>2 DEF join_done, home
  <2>4. QED
    BY <2>1, <2>3 DEF goto
<1>13. ASSUME \/ \E p \in Procs : end(p) \/ \E w \in Workers : join_worker(p, w)
              \/ \E t \in Threads : create_session(t) \/ \E c \in Calls : send_request(t, c)
              \/ timer_expires \/ UNCHANGED vars
      PROVE  TaskInv'
  BY <1>2, <1>13 DEF end, join_worker, create_session, send_request, timer_expires, vars
<1> HIDE DEF TaskInv, TypeOK
<1>14. QED
  BY <1>3, <1>4, <1>5, <1>6, <1>7, <1>8, <1>9, <1>10, <1>11, <1>12, <1>13
  DEF Next, Program, Call, Starting, Inside, Joining, Modes

\* What nothing refers to stays so: no thread and no callback is left that
\* could make a session or submit a callback.
LEMMA UnreferredStep ==
    ASSUME TypeOK, TaskInv, ~Referred, [Next]_vars
    PROVE  ~Referred'
<1>1. /\ holders = {} /\ ~handle /\ \A c \in Calls : call[c] # "waiting"
      /\ \A k \in Holding : task[k] \notin {"queued", "running"}
  BY DEF Referred, session
<1>2. /\ task \in [Tasks -> {"none", "queued", "running", "done"}] /\ Holding \subseteq Tasks
      /\ call \in [Calls -> {"none", "waiting", "done"}]
  BY LoopAssumption DEF TypeOK
<1>3. ASSUME UNCHANGED <<holders, handle>>, \A c \in Calls : call'[c] # "waiting",
             \A k \in Holding : task'[k] \in {task[k], "done"}
      PROVE  ~Referred'
  BY <1>1, <1>3 DEF Referred, session
<1>4. ASSUME NEW p \in Procs PROVE ~Caller(p)
  BY <1>1, ProcFacts DEF Caller, TaskInv
<1>5. ASSUME NEW p \in Procs, NEW k \in Tasks, take_task(p, k)
      PROVE  ~Referred'
  <2>1. k \notin Holding /\ task' = [task EXCEPT ![k] = "running"] /\ UNCHANGED <<holders, handle, call>>
    BY <1>1, <1>5 DEF take_task, lifeVars
  <2>2. QED
    BY <1>1, <1>2, <1>3, <2>1
<1>6. ASSUME NEW p \in Procs, task_ends(p)
      PROVE  ~Referred'
  <2>1. task' = [task EXCEPT ![cur[p]] = "done"] /\ UNCHANGED <<holders, handle, call>>
    BY <1>6 DEF task_ends
  <2>2. QED
    BY <1>1, <1>2, <1>3, <2>1
<1>7. ASSUME NEW t \in Threads, Program(t)
      PROVE  FALSE
  BY <1>1, <1>7 DEF Program, enter, drop, create_session, drop_session, send_request, recv
<1>8. ASSUME UNCHANGED <<holders, handle, call, task>>
      PROVE  ~Referred'
  BY <1>1, <1>3, <1>8
<1>9. ASSUME NEW p \in Procs, Starting(p) \/ Joining(p) \/ io_returns(p)
      PROVE  ~Referred'
  BY <1>8, <1>9 DEF Starting, add_worker, start_done, io_returns, Joining, join_worker, join_done,
                    ioVars, lifeVars
<1>10. ASSUME NEW p \in Procs, NEW c \in Calls, on_answer(p, c)
      PROVE  FALSE
  BY <1>1, <1>10 DEF on_answer
<1>11. ASSUME NEW p \in Procs, step_timer_handler(p)
      PROVE  ~Referred'
  <2>1. /\ call' = [c \in Calls |-> IF call[c] = "waiting" /\ f_timeout[c] = 0 THEN "done" ELSE call[c]]
        /\ UNCHANGED <<holders, handle, task>>
    BY <1>11 DEF step_timer_handler
  <2>2. QED
    BY <1>1, <1>3, <2>1
<1>12. ASSUME (\E t \in Threads : run_once(t)) \/ timer_expires \/ UNCHANGED vars
      PROVE  ~Referred'
  BY <1>8, <1>12 DEF run_once, timer_expires, vars, ioVars, lifeVars
<1>13. QED
  BY <1>4, <1>5, <1>6, <1>7, <1>9, <1>10, <1>11, <1>12 DEF Next, Inside, Call, start, end, join, submit

LEMMA LifeStep ==
    ASSUME TypeOK, PlaceInv, TaskInv, LifeInv, TeamInv, [Next]_vars
    PROVE  LifeInv'
<1>1. LoopStep /\ \A q \in Procs : at[q] \in {"adding", "join"} => cur'[q] = cur[q]
  BY LoopSteps, CurStep
<1>2. life # "alive" => ~Referred' /\ \A p \in Procs : ~Refers(p)
  BY UnreferredStep, ProcFacts DEF LifeInv, Referred, Refers, TaskInv
<1>3. life \in {"alive", "dying", "dead"} /\ at \in [Procs -> Places] /\ holders \subseteq Threads
  BY ProcFacts DEF TypeOK
<1> DEFINE Alive == /\ \A p \in Procs : at'[p] = "join" => Refers(p)' /\ p \in holders' \cup Workers
                    /\ \A p \in Procs : at'[p] # "freed"
<1>4. ASSUME life = "alive", life' = "alive", Alive
      PROVE  LifeInv'
  BY <1>4 DEF LifeInv
<1>5. ASSUME life = "dying", life' = "dying", \A p \in Procs : at'[p] # "freed"
      PROVE  LifeInv'
  BY <1>2, <1>5 DEF LifeInv
<1>6. ASSUME life = "dead", life' = "dead", entangled => entangled', detached \subseteq detached',
             \A p \in Procs : /\ at'[p] = "freed" <=> at[p] = "freed"
                              /\ at'[p] # "join"
                              /\ p \in Workers /\ at'[p] \in Busy => at[p] \in Busy
      PROVE  LifeInv'
  <2>1. \E p \in Procs : \A q \in Procs : at'[q] = "freed" <=> q = p
    BY <1>6 DEF LifeInv
  <2>2. ~entangled' => \A w \in Workers \ detached' : at'[w] \notin Busy
    BY <1>6, ProcFacts DEF LifeInv
  <2>3. QED
    BY <1>2, <1>6, <2>1, <2>2 DEF LifeInv
\* Nobody enters join(), no reference goes.
<1>7. ASSUME UNCHANGED <<holders, life, detached, entangled>>,
             \A p \in Procs : /\ at'[p] = "join" => at[p] = "join"
                              /\ at'[p] = "freed" <=> at[p] = "freed"
                              /\ p \in Workers /\ at'[p] \in Busy => at[p] \in Busy
      PROVE  LifeInv'
  <2>1. life = "alive" => Alive
    BY <1>1, <1>7 DEF LifeInv, Refers
  <2>2. QED
    BY <1>3, <1>4, <1>5, <1>6, <1>7, <2>1 DEF LifeInv
<1>8. ASSUME NEW p \in Procs, NEW where \in Places, Moves(p, where)
      PROVE  LifeInv'
  <2>1. /\ at' = [at EXCEPT ![p] = where] /\ UNCHANGED <<holders, life, detached, entangled>>
        /\ at[p] \notin {"freed", "join"} /\ where \notin {"freed", "join"}
        /\ (p \in Workers => at[p] \in Busy)
    BY <1>8 DEF Moves, goto
  <2>2. QED
    BY <1>3, <1>7, <2>1
<1>9. ASSUME NEW p \in Procs, Dies(p)
      PROVE  LifeInv'
  <2>1. /\ life = "alive" /\ life' = "dying" /\ ~Referred' /\ at' = [at EXCEPT ![p] = "join"]
    BY <1>9 DEF Dies, goto
  <2>2. \A q \in Procs : at'[q] # "freed"
    BY <1>3, <2>1 DEF LifeInv
  <2>3. QED
    BY <2>1, <2>2 DEF LifeInv
<1>10. ASSUME NEW t \in Threads, LetsGo(t)
      PROVE  LifeInv'
  <2>1. at[t] = "out" /\ holders' = holders \ {t} /\ UNCHANGED <<at, life, detached, entangled>>
    BY <1>10 DEF LetsGo
  <2>2. life = "alive" => Alive
    BY <1>1, <2>1 DEF LifeInv, Refers
  <2>3. QED
    BY <1>3, <1>4, <1>5, <1>6, <2>1, <2>2 DEF LifeInv
<1>11. ASSUME NEW p \in Procs, join(p) \/ \E then \in {"run", "poll"} : start(p, then)
      PROVE  LifeInv'
  <2>1. /\ Caller(p) /\ UNCHANGED <<holders, life, cur>>
        /\ at' = [at EXCEPT ![p] = "adding"] \/ at' = [at EXCEPT ![p] = "join"]
    BY <1>11 DEF start, join, goto
  <2>2. Refers(p) /\ p \in holders \cup Workers
    BY <2>1, CallerRefers, InsideHolds, ProcFacts DEF Caller
  <2>3. life = "alive"
    BY <1>2, <1>3, <2>2
  <2>4. Alive
    BY <1>3, <2>1, <2>2, <2>3 DEF LifeInv, Refers
  <2>5. QED
    BY <1>4, <2>1, <2>3, <2>4
<1>12. ASSUME NEW p \in Procs, NEW w \in Workers, add_worker(p, w)
      PROVE  LifeInv'
  <2>1. at[p] = "adding" /\ at' = [at EXCEPT ![w] = "in"] /\ UNCHANGED <<holders, life, cur>>
    BY <1>12 DEF add_worker, goto, lifeVars
  <2>2. life = "alive"
    BY <1>2, <1>3, <2>1 DEF PlaceInv
  <2>3. Alive
    BY <1>3, <2>1, <2>2, ProcFacts DEF LifeInv, Refers
  <2>4. QED
    BY <1>4, <2>1, <2>2, <2>3
<1>13. ASSUME NEW p \in Procs, NEW w \in Workers, join_worker(p, w)
      PROVE  LifeInv'
  <2>1. at[p] = "join" /\ detached \subseteq detached' /\ UNCHANGED <<at, cur, holders, life, entangled>>
    BY <1>13 DEF join_worker
  <2>2. life = "alive" => Alive
    BY <2>1 DEF LifeInv, Refers
  <2>3. QED
    BY <1>3, <1>4, <1>5, <2>1, <2>2 DEF LifeInv
<1>14. ASSUME NEW p \in Procs, join_done(p)
      PROVE  LifeInv'
  <2>1. /\ at[p] = "join" /\ joining[p] = {} /\ UNCHANGED <<cur, holders, detached, entangled>>
        /\ life' = IF life = "dying" THEN "dead" ELSE life
        /\ at' = [at EXCEPT ![p] = IF life = "alive" THEN home(p) ELSE "freed"]
    BY <1>14 DEF join_done, goto
  <2>2. CASE life = "alive"
    <3>1. home(p) \in {"out", "task"}
      BY DEF home
    <3>2. Alive
      BY <1>3, <2>1, <2>2, <3>1 DEF LifeInv, Refers
    <3>3. QED
      BY <1>4, <2>1, <2>2, <3>2
  <2>3. CASE life = "dying"
    <3>1. life' = "dead" /\ at'[p] = "freed" /\ \A q \in Procs \ {p} : at'[q] = at[q]
      BY <1>3, <2>1, <2>3
    <3>2. \A q \in Procs : at'[q] = "freed" <=> q = p
      BY <2>3, <3>1 DEF LifeInv
    <3>3. \A q \in Procs : at'[q] # "join"
      BY <2>1, <3>1 DEF PlaceInv
    <3>4. ~entangled' => \A w \in Workers \ detached' : at'[w] \notin Busy
      BY <2>1, <3>1, ProcFacts DEF TeamInv, Busy
    <3>5. QED
      BY <1>2, <2>3, <3>1, <3>2, <3>3, <3>4 DEF LifeInv
  <2>4. CASE life = "dead"
    BY <2>1, <2>4 DEF LifeInv
  <2>5. QED
    BY <1>3, <2>2, <2>3, <2>4
<1>15. CASE Still
  <2>1. UNCHANGED <<at, holders, life, detached, entangled>>
    BY <1>15 DEF Still
  <2>2. QED
    BY <1>7, <2>1
<1>16. QED
  BY <1>1, <1>8, <1>9, <1>10, <1>11, <1>12, <1>13, <1>14, <1>15 DEF LoopStep

\* Sets of workers are finite.
LEMMA WorkersFinite ==
    ASSUME NEW S \in SUBSET Workers
    PROVE  /\ IsFiniteSet(S) /\ Cardinality(S) \in Nat
           /\ \A R \in SUBSET S : Cardinality(R) <= Cardinality(S)
           /\ \A w \in Workers : w \notin S => Cardinality(S \cup {w}) = Cardinality(S) + 1
<1>1. IsFiniteSet(Workers)
  BY LoopAssumption, FS_Interval DEF Workers
<1>2. IsFiniteSet(S)
  BY <1>1, FS_Subset
<1>3. QED
  BY <1>2, FS_Subset, FS_AddElement, FS_CardinalityType

LEMMA TeamStep ==
    ASSUME TypeOK, PlaceInv, TaskInv, LifeInv, TeamInv, [Next]_vars
    PROVE  TeamInv'
<1>0. /\ at \in [Procs -> Places] /\ left \in [Procs -> 0 .. Team] /\ Team \in Nat \ {0}
      /\ m_workers \subseteq Workers /\ Cardinality(m_workers) \in Nat
      /\ joining \in [Procs -> SUBSET Workers] /\ LoopStep
  BY ProcFacts, LoopAssumption, WorkersFinite, LoopSteps DEF TypeOK
<1> USE <1>0, ProcFacts DEF TeamInv, Busy
\* The team and the joining stay, and nobody enters.
<1>1. ASSUME UNCHANGED <<m_workers, left, joining, detached, entangled>>,
             \A p \in Procs : /\ at'[p] \in {"join", "adding"} => at'[p] = at[p]
                              /\ p \in Workers /\ at'[p] \in Busy => at[p] \in Busy
      PROVE  TeamInv'
  BY <1>1
<1>2. ASSUME NEW p \in Procs, NEW where \in Places, Moves(p, where)
      PROVE  TeamInv'
  <2>1. /\ UNCHANGED <<m_workers, left, joining, detached, entangled>>
        /\ at' = [at EXCEPT ![p] = where] /\ where \notin {"join", "adding"}
        /\ p \in Workers => at[p] \in Busy
    BY <1>2 DEF Moves, goto
  <2>2. QED
    BY <1>1, <2>1
<1>3. ASSUME NEW p \in Procs, Dies(p)
      PROVE  TeamInv'
  <2>1. /\ at' = [at EXCEPT ![p] = "join"] /\ joining' = [joining EXCEPT ![p] = m_workers]
        /\ UNCHANGED <<m_workers, left, detached, entangled>>
        /\ \A q \in Procs \ {p} : ~Refers(q)
        /\ at[p] \in {"out", "in", "task"} /\ life = "alive" /\ (p \in Workers \/ at[p] = "out")
    BY <1>3 DEF Dies, goto
  <2>2. \A q \in Procs \ {p} : at'[q] = at[q] /\ at[q] \notin {"join", "adding"}
    BY <2>1 DEF LifeInv, PlaceInv
  <2>3. at'[p] = "join" /\ joining'[p] = m_workers
    BY <2>1
  <2>4. p \in Workers => at[p] \in Busy
    BY <2>1 DEF PlaceInv
  <2>5. QED
    BY <2>1, <2>2, <2>3, <2>4
<1>4. ASSUME NEW t \in Threads, LetsGo(t)
      PROVE  TeamInv'
  BY <1>1, <1>4 DEF LetsGo
<1>5. ASSUME NEW p \in Procs, NEW then \in {"run", "poll"}, start(p, then)
      PROVE  TeamInv'
  <2>1. /\ at' = [at EXCEPT ![p] = "adding"] /\ left' = [left EXCEPT ![p] = Team]
        /\ m_workers = {} /\ UNCHANGED <<m_workers, joining, detached>>
    BY <1>5 DEF start, goto, is_running
  <2>2. ~entangled' => ~entangled /\ \A q \in Procs : at[q] \notin {"adding", "join"}
    BY <1>5 DEF start, Entangles
  <2>3. Cardinality(m_workers) = 0 /\ left'[p] = Team
    BY <2>1, FS_EmptySet
  <2>4. p \in Workers => at[p] \in Busy
    BY <1>5 DEF start, Caller
  <2>5. QED
    BY <2>1, <2>2, <2>3, <2>4
<1>6. ASSUME NEW p \in Procs, NEW w \in Workers, add_worker(p, w)
      PROVE  TeamInv'
  <2>1. /\ at[p] = "adding" /\ left[p] > 0 /\ at[w] = "none"
        /\ m_workers' = m_workers \cup {w} /\ left' = [left EXCEPT ![p] = @ - 1]
        /\ at' = [at EXCEPT ![w] = "in"] /\ UNCHANGED <<joining, detached, entangled>>
    BY <1>6 DEF add_worker, goto, lifeVars, Unborn
  <2>2. Cardinality(m_workers') \in Nat /\ Cardinality(m_workers') <= Cardinality(m_workers) + 1
    <3>1. CASE w \in m_workers
      <4>1. m_workers' = m_workers
        BY <2>1, <3>1
      <4>2. QED
        BY <4>1
    <3>2. CASE w \notin m_workers
      BY <2>1, <3>2, WorkersFinite
    <3>3. QED
      BY <3>1, <3>2
  <2>3. left'[p] = left[p] - 1 /\ left[p] \in Nat /\ p # w
    BY <2>1
  <2>4. SUFFICES ASSUME ~entangled' PROVE TeamInv'
    BY DEF TeamInv
  <2>5. /\ Cardinality(m_workers) + left[p] <= Team
        /\ \A q \in Procs : at[q] # "join" /\ (at[q] = "adding" => q = p)
    BY <2>1, <2>4
  <2>6. \A q \in Procs : at'[q] # "join" /\ (at'[q] = "adding" => q = p)
    BY <2>1, <2>5
  <2>7. Cardinality(m_workers') <= Team /\ Cardinality(m_workers') + left'[p] <= Team
    <3>1. \A m, n, l, k \in Nat : n <= m + 1 /\ m + l <= k /\ l > 0 => n <= k /\ n + (l - 1) <= k
      OBVIOUS
    <3>2. left[p] > 0 /\ Team \in Nat
      BY <2>1
    <3>3. QED
      BY <2>2, <2>3, <2>5, <3>1, <3>2
  <2>8. \A v \in Workers \ detached' : at'[v] \in Busy => v \in m_workers'
    BY <2>1, <2>4
  <2>9. QED
    BY <2>6, <2>7, <2>8
<1>7. ASSUME NEW p \in Procs, join(p)
      PROVE  TeamInv'
  <2>1. /\ at' = [at EXCEPT ![p] = "join"] /\ joining' = [joining EXCEPT ![p] = m_workers]
        /\ UNCHANGED <<m_workers, left, detached>> /\ \A q \in Procs : at[q] # "join"
    BY <1>7 DEF join, goto
  <2>2. ~entangled' => ~entangled /\ \A u \in Procs : at[u] # "adding"
    BY <1>7 DEF join, Entangles
  <2>3. p \in Workers => at[p] \in Busy
    BY <1>7 DEF join, Caller, PlaceInv
  <2>4. QED
    BY <2>1, <2>2, <2>3
<1>8. ASSUME NEW p \in Procs, NEW w \in Workers, join_worker(p, w)
      PROVE  TeamInv'
  <2>1. /\ at[p] = "join" /\ (at[w] = "ended" \/ w = p)
        /\ joining' = [joining EXCEPT ![p] = @ \ {w}] /\ UNCHANGED <<m_workers, at, left, entangled>>
        /\ detached \subseteq detached' /\ (w = p => w \in detached')
    BY <1>8 DEF join_worker
  <2>2. at[w] \notin Busy \/ w \in detached'
    BY <2>1
  <2>3. QED
    BY <2>1, <2>2
<1>9. ASSUME NEW p \in Procs, join_done(p)
      PROVE  TeamInv'
  <2>1. /\ at[p] = "join" /\ joining[p] = {} /\ m_workers' = {}
        /\ UNCHANGED <<left, joining, detached, entangled>>
        /\ at' = [at EXCEPT ![p] = IF life = "alive" THEN home(p) ELSE "freed"]
    BY <1>9 DEF join_done, goto
  <2>2. Cardinality(m_workers') = 0
    BY <2>1, FS_EmptySet
  <2>3. SUFFICES ASSUME ~entangled' PROVE TeamInv'
    BY DEF TeamInv
  <2>4. \A w \in Workers \ detached : at[w] \notin Busy
    BY <2>1, <2>3
  <2>5. \A q \in Procs : at[q] # "adding" /\ (at[q] = "join" => q = p)
    BY <2>1, <2>3 DEF PlaceInv
  <2>6. at'[p] \in {"out", "task", "freed"} /\ \A q \in Procs \ {p} : at'[q] = at[q]
    BY <2>1 DEF home
  <2>7. p \notin Workers \ detached
    BY <2>1, <2>4
  <2>8. QED
    BY <2>1, <2>2, <2>4, <2>5, <2>6, <2>7
<1>10. CASE Still
  BY <1>1, <1>10 DEF Still
<1>11. QED
  BY <1>0, <1>2, <1>3, <1>4, <1>5, <1>6, <1>7, <1>8, <1>9, <1>10 DEF LoopStep

-----------------------------------------------------------------------------
(* The theorems *)

LEMMA LoopInit == Init => LoopInv
<1> SUFFICES ASSUME Init PROVE LoopInv
  OBVIOUS
<1>1. TypeOK
  <2>1. stopped \in BOOLEAN /\ handle \in BOOLEAN /\ entangled \in BOOLEAN
    BY DEF Init
  <2>2. 0 \in 0 .. Team /\ 0 \in 0 .. Timeout
    BY LoopAssumption
  <2>3. QED
    BY <2>1, <2>2 DEF Init, TypeOK
<1>2. \A p \in Procs : at[p] \in {"out", "none"} /\ cur[p] = None /\ (p \in Workers => at[p] = "none")
  BY ProcFacts DEF Init
<1>3. PlaceInv /\ TaskInv
  BY <1>2, ProcFacts DEF Init, PlaceInv, TaskInv
<1>4. LifeInv
  BY <1>2 DEF Init, LifeInv
<1>5. TeamInv
  BY <1>2, ProcFacts, FS_EmptySet, LoopAssumption DEF Init, TeamInv, Busy
<1>6. QED
  BY <1>1, <1>3, <1>4, <1>5 DEF LoopInv

\* The inductive invariant of the loop.
THEOREM Invariance == Safety => []LoopInv
<1>1. LoopInv /\ [Next]_vars => LoopInv'
  BY TypeStep, PlaceStep, TaskStep, LifeStep, TeamStep DEF LoopInv
<1>2. QED
  BY <1>1, LoopInit, PTL DEF Safety

\* Every variable of the loop keeps its type.
THEOREM TypeCorrect == Safety => []TypeOK
<1>1. LoopInv => TypeOK
  BY DEF LoopInv
<1>2. QED
  BY <1>1, Invariance, PTL

\* start() and join() never let more workers be in run() than were asked for,
\* beside those that a callback has made join themselves, unless two processes
\* were in start() and join() at once.
THEOREM Teams == Safety => []OneTeam
<1>1. LoopInv => OneTeam
  <2>1. SUFFICES ASSUME LoopInv, ~entangled
                 PROVE  Cardinality(Inner \ detached) <= Team
    BY DEF OneTeam
  <2>2. \A w \in Inner : w \in Workers /\ at[w] \in Busy
    BY <2>1, ProcFacts DEF LoopInv, PlaceInv, Inner, Places, Busy
  <2>3. /\ Inner \ detached \subseteq m_workers /\ m_workers \subseteq Workers
        /\ Cardinality(m_workers) <= Team
    BY <2>1, <2>2 DEF LoopInv, TeamInv, TypeOK
  <2>4. /\ Cardinality(Inner \ detached) \in Nat /\ Cardinality(m_workers) \in Nat /\ Team \in Nat
        /\ Cardinality(Inner \ detached) <= Cardinality(m_workers)
    BY <2>3, WorkersFinite, LoopAssumption
  <2>5. QED
    BY <2>3, <2>4
<1>2. QED
  BY <1>1, Invariance, PTL

\* The destructor waits for everybody: when the loop is gone nobody is inside
\* its io_service but the process that destroyed it and workers that have
\* joined themselves.
THEOREM LastOut == Safety => []LastOutFrees
<1>1. LoopInv => LastOutFrees
  <2>1. SUFFICES ASSUME LoopInv, life = "dead", ~entangled
                 PROVE  /\ \A p \in Procs \ detached : at[p] \notin {"in", "task", "recv", "adding", "join"}
                        /\ Cardinality({p \in Procs : at[p] = "freed"}) = 1
    BY DEF LastOutFrees
  <2>2. holders = {} /\ \A p \in Procs : at[p] # "join"
    BY <2>1 DEF LoopInv, LifeInv, Referred
  <2>3. \A t \in Threads : at[t] \in {"out", "freed"}
    BY <2>1, <2>2, ProcFacts DEF LoopInv, PlaceInv
  <2>4. \A w \in Workers \ detached : at[w] \notin {"in", "task", "recv", "adding"}
    BY <2>1 DEF LoopInv, LifeInv, PlaceInv, Busy
  <2>5. PICK p \in Procs : \A q \in Procs : at[q] = "freed" <=> q = p
    BY <2>1 DEF LoopInv, LifeInv
  <2>6. {q \in Procs : at[q] = "freed"} = {p}
    BY <2>5
  <2>7. QED
    BY <2>2, <2>3, <2>4, <2>6, ProcFacts, FS_Singleton
<1>2. QED
  BY <1>1, Invariance, PTL
=============================================================================
