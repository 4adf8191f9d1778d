--------------------------- MODULE SessionProofs ---------------------------
(***************************************************************************)
(* Proofs about Session, for any number of threads, readers, calls and     *)
(* message ids.                                                            *)
(*                                                                         *)
(* The safety properties are not inductive one by one.  Custody needs the  *)
(* program counters (a process works on a future that is in the table or   *)
(* was); that a call is not lost, and that it gets its own answer, need    *)
(* the ids to differ until they wrap around, and what a handler holds in   *)
(* its hands to agree with the table it was taken from.  IInv is the       *)
(* conjunction of these parts.  The first two lemmas go through the        *)
(* actions one by one; after that every step is one of the eight kinds of  *)
(* CoreStep, in which take(), take_all() and step_timeout() are the same   *)
(* step Takes, and the other parts go through those.                       *)
(***************************************************************************)
EXTENDS Session, TLAPS

\* Who is a process.
LEMMA ProcsFacts == Threads \subseteq Procs /\ Readers \subseteq Procs /\ Timer \in Procs
  BY DEF Procs, Handlers

\* The results that handlers and waiters give are results.
LEMMA ResultFacts ==
    /\ local("unset") \in Results /\ local("timeout") \in Results /\ local("connect") \in Results
    /\ \A kind \in Answers, c \in Calls : answer(kind, c) \in Results
  BY SessionAssumption DEF Results, Kinds, local, answer

\* __sync_fetch_and_add() stays within msgid_t and is + 1 short of its end.
LEMMA IncrementFacts ==
    \A n \in Ids : /\ atomic_increment(n) \in Ids
                   /\ n + 1 < IdSpace => atomic_increment(n) = n + 1
  BY SessionAssumption DEF Ids, atomic_increment

\* The end of a wait, and set_result(), keep the types.
LEMMA WaitedType ==
    ASSUME TypeOK, NEW t \in Threads, waited(t)
    PROVE  /\ pc' \in [Procs -> Pcs] /\ cur' \in [Threads -> Calls \cup {NoFuture}]
           /\ op' \in [Threads -> {"none", "get", "timed_wait"}]
           /\ UNCHANGED <<todo, give, ret>>
<1>1. CASE op[t] = "get"
  BY <1>1, ProcsFacts DEF waited, TypeOK, Pcs
<1>2. CASE op[t] = "timed_wait"
  BY <1>2, ProcsFacts DEF waited, TypeOK, Pcs
<1>3. QED
  BY <1>1, <1>2 DEF waited

LEMMA SetResultType ==
    ASSUME TypeOK, NEW c \in Calls, NEW r \in Results, set_result(c, r)
    PROVE  /\ result' \in [Calls -> Results]
           /\ fstate' \in [Calls -> {"none", "id", "pending", "ready"}]
           /\ m_callback' \in [Calls -> 0 .. MaxAttach]
           /\ ran' \in [Calls \X Callbacks -> Nat]
<1>1. result' \in [Calls -> Results] /\ fstate' \in [Calls -> {"none", "id", "pending", "ready"}]
  BY DEF set_result, TypeOK
<1>2. m_callback' \in [Calls -> 0 .. MaxAttach]
  BY SessionAssumption DEF set_result, TypeOK
<1>3. ran' \in [Calls \X Callbacks -> Nat]
  <2>1. CASE m_callback[c] = 0
    BY <2>1 DEF set_result, TypeOK
  <2>2. CASE m_callback[c] # 0
    <3>1. <<c, m_callback[c]>> \in Calls \X Callbacks
      BY <2>2, SessionAssumption DEF TypeOK, Callbacks
    <3>2. ran' = [ran EXCEPT ![<<c, m_callback[c]>>] = @ + 1]
      BY <2>2 DEF set_result
    <3>3. QED
      BY <3>1, <3>2 DEF TypeOK
  <2>3. QED
    BY <2>1, <2>2
<1>4. QED
  BY <1>1, <1>2, <1>3

\* The initial state has the right types.
LEMMA TypeInit == Init => TypeOK
  BY SessionAssumption
  DEF Init, TypeOK, Pcs, Results, Kinds, Hows, Procs, Handlers, Ids, Callbacks, local, NoRet

\* The three actions whose alternatives must be told apart.
LEMMA SendFailedType ==
    ASSUME TypeOK, NEW t \in Threads, send_failed(t)
    PROVE  TypeOK'
<1>1. /\ pc' \in [Procs -> Pcs] /\ cur' \in [Threads -> Calls \cup {NoFuture}]
      /\ held' \subseteq Calls
  <2>1. CASE pc[t] = "settle" /\ returns(t)
    BY <2>1, ProcsFacts DEF returns, TypeOK, Pcs
  <2>2. CASE pc[t] = "settle_throw"
    BY <2>2, ProcsFacts DEF send_failed, TypeOK, Pcs
  <2>3. QED
    BY <2>1, <2>2 DEF send_failed
<1>2. QED
  BY <1>1, ProcsFacts, ResultFacts
  DEF send_failed, TypeOK, sessionVars, futureVars, birthVars, cbVars, ghostVars

LEMMA TimedWaitType ==
    ASSUME TypeOK, NEW t \in Threads, NEW c \in Calls, NEW o \in {"get", "timed_wait"},
           timed_wait(t, c, o)
    PROVE  TypeOK'
<1>1. pc' \in [Procs -> Pcs]
  BY ProcsFacts DEF timed_wait, TypeOK, Pcs
<1>2. op' \in [Threads -> {"none", "get", "timed_wait"}]
  BY DEF timed_wait, TypeOK
<1>3. QED
  BY <1>1, <1>2
  DEF timed_wait, TypeOK, sessionVars, futureVars, birthVars, cbVars, peerVars, ghostVars

LEMMA AttachType ==
    ASSUME TypeOK, NEW t \in Threads, NEW c \in Calls, attach_callback(t, c)
    PROVE  TypeOK'
<1>1. attached[c] + 1 \in Callbacks
  BY SessionAssumption DEF attach_callback, TypeOK, Callbacks
<1>2. attached' \in [Calls -> 0 .. MaxAttach]
  BY <1>1, SessionAssumption DEF attach_callback, TypeOK, Callbacks
<1>3. m_callback' \in [Calls -> 0 .. MaxAttach]
  <2>1. m_callback' \in {m_callback, [m_callback EXCEPT ![c] = attached[c] + 1]}
    BY DEF attach_callback
  <2>2. attached[c] + 1 \in 0 .. MaxAttach
    BY <1>1 DEF Callbacks
  <2>3. QED
    BY <2>1, <2>2 DEF TypeOK
<1>4. posted' \subseteq Calls \X Callbacks
  BY <1>1 DEF attach_callback, TypeOK
<1>5. QED
  BY <1>2, <1>3, <1>4
  DEF attach_callback, TypeOK, sessionVars, futureVars, birthVars, procVars, peerVars, ghostVars

\* Every step keeps the types: one case per action.
LEMMA TypeStep == TypeOK /\ ControlInv /\ [Next]_vars => TypeOK'
<1> SUFFICES ASSUME TypeOK, ControlInv, [Next]_vars PROVE TypeOK'
  OBVIOUS
<1> USE SessionAssumption, ProcsFacts, ResultFacts
    DEF TypeOK, Pcs, sessionVars, futureVars, birthVars, cbVars, procVars, peerVars, ghostVars
<1>1. ASSUME NEW t \in Threads, NEW c \in Calls, next_msgid(t, c)
      PROVE  TypeOK'
  BY <1>1, IncrementFacts DEF next_msgid
<1>2. ASSUME NEW t \in Threads, send_request_impl(t)
      PROVE  TypeOK'
  BY <1>2 DEF send_request_impl, insert
<1>3. ASSUME NEW t \in Threads, send_notify_impl(t)
      PROVE  TypeOK'
  BY <1>3 DEF send_notify_impl
<1>4. ASSUME NEW t \in Threads, send_written(t)
      PROVE  TypeOK'
  BY <1>4 DEF send_written, returns
<1>5. ASSUME NEW t \in Threads, send_dropped(t)
      PROVE  TypeOK'
  BY <1>5 DEF send_dropped, returns
<1>6. ASSUME NEW t \in Threads, send_throws(t)
      PROVE  TypeOK'
  BY <1>6 DEF send_throws
<1>7. ASSUME NEW t \in Threads, on_system_error_in_send(t)
      PROVE  TypeOK'
  BY <1>7 DEF on_system_error_in_send, on_send_error, take_all, after_take_all, Futures
<1>8. ASSUME NEW t \in Threads, on_connect_failed(t)
      PROVE  TypeOK'
  BY <1>8 DEF on_connect_failed, on_send_error, take_all, after_take_all, Futures
<1>9. ASSUME NEW t \in Threads, wait_notified(t)
      PROVE  TypeOK'
  BY <1>9, WaitedType DEF wait_notified
<1>10. ASSUME NEW t \in Threads, wait_expired(t)
      PROVE  TypeOK'
  BY <1>10 DEF wait_expired
<1>11. ASSUME NEW t \in Threads, wait_timeout(t)
      PROVE  TypeOK'
  <2>1. cur[t] \in Calls
    BY <1>11 DEF wait_timeout, ControlInv
  <2>2. QED
    BY <1>11, <2>1, WaitedType, SetResultType DEF wait_timeout
<1>12. ASSUME NEW t \in Threads, get_error(t)
      PROVE  TypeOK'
  BY <1>12 DEF get_error
<1>13. ASSUME NEW t \in Threads, get_result(t)
      PROVE  TypeOK'
  BY <1>13 DEF get_result, get_comes_back, ControlInv, Results, Hows
<1>14. ASSUME NEW t \in Threads, throw_exception(t)
      PROVE  TypeOK'
  BY <1>14 DEF throw_exception, get_comes_back, exception_for, ControlInv, Results, Kinds,
      Hows
<1>15. ASSUME NEW t \in Threads, get_over(t)
      PROVE  TypeOK'
  BY <1>15 DEF get_over, NoRet, Hows
<1>16. ASSUME NEW p \in Procs, NEW c \in Calls, settle(p, c)
      PROVE  TypeOK'
  BY <1>16, SetResultType DEF settle
<1>17. ASSUME NEW p \in Procs, handler_done(p)
      PROVE  TypeOK'
  BY <1>17 DEF handler_done
<1>18. ASSUME NEW r \in Readers, NEW c \in Calls, on_response(r, c)
      PROVE  TypeOK'
  <2>1. m_map' \in [Ids -> Calls \cup {NoFuture}]
    BY <1>18 DEF on_response, after_take
  <2>2. todo' \in [Procs -> SUBSET Calls]
    BY <1>18 DEF on_response, taken
  <2>3. give' \in [Procs -> Results] /\ pc' \in [Procs -> Pcs]
    BY <1>18 DEF on_response
  <2>4. QED
    BY <1>18, <2>1, <2>2, <2>3 DEF on_response
<1>19. ASSUME NEW r \in Readers, on_system_error(r)
      PROVE  TypeOK'
  BY <1>19 DEF on_system_error, take_all, after_take_all, Futures
<1>20. CASE step_timer_handler
  BY <1>20 DEF step_timer_handler, timed_out, counted_down, after_step_timeout, stepped,
      exhausted, Futures
<1>21. ASSUME NEW c \in Calls, NEW k \in Callbacks, callback_real(c, k)
      PROVE  TypeOK'
  BY <1>21 DEF callback_real, Callbacks
<1>22. ASSUME NEW c \in Calls, NEW kind \in Answers, peer_answers(c, kind)
      PROVE  TypeOK'
  BY <1>22 DEF peer_answers
<1>23. ASSUME NEW sec \in Timeouts, set_timeout(sec)
      PROVE  TypeOK'
  BY <1>23 DEF set_timeout
<1>24. CASE UNCHANGED vars
  BY <1>24 DEF vars
<1> HIDE DEF TypeOK
<1>25. ASSUME NEW t \in Threads, send_failed(t)
      PROVE  TypeOK'
  BY <1>25, SendFailedType
<1>26. ASSUME NEW t \in Threads, NEW c \in Calls, NEW o \in {"get", "timed_wait"},
             timed_wait(t, c, o)
      PROVE  TypeOK'
  BY <1>26, TimedWaitType
<1>27. ASSUME NEW t \in Threads, NEW c \in Calls, attach_callback(t, c)
      PROVE  TypeOK'
  BY <1>27, AttachType
<1>28. QED
  BY <1>1, <1>2, <1>3, <1>4, <1>5, <1>6, <1>7, <1>8, <1>9, <1>10, <1>11, <1>12, <1>13, <1>14,
     <1>15, <1>16, <1>17, <1>18, <1>19, <1>20, <1>21, <1>22, <1>23, <1>24, <1>25, <1>26, <1>27
  DEF Next, Call, Send, Wait, Get, Attach, Settle, Respond, Callback, Peer

\* Every step keeps the program counters in line with the futures.
LEMMA ControlStep == TypeOK /\ ControlInv /\ ExclusiveCustody /\ [Next]_vars => ControlInv'
<1> SUFFICES ASSUME TypeOK, ControlInv, ExclusiveCustody, [Next]_vars PROVE ControlInv'
  OBVIOUS
<1> USE SessionAssumption, ProcsFacts
    DEF TypeOK, ControlInv, Inserted, Procs, Handlers, sessionVars, futureVars, birthVars,
        cbVars, procVars, peerVars, ghostVars
<1>1. ASSUME NEW t \in Threads, NEW c \in Calls, next_msgid(t, c)
      PROVE  ControlInv'
  BY <1>1 DEF next_msgid, atomic_increment
<1>2. ASSUME NEW t \in Threads, send_request_impl(t)
      PROVE  ControlInv'
  BY <1>2 DEF send_request_impl, insert
<1>3. ASSUME NEW t \in Threads, send_notify_impl(t)
      PROVE  ControlInv'
  BY <1>3 DEF send_notify_impl
<1>4. ASSUME NEW t \in Threads, send_written(t)
      PROVE  ControlInv'
  BY <1>4 DEF send_written, returns
<1>5. ASSUME NEW t \in Threads, send_dropped(t)
      PROVE  ControlInv'
  BY <1>5 DEF send_dropped, returns
<1>6. ASSUME NEW t \in Threads, send_throws(t)
      PROVE  ControlInv'
  BY <1>6 DEF send_throws
<1>7. ASSUME NEW t \in Threads, on_system_error_in_send(t)
      PROVE  ControlInv'
  BY <1>7 DEF on_system_error_in_send, on_send_error, take_all, after_take_all, Futures
<1>8. ASSUME NEW t \in Threads, on_connect_failed(t)
      PROVE  ControlInv'
  BY <1>8 DEF on_connect_failed, on_send_error, take_all, after_take_all, Futures
<1>9. ASSUME NEW t \in Threads, send_failed(t)
      PROVE  ControlInv'
  <2> USE <1>9, SessionAssumption, ProcsFacts
  <2>1. /\ pc' = [pc EXCEPT ![t] = "idle"] /\ cur' = [cur EXCEPT ![t] = NoFuture]
        /\ held' \in {held, held \cup ({cur[t]} \ {NoFuture})}
        /\ pc[t] # "insert" /\ todo[t] = {}
        /\ UNCHANGED <<fstate, todo, sent, replies, expired>>
    BY DEF send_failed, returns
  <2>2. \A c \in held' \cup sent' : Inserted(c)'
    BY <2>1
  <2>3. QED
    BY <2>1, <2>2
<1>10. ASSUME NEW t \in Threads, NEW c \in Calls, NEW o \in {"get", "timed_wait"},
             timed_wait(t, c, o)
      PROVE  ControlInv'
  <2>1. c # NoFuture /\ fstate[c] \in {"pending", "ready"}
    BY <1>10 DEF timed_wait
  <2>2. CASE pc' = [pc EXCEPT ![t] = "waiting"]
    BY <1>10, <2>1, <2>2 DEF timed_wait
  <2>3. CASE pc' = [pc EXCEPT ![t] = "get_error"]
    BY <1>10, <2>1, <2>3 DEF timed_wait
  <2>4. QED
    BY <1>10, <2>2, <2>3 DEF timed_wait
<1>11. ASSUME NEW t \in Threads, wait_notified(t)
      PROVE  ControlInv'
  <2> USE <1>11, SessionAssumption, ProcsFacts
  <2>1. /\ \/ pc' = [pc EXCEPT ![t] = "get_error"] /\ cur' = cur
           \/ pc' = [pc EXCEPT ![t] = "idle"] /\ cur' = [cur EXCEPT ![t] = NoFuture]
        /\ pc[t] \in {"waiting", "expired"} /\ cur[t] # NoFuture
        /\ UNCHANGED fstate
        /\ UNCHANGED <<todo, held, sent, replies, expired>>
    BY DEF wait_notified, waited
  <2>2. CASE pc' = [pc EXCEPT ![t] = "get_error"] /\ cur' = cur
    BY <2>1, <2>2
  <2>3. CASE pc' = [pc EXCEPT ![t] = "idle"] /\ cur' = [cur EXCEPT ![t] = NoFuture]
    BY <2>1, <2>3
  <2>4. QED
    BY <2>1, <2>2, <2>3
<1>12. ASSUME NEW t \in Threads, wait_expired(t)
      PROVE  ControlInv'
  BY <1>12 DEF wait_expired
<1>13. ASSUME NEW t \in Threads, wait_timeout(t)
      PROVE  ControlInv'
  <2>1. /\ \/ pc' = [pc EXCEPT ![t] = "get_error"] /\ cur' = cur
           \/ pc' = [pc EXCEPT ![t] = "idle"] /\ cur' = [cur EXCEPT ![t] = NoFuture]
        /\ pc[t] \in {"waiting", "expired"} /\ cur[t] # NoFuture
        /\ fstate' = [fstate EXCEPT ![cur[t]] = "ready"]
        /\ UNCHANGED <<todo, held, sent, replies, expired>>
    BY <1>13 DEF wait_timeout, set_result, waited
  <2>2. /\ \A d \in Calls : fstate[d] = "id" => fstate'[d] = "id"
        /\ \A d \in Calls : Inserted(d) => Inserted(d)'
    BY <2>1
  <2>3. CASE pc' = [pc EXCEPT ![t] = "get_error"] /\ cur' = cur
    BY <2>1, <2>2, <2>3
  <2>4. CASE pc' = [pc EXCEPT ![t] = "idle"] /\ cur' = [cur EXCEPT ![t] = NoFuture]
    BY <2>1, <2>2, <2>4
  <2>5. QED
    BY <2>1, <2>3, <2>4
<1>14. ASSUME NEW t \in Threads, get_error(t)
      PROVE  ControlInv'
  BY <1>14 DEF get_error
<1>15. ASSUME NEW t \in Threads, get_result(t)
      PROVE  ControlInv'
  BY <1>15 DEF get_result, get_comes_back
<1>16. ASSUME NEW t \in Threads, throw_exception(t)
      PROVE  ControlInv'
  BY <1>16 DEF throw_exception, get_comes_back, exception_for
<1>17. ASSUME NEW t \in Threads, get_over(t)
      PROVE  ControlInv'
  BY <1>17 DEF get_over, NoRet
<1>18. ASSUME NEW t \in Threads, NEW c \in Calls, attach_callback(t, c)
      PROVE  ControlInv'
  BY <1>18 DEF attach_callback
<1>19. ASSUME NEW p \in Procs, NEW c \in Calls, settle(p, c)
      PROVE  ControlInv'
  <2>1. /\ fstate' = [fstate EXCEPT ![c] = "ready"] /\ todo' = [todo EXCEPT ![p] = @ \ {c}]
        /\ UNCHANGED <<pc, cur, held, sent, replies, expired>>
        /\ Inserted(c)
    BY <1>19 DEF settle, set_result, ExclusiveCustody
  <2>2. QED
    BY <1>19, <2>1 DEF settle
<1>20. ASSUME NEW p \in Procs, handler_done(p)
      PROVE  ControlInv'
  BY <1>20 DEF handler_done
<1>21. ASSUME NEW r \in Readers, NEW c \in Calls, on_response(r, c)
      PROVE  ControlInv'
  BY <1>21 DEF on_response, taken, after_take
<1>22. ASSUME NEW r \in Readers, on_system_error(r)
      PROVE  ControlInv'
  BY <1>22 DEF on_system_error, take_all, after_take_all, Futures
<1>23. CASE step_timer_handler
  BY <1>23 DEF step_timer_handler, timed_out, counted_down, after_step_timeout, stepped,
      exhausted, Futures
<1>24. ASSUME NEW c \in Calls, NEW k \in Callbacks, callback_real(c, k)
      PROVE  ControlInv'
  BY <1>24 DEF callback_real
<1>25. ASSUME NEW c \in Calls, NEW kind \in Answers, peer_answers(c, kind)
      PROVE  ControlInv'
  BY <1>25 DEF peer_answers
<1>26. ASSUME NEW sec \in Timeouts, set_timeout(sec)
      PROVE  ControlInv'
  BY <1>26 DEF set_timeout
<1>27. CASE UNCHANGED vars
  BY <1>27 DEF vars
<1> HIDE DEF TypeOK, ControlInv
<1>28. QED
  BY <1>1, <1>2, <1>3, <1>4, <1>5, <1>6, <1>7, <1>8, <1>9, <1>10, <1>11, <1>12, <1>13, <1>14,
     <1>15, <1>16, <1>17, <1>18, <1>19, <1>20, <1>21, <1>22, <1>23, <1>24, <1>25, <1>26, <1>27
  DEF Next, Call, Send, Wait, Get, Attach, Settle, Respond, Callback, Peer

-----------------------------------------------------------------------------
(* Custody of futures.  Seen from the table, every step is one of eight. *)

coreVars == <<m_msgid_rr, issued, m_map, msgid, fstate, result, completions, settled, todo,
              replies, expired>>

\* Process p takes the futures S out of the table, to complete them with g.
Takes(p, S, g) ==
    /\ todo[p] = {} /\ S \subseteq Futures(m_map)
    /\ todo' = [todo EXCEPT ![p] = S] /\ give' = [give EXCEPT ![p] = g]
    /\ m_map' = [i \in Ids |-> IF m_map[i] \in S THEN NoFuture ELSE m_map[i]]
    /\ \/ g \in {local("timeout"), local("connect")}
       \/ \E c \in Calls : /\ replies[c] # "none" /\ g = answer(replies[c], c)
                           /\ \A d \in S : msgid[d] = msgid[c]
    /\ UNCHANGED <<m_msgid_rr, issued, msgid, fstate, result, completions, settled, replies,
                   expired>>

\* Nothing the table or its handlers see.
Quiet == UNCHANGED coreVars /\ \A p \in Procs : todo[p] # {} => give'[p] = give[p]

CoreStep ==
    \/ \E t \in Threads, c \in Calls : next_msgid(t, c)
    \/ \E t \in Threads : send_request_impl(t)
    \/ \E p \in Procs, S \in SUBSET Calls, g \in Results : Takes(p, S, g)
    \/ \E p \in Procs, c \in Calls : settle(p, c)
    \/ \E t \in Threads : wait_expired(t)
    \/ \E t \in Threads : wait_timeout(t)
    \/ \E c \in Calls, kind \in Answers : peer_answers(c, kind)
    \/ Quiet

\* The table holds calls.
LEMMA FuturesType ==
    TypeOK => Futures(m_map) \subseteq Calls
  BY DEF TypeOK, Futures

\* take_all() takes the whole table.
LEMMA TakeAllTakes ==
    ASSUME TypeOK, NEW p \in Procs, todo[p] = {}, take_all(p),
           UNCHANGED <<m_msgid_rr, issued, msgid, fstate, result, completions, settled,
                       replies, expired>>
    PROVE  \E S \in SUBSET Calls, g \in Results : Takes(p, S, g)
<1>1. m_map' = [i \in Ids |-> IF m_map[i] \in Futures(m_map) THEN NoFuture ELSE m_map[i]]
  BY DEF take_all, after_take_all, Futures, TypeOK
<1>2. Takes(p, Futures(m_map), local("connect"))
  BY <1>1 DEF take_all, Takes
<1>3. QED
  BY <1>2, FuturesType, ResultFacts

\* on_response() takes the one future with the id of the answer, if there is one.
LEMMA ResponseTakes ==
    ASSUME TypeOK, ControlInv, ExclusiveCustody, NEW r \in Readers, NEW c \in Calls,
           on_response(r, c)
    PROVE  \E S \in SUBSET Calls, g \in Results : Takes(r, S, g)
<1> DEFINE S == taken(m_map, msgid[c])
<1>1. msgid[c] \in Ids /\ S \subseteq Futures(m_map)
  BY DEF TypeOK, taken, Futures
<1>2. m_map' = [i \in Ids |-> IF m_map[i] \in S THEN NoFuture ELSE m_map[i]]
  <2>1. \A i \in Ids : m_map[i] \in S <=> i = msgid[c] /\ m_map[i] # NoFuture
    BY <1>1 DEF taken, ExclusiveCustody
  <2>2. m_map' = [i \in Ids |-> IF i = msgid[c] THEN NoFuture ELSE m_map[i]]
    BY <1>1 DEF on_response, after_take, TypeOK
  <2>3. QED
    BY <2>1, <2>2
<1>3. \A d \in S : msgid[d] = msgid[c]
  BY <1>1 DEF taken, ExclusiveCustody
<1>4. todo[r] = {}
  BY ProcsFacts DEF on_response, ControlInv
<1>5. answer(replies[c], c) \in Results
  BY ResultFacts DEF on_response, TypeOK
<1>6. Takes(r, S, answer(replies[c], c))
  BY <1>1, <1>2, <1>3, <1>4 DEF on_response, Takes, futureVars, birthVars, peerVars, ghostVars
<1>7. QED
  BY <1>1, <1>5, <1>6, FuturesType

\* step_timer_handler() takes the exhausted futures.
LEMMA TimerTakes ==
    ASSUME TypeOK, ControlInv, step_timer_handler
    PROVE  \E S \in SUBSET Calls, g \in Results : Takes(Timer, S, g)
<1> DEFINE S == timed_out(m_map, f_timeout)
<1>1. S \subseteq Futures(m_map)
  BY DEF timed_out
<1>2. m_map' = [i \in Ids |-> IF m_map[i] \in S THEN NoFuture ELSE m_map[i]]
  BY DEF step_timer_handler, after_step_timeout, TypeOK
<1>3. todo[Timer] = {}
  BY ProcsFacts DEF step_timer_handler, ControlInv
<1>4. Takes(Timer, S, local("timeout"))
  BY <1>1, <1>2, <1>3 DEF step_timer_handler, Takes, futureVars, peerVars, ghostVars
<1>5. QED
  BY <1>1, <1>4, FuturesType, ResultFacts

\* Every step of the session is one of the eight.
LEMMA CoreSteps ==
    ASSUME TypeOK, ControlInv, ExclusiveCustody, [Next]_vars
    PROVE  CoreStep
<1>1. ASSUME NEW t \in Threads, on_system_error_in_send(t) \/ on_connect_failed(t)
      PROVE  CoreStep
  <2>1. todo[t] = {}
    BY <1>1, ProcsFacts DEF on_system_error_in_send, on_connect_failed, on_send_error, ControlInv
  <2>2. QED
    BY <1>1, <2>1, TakeAllTakes, ProcsFacts
    DEF on_system_error_in_send, on_connect_failed, on_send_error, CoreStep, futureVars,
        birthVars, peerVars, ghostVars
<1>2. ASSUME NEW r \in Readers, on_system_error(r)
      PROVE  CoreStep
  <2>1. todo[r] = {}
    BY <1>2, ProcsFacts DEF on_system_error, ControlInv
  <2>2. QED
    BY <1>2, <2>1, TakeAllTakes, ProcsFacts
    DEF on_system_error, CoreStep, futureVars, birthVars, peerVars, ghostVars
<1>3. ASSUME NEW r \in Readers, NEW c \in Calls, on_response(r, c)
      PROVE  CoreStep
  BY <1>3, ResponseTakes, ProcsFacts DEF CoreStep
<1>4. CASE step_timer_handler
  BY <1>4, TimerTakes, ProcsFacts DEF CoreStep
<1>5. ASSUME NEW t \in Threads,
             \/ send_notify_impl(t) \/ send_written(t) \/ send_dropped(t) \/ send_throws(t)
             \/ wait_notified(t) \/ get_error(t) \/ get_result(t) \/ throw_exception(t)
             \/ get_over(t)
      PROVE  CoreStep
  BY <1>5 DEF CoreStep, Quiet, coreVars, send_notify_impl, send_written, send_dropped,
      send_throws, returns, wait_notified, waited, get_error, get_result, throw_exception,
      get_comes_back, get_over, sessionVars, futureVars, birthVars, peerVars, ghostVars
<1>6. ASSUME NEW t \in Threads, NEW c \in Calls, NEW o \in {"get", "timed_wait"},
             timed_wait(t, c, o) \/ attach_callback(t, c)
      PROVE  CoreStep
  BY <1>6 DEF CoreStep, Quiet, coreVars, timed_wait, attach_callback, sessionVars, futureVars,
      birthVars, procVars, peerVars, ghostVars
<1>7. ASSUME NEW p \in Procs, handler_done(p) \/ (p \in Threads /\ send_failed(p))
      PROVE  CoreStep
  BY <1>7 DEF CoreStep, Quiet, coreVars, handler_done, send_failed, TypeOK, sessionVars, futureVars,
      birthVars, peerVars, ghostVars
<1>8. ASSUME NEW c \in Calls, NEW k \in Callbacks, callback_real(c, k)
      PROVE  CoreStep
  BY <1>8 DEF CoreStep, Quiet, coreVars, callback_real, sessionVars, futureVars, birthVars,
      procVars, peerVars, ghostVars
<1>9. ASSUME NEW sec \in Timeouts, set_timeout(sec)
      PROVE  CoreStep
  BY <1>9 DEF CoreStep, Quiet, coreVars, set_timeout, futureVars, birthVars, procVars, peerVars,
      ghostVars
<1>10. CASE UNCHANGED vars
  BY <1>10 DEF CoreStep, Quiet, coreVars, vars, sessionVars, futureVars, birthVars, procVars,
      peerVars, ghostVars
<1>11. QED
  BY <1>1, <1>2, <1>3, <1>4, <1>5, <1>6, <1>7, <1>8, <1>9, <1>10, ProcsFacts
  DEF CoreStep, Next, Call, Send, Wait, Get, Attach, Settle, Respond, Callback, Peer

\* A handler is the only one that has what it took.
LEMMA CustodyStep ==
    ASSUME TypeOK, ControlInv, ExclusiveCustody, CoreStep
    PROVE  ExclusiveCustody'
<1>1. ASSUME NEW t \in Threads, NEW c \in Calls, next_msgid(t, c)
      PROVE  ExclusiveCustody'
  BY <1>1 DEF next_msgid, ExclusiveCustody, Inserted, TypeOK, ghostVars
<1>2. ASSUME NEW t \in Threads, send_request_impl(t)
      PROVE  ExclusiveCustody'
  <2>1. cur[t] \in Calls /\ fstate[cur[t]] = "id" /\ msgid[cur[t]] \in Ids
    BY <1>2 DEF send_request_impl, ControlInv, TypeOK
  <2>2. completions[cur[t]] = 0 /\ \A p \in Procs : cur[t] \notin todo[p]
    <3>1. completions[cur[t]] \in Nat /\ completions[cur[t]] <= 1 /\ completions[cur[t]] # 1
      BY <2>1 DEF ExclusiveCustody, TypeOK
    <3>2. ~Inserted(cur[t])
      BY <2>1 DEF Inserted
    <3>3. QED
      BY <3>1, <3>2 DEF ExclusiveCustody
  <2>3. QED
    BY <1>2, <2>1, <2>2 DEF send_request_impl, insert, ExclusiveCustody, Inserted, TypeOK,
        ghostVars
<1>3. ASSUME NEW p \in Procs, NEW S \in SUBSET Calls, NEW g \in Results, Takes(p, S, g)
      PROVE  ExclusiveCustody'
  <2>1. \A c \in S : Inserted(c) /\ completions[c] = 0 /\ \A q \in Procs : c \notin todo[q]
    BY <1>3 DEF Takes, Futures, ExclusiveCustody, TypeOK
  <2>2. QED
    BY <1>3, <2>1 DEF Takes, ExclusiveCustody, Inserted, TypeOK
<1>4. ASSUME NEW p \in Procs, NEW c \in Calls, settle(p, c)
      PROVE  ExclusiveCustody'
  <2>1. c \in todo[p] /\ completions[c] = 0
    BY <1>4 DEF settle, ExclusiveCustody
  <2>2. /\ \A i \in Ids : m_map[i] # c
        /\ \A q \in Procs \ {p} : c \notin todo[q]
    BY <2>1, SessionAssumption DEF ExclusiveCustody
  <2>3. /\ fstate' = [fstate EXCEPT ![c] = "ready"] /\ todo' = [todo EXCEPT ![p] = @ \ {c}]
        /\ completions' = [completions EXCEPT ![c] = @ + 1]
        /\ UNCHANGED <<m_map, msgid>>
    BY <1>4 DEF settle, set_result, sessionVars, birthVars
  <2>4. QED
    BY <2>1, <2>2, <2>3 DEF ExclusiveCustody, Inserted, TypeOK
<1>5. ASSUME NEW t \in Threads, wait_timeout(t)
      PROVE  ExclusiveCustody'
  <2>1. cur[t] \in Calls /\ Inserted(cur[t])
    BY <1>5 DEF wait_timeout, ControlInv, TypeOK
  <2>2. /\ fstate' = [fstate EXCEPT ![cur[t]] = "ready"]
        /\ UNCHANGED <<m_map, msgid, todo, completions>>
    BY <1>5 DEF wait_timeout, set_result, waited, sessionVars, birthVars, ghostVars
  <2>3. QED
    BY <2>1, <2>2 DEF ExclusiveCustody, Inserted, TypeOK
<1>6. CASE UNCHANGED <<m_map, msgid, fstate, completions, todo>>
  BY <1>6 DEF ExclusiveCustody, Inserted
<1>7. QED
  BY <1>1, <1>2, <1>3, <1>4, <1>5, <1>6
  DEF CoreStep, Quiet, coreVars, wait_expired, peer_answers, sessionVars, futureVars, birthVars,
      procVars, ghostVars

\* Ids differ until they wrap around.
LEMMA IdStep ==
    ASSUME TypeOK, ControlInv, ExclusiveCustody, IdInv, CoreStep
    PROVE  IdInv'
<1>1. ASSUME NEW t \in Threads, NEW c \in Calls, next_msgid(t, c)
      PROVE  IdInv'
  <2>1. issued' = issued + 1 /\ msgid' = [msgid EXCEPT ![c] = m_msgid_rr]
        /\ m_msgid_rr' = atomic_increment(m_msgid_rr) /\ fstate' = [fstate EXCEPT ![c] = "id"]
    BY <1>1 DEF next_msgid
  <2>2. issued' + 1 < IdSpace => m_msgid_rr' = issued' + 1
    BY <2>1, IncrementFacts, SessionAssumption DEF IdInv, TypeOK, Ids
  <2>3. ASSUME issued' < IdSpace
        PROVE  /\ m_msgid_rr = issued + 1
               /\ \A d \in Calls : fstate[d] # "none" =>
                     /\ msgid[d] \in 1 .. issued
                     /\ \A e \in Calls \ {d} : fstate[e] # "none" => msgid[e] # msgid[d]
    BY <2>1, <2>3, SessionAssumption DEF IdInv, NoWrap, TypeOK
  <2>4. fstate[c] = "none"
    BY <1>1 DEF next_msgid
  <2>5. ASSUME issued' < IdSpace, NEW d \in Calls, fstate'[d] # "none"
        PROVE  msgid'[d] \in 1 .. issued'
    BY <2>1, <2>3, <2>5, SessionAssumption DEF TypeOK, Ids
  <2>6. ASSUME issued' < IdSpace, NEW d \in Calls, fstate'[d] # "none",
               NEW e \in Calls \ {d}, fstate'[e] # "none"
        PROVE  msgid'[e] # msgid'[d]
    <3>1. /\ d # c => msgid'[d] = msgid[d] /\ msgid[d] \in 1 .. issued
          /\ e # c => msgid'[e] = msgid[e] /\ msgid[e] \in 1 .. issued
          /\ d # c /\ e # c => msgid[e] # msgid[d]
      BY <2>1, <2>3, <2>6 DEF TypeOK
    <3>2. msgid'[c] = issued + 1 /\ issued \in Nat
      BY <2>1, <2>3, <2>6 DEF TypeOK
    <3>3. QED
      BY <2>6, <3>1, <3>2
  <2>7. QED
    BY <2>2, <2>5, <2>6 DEF IdInv, NoWrap
<1>2. ASSUME UNCHANGED <<m_msgid_rr, issued, msgid>>,
             \A c \in Calls : fstate[c] = "none" => fstate'[c] = "none"
      PROVE  IdInv'
  BY <1>2 DEF IdInv, NoWrap
<1>3. ASSUME NEW t \in Threads, send_request_impl(t)
      PROVE  IdInv'
  BY <1>2, <1>3 DEF send_request_impl, ControlInv, TypeOK
<1>4. ASSUME NEW p \in Procs, NEW c \in Calls, settle(p, c)
      PROVE  IdInv'
  <2>1. /\ UNCHANGED <<m_msgid_rr, issued, msgid>>
        /\ fstate' = [fstate EXCEPT ![c] = "ready"] /\ c \in todo[p]
    BY <1>4 DEF settle, set_result, sessionVars, birthVars
  <2>2. fstate[c] # "none"
    BY <2>1 DEF ExclusiveCustody, Inserted, TypeOK
  <2>3. \A d \in Calls : fstate[d] = "none" => fstate'[d] = "none"
    BY <2>1, <2>2 DEF TypeOK
  <2>4. QED
    BY <1>2, <2>1, <2>3
<1>5. ASSUME NEW t \in Threads, wait_timeout(t)
      PROVE  IdInv'
  BY <1>2, <1>5 DEF wait_timeout, set_result, ControlInv, Inserted, TypeOK, sessionVars, birthVars
<1>6. QED
  BY <1>1, <1>2, <1>3, <1>4, <1>5
  DEF CoreStep, Takes, Quiet, coreVars, wait_expired, peer_answers, sessionVars, futureVars,
      birthVars

\* What was put into the table stays within reach of a handler.
LEMMA NoLostCallStep ==
    ASSUME TypeOK, ControlInv, ExclusiveCustody, IdInv, NoLostCall, CoreStep
    PROVE  NoLostCall'
<1> DEFINE Reach(c) == \/ c \in Futures(m_map)
                       \/ \E p \in Procs : c \in todo[p]
                       \/ ~NoWrap /\ \E d \in Calls \ {c} : Inserted(d) /\ msgid[d] = msgid[c]
<1>1. ASSUME NEW t \in Threads, NEW c \in Calls, next_msgid(t, c)
      PROVE  NoLostCall'
  <2>1. /\ fstate[c] = "none" /\ fstate' = [fstate EXCEPT ![c] = "id"]
        /\ msgid' = [msgid EXCEPT ![c] = m_msgid_rr] /\ issued' = issued + 1
        /\ UNCHANGED <<m_map, todo, completions>>
    BY <1>1 DEF next_msgid, ghostVars
  <2>2. \A d \in Calls : /\ Inserted(d)' <=> Inserted(d)
                         /\ Inserted(d) => msgid'[d] = msgid[d]
    BY <2>1 DEF Inserted, TypeOK
  <2>3. ~NoWrap => ~NoWrap'
    BY <2>1, SessionAssumption DEF NoWrap, TypeOK
  <2>4. QED
    BY <2>1, <2>2, <2>3 DEF NoLostCall, Futures
<1>2. ASSUME NEW t \in Threads, send_request_impl(t)
      PROVE  NoLostCall'
  <2> DEFINE e == cur[t]
  <2>1. e \in Calls /\ fstate[e] = "id" /\ msgid[e] \in Ids
    BY <1>2 DEF send_request_impl, ControlInv, TypeOK
  <2>2. /\ fstate' = [fstate EXCEPT ![e] = "pending"]
        /\ m_map' = [m_map EXCEPT ![msgid[e]] = e]
        /\ UNCHANGED <<issued, msgid, todo, completions>>
    BY <1>2 DEF send_request_impl, insert, ghostVars
  <2>3. \A d \in Calls : Inserted(d)' <=> Inserted(d) \/ d = e
    BY <2>1, <2>2 DEF Inserted, TypeOK
  <2>4. e \in Futures(m_map')
    BY <2>1, <2>2, SessionAssumption DEF Futures, TypeOK
  <2>5. ASSUME NEW c \in Calls, c \in Futures(m_map), c \notin Futures(m_map')
        PROVE  c # e /\ msgid[c] = msgid[e] /\ ~NoWrap
    <3>1. PICK i \in Ids : m_map[i] = c /\ c # NoFuture
      BY <2>5 DEF Futures, TypeOK
    <3>2. i = msgid[e] /\ msgid[c] = i /\ Inserted(c)
      BY <2>1, <2>2, <2>5, <3>1 DEF Futures, ExclusiveCustody, TypeOK
    <3>3. QED
      BY <2>1, <3>2 DEF IdInv, Inserted
  <2>6. QED
    BY <2>1, <2>2, <2>3, <2>4, <2>5 DEF NoLostCall, NoWrap
<1>3. ASSUME NEW p \in Procs, NEW S \in SUBSET Calls, NEW g \in Results, Takes(p, S, g)
      PROVE  NoLostCall'
  <2>1. \A c \in Futures(m_map) : c \in S \/ c \in Futures(m_map')
    BY <1>3 DEF Takes, Futures, TypeOK
  <2>2. todo'[p] = S /\ \A q \in Procs : todo[q] \subseteq todo'[q]
    BY <1>3 DEF Takes, TypeOK
  <2>3. QED
    BY <1>3, <2>1, <2>2 DEF Takes, NoLostCall, Inserted, NoWrap
<1>4. ASSUME NEW p \in Procs, NEW c \in Calls, settle(p, c)
      PROVE  NoLostCall'
  <2>1. /\ fstate' = [fstate EXCEPT ![c] = "ready"] /\ todo' = [todo EXCEPT ![p] = @ \ {c}]
        /\ completions' = [completions EXCEPT ![c] = @ + 1]
        /\ UNCHANGED <<m_map, msgid, issued>>
    BY <1>4 DEF settle, set_result, sessionVars, birthVars
  <2>2. Inserted(c) /\ \A d \in Calls : Inserted(d)' <=> Inserted(d)
    BY <1>4, <2>1 DEF settle, ExclusiveCustody, Inserted, TypeOK
  <2>3. completions'[c] # 0 /\ \A d \in Calls \ {c} : completions'[d] = completions[d]
    BY <2>1 DEF TypeOK
  <2>4. \A d \in Calls \ {c}, q \in Procs : d \in todo[q] => d \in todo'[q]
    BY <2>1 DEF TypeOK
  <2>5. QED
    BY <2>1, <2>2, <2>3, <2>4 DEF NoLostCall, NoWrap
<1>5. ASSUME NEW t \in Threads, wait_timeout(t)
      PROVE  NoLostCall'
  <2>1. /\ fstate' = [fstate EXCEPT ![cur[t]] = "ready"]
        /\ UNCHANGED <<m_map, msgid, todo, completions, issued>>
    BY <1>5 DEF wait_timeout, set_result, waited, sessionVars, birthVars, ghostVars
  <2>2. \A d \in Calls : Inserted(d)' <=> Inserted(d)
    BY <1>5, <2>1 DEF wait_timeout, ControlInv, Inserted, TypeOK
  <2>3. QED
    BY <2>1, <2>2 DEF NoLostCall, NoWrap
<1>6. CASE UNCHANGED <<m_map, msgid, fstate, completions, todo, issued>>
  BY <1>6 DEF NoLostCall, NoWrap, Inserted
<1>7. QED
  BY <1>1, <1>2, <1>3, <1>4, <1>5, <1>6
  DEF CoreStep, Quiet, coreVars, wait_expired, peer_answers, sessionVars, futureVars, birthVars,
      procVars, ghostVars

\* An inserted call keeps its id and stays inserted; an answered one is inserted.
LEMMA BirthFacts ==
    ASSUME TypeOK, ControlInv, ExclusiveCustody, CoreStep
    PROVE  /\ \A c \in Calls : Inserted(c) => Inserted(c)' /\ msgid'[c] = msgid[c]
           /\ \A c \in Calls : replies[c] # "none" => Inserted(c) /\ replies'[c] = replies[c]
<1>1. ASSUME NEW t \in Threads, NEW c \in Calls, next_msgid(t, c)
      PROVE  \A d \in Calls : Inserted(d) => Inserted(d)' /\ msgid'[d] = msgid[d]
  BY <1>1 DEF next_msgid, Inserted, TypeOK
<1>2. \A d \in Calls : Inserted(d) => Inserted(d)' /\ msgid'[d] = msgid[d]
  <2>1. ASSUME NEW t \in Threads, send_request_impl(t)
        PROVE  msgid' = msgid /\ \A d \in Calls : Inserted(d) => Inserted(d)'
    BY <2>1 DEF send_request_impl, Inserted, TypeOK
  <2>2. ASSUME NEW p \in Procs, NEW c \in Calls, settle(p, c)
        PROVE  msgid' = msgid /\ \A d \in Calls : Inserted(d) => Inserted(d)'
    BY <2>2 DEF settle, set_result, Inserted, TypeOK, birthVars
  <2>3. ASSUME NEW t \in Threads, wait_timeout(t)
        PROVE  msgid' = msgid /\ \A d \in Calls : Inserted(d) => Inserted(d)'
    BY <2>3 DEF wait_timeout, set_result, Inserted, TypeOK, birthVars
  <2>4. ASSUME UNCHANGED <<msgid, fstate>>
        PROVE  \A d \in Calls : Inserted(d) => Inserted(d)'
    BY <2>4 DEF Inserted
  <2>5. QED
    BY <1>1, <2>1, <2>2, <2>3, <2>4
    DEF CoreStep, Takes, Quiet, coreVars, wait_expired, peer_answers, futureVars, birthVars
<1>3. \A d \in Calls : replies[d] # "none" => replies'[d] = replies[d]
  BY DEF CoreStep, Takes, Quiet, coreVars, next_msgid, send_request_impl, settle, wait_timeout,
      wait_expired, peer_answers, TypeOK, peerVars
<1>4. \A d \in Calls : replies[d] # "none" => Inserted(d)
  BY DEF ControlInv
<1>5. QED
  BY <1>2, <1>3, <1>4

\* What a handler gives carries the id of what it took.
LEMMA GiveStep ==
    ASSUME TypeOK, ControlInv, ExclusiveCustody, GiveInv, CoreStep
    PROVE  GiveInv'
<1>1. ASSUME NEW p \in Procs, NEW S \in SUBSET Calls, NEW g \in Results, Takes(p, S, g)
      PROVE  GiveInv'
  <2>1. \A q \in Procs \ {p} : todo'[q] = todo[q] /\ give'[q] = give[q]
    BY <1>1 DEF Takes, TypeOK
  <2>2. todo'[p] = S /\ give'[p] = g /\ UNCHANGED <<msgid, replies>>
    BY <1>1 DEF Takes, TypeOK
  <2>3. \/ g \in {local("timeout"), local("connect")}
        \/ /\ g.kind \in Answers /\ g.from \in Calls /\ g.kind = replies[g.from]
           /\ \A c \in S : msgid[c] = msgid[g.from]
    BY <1>1 DEF Takes, answer, TypeOK
  <2>4. QED
    BY <2>1, <2>2, <2>3 DEF GiveInv
<1>2. ASSUME \A p \in Procs : todo'[p] \subseteq todo[p],
             \A p \in Procs : todo[p] # {} => give'[p] = give[p]
      PROVE  GiveInv'
  <2> SUFFICES ASSUME NEW p \in Procs, todo'[p] # {},
                      give[p] \notin {local("timeout"), local("connect")}
               PROVE  /\ give[p].kind = replies'[give[p].from]
                      /\ \A c \in todo'[p] : msgid'[c] = msgid'[give[p].from]
    BY <1>2 DEF GiveInv
  <2>1. /\ give[p].kind \in Answers /\ give[p].from \in Calls
        /\ give[p].kind = replies[give[p].from]
        /\ \A c \in todo[p] : msgid[c] = msgid[give[p].from]
    BY <1>2 DEF GiveInv
  <2>2. replies[give[p].from] # "none"
    BY <2>1, SessionAssumption
  <2>3. \A c \in todo[p] : c \in Calls /\ Inserted(c)
    BY DEF ExclusiveCustody, TypeOK
  <2>4. QED
    BY <1>2, <2>1, <2>2, <2>3, BirthFacts
<1>3. ASSUME NEW p \in Procs, NEW c \in Calls, settle(p, c)
      PROVE  GiveInv'
  BY <1>2, <1>3 DEF settle, TypeOK
<1>4. QED
  BY <1>1, <1>2, <1>3
  DEF CoreStep, Quiet, coreVars, next_msgid, send_request_impl, wait_timeout, waited,
      wait_expired, peer_answers, procVars

\* Results are answers with the right id, and first results are timeouts.
LEMMA ResultStep ==
    ASSUME TypeOK, ControlInv, ExclusiveCustody, GiveInv, ResultInv, CoreStep
    PROVE  ResultInv'
<1>1. ASSUME UNCHANGED <<result, fstate, completions>>,
             \A c \in Calls : expired[c] \subseteq expired'[c]
      PROVE  ResultInv'
  BY <1>1, BirthFacts DEF ResultInv
<1>2. ASSUME NEW t \in Threads, NEW c \in Calls, next_msgid(t, c)
      PROVE  ResultInv'
  BY <1>2, BirthFacts DEF next_msgid, ResultInv, TypeOK, ghostVars
<1>3. ASSUME NEW t \in Threads, send_request_impl(t)
      PROVE  ResultInv'
  BY <1>3, BirthFacts DEF send_request_impl, ResultInv, TypeOK, ghostVars
<1>4. ASSUME NEW p \in Procs, NEW c \in Calls, settle(p, c)
      PROVE  ResultInv'
  <2>1. /\ result' = [result EXCEPT ![c] = give[p]] /\ fstate' = [fstate EXCEPT ![c] = "ready"]
        /\ completions' = [completions EXCEPT ![c] = @ + 1] /\ UNCHANGED <<expired, give>>
    BY <1>4 DEF settle, set_result
  <2>2. give[p].kind \in Answers =>
           /\ Inserted(c)' /\ give[p].from \in Calls /\ Inserted(give[p].from)'
           /\ msgid'[give[p].from] = msgid'[c]
    <3>1. c \in todo[p] /\ Inserted(c)
      BY <1>4 DEF settle, ExclusiveCustody
    <3>2. ASSUME give[p].kind \in Answers
          PROVE  /\ give[p].from \in Calls /\ give[p].kind = replies[give[p].from]
                 /\ msgid[c] = msgid[give[p].from]
      BY <3>1, <3>2, SessionAssumption DEF GiveInv, local
    <3>3. ASSUME give[p].kind \in Answers
          PROVE  Inserted(give[p].from)
      BY <3>2, <3>3, BirthFacts, SessionAssumption
    <3>4. QED
      BY <2>1, <3>1, <3>2, <3>3, BirthFacts
  <2>3. completions'[c] # 0
    BY <2>1 DEF TypeOK
  <2>4. \A d \in Calls \ {c} : /\ result'[d] = result[d] /\ fstate'[d] = fstate[d]
                               /\ completions'[d] = completions[d]
    BY <2>1 DEF TypeOK
  <2>5. result'[c] = give[p]
    BY <2>1 DEF TypeOK
  <2>6. QED
    BY <2>1, <2>2, <2>3, <2>4, <2>5, BirthFacts DEF ResultInv
<1>5. ASSUME NEW t \in Threads, wait_timeout(t)
      PROVE  ResultInv'
  <2>1. /\ result' = [result EXCEPT ![cur[t]] = local("timeout")]
        /\ fstate' = [fstate EXCEPT ![cur[t]] = "ready"] /\ UNCHANGED <<completions, expired>>
    BY <1>5 DEF wait_timeout, set_result, ghostVars
  <2>2. cur[t] \in Calls /\ expired[cur[t]] # {}
    BY <1>5 DEF wait_timeout, ControlInv, TypeOK
  <2>3. local("timeout").kind \notin Answers
    BY SessionAssumption DEF local
  <2>4. QED
    BY <2>1, <2>2, <2>3, BirthFacts DEF ResultInv, TypeOK
<1>6. ASSUME NEW t \in Threads, wait_expired(t)
      PROVE  \A c \in Calls : expired[c] \subseteq expired'[c]
  BY <1>6 DEF wait_expired, TypeOK
<1>7. QED
  BY <1>1, <1>2, <1>3, <1>4, <1>5, <1>6
  DEF CoreStep, Takes, Quiet, coreVars, wait_expired, peer_answers, futureVars, ghostVars

-----------------------------------------------------------------------------
(* The theorems *)

\* The inductive invariant holds in the beginning and is kept by every step.
LEMMA IInvInit == Init => IInv
<1> SUFFICES ASSUME Init PROVE IInv
  OBVIOUS
<1>1. TypeOK
  BY TypeInit
<1>2. ControlInv
  BY DEF Init, ControlInv, Procs, Handlers
<1>3. IdInv
  BY DEF Init, IdInv
<1>4. GiveInv /\ NoLostCall /\ ExclusiveCustody
  BY DEF Init, GiveInv, NoLostCall, ExclusiveCustody, Inserted
<1>5. ResultInv
  BY SessionAssumption DEF Init, ResultInv, local
<1>6. QED
  BY <1>1, <1>2, <1>3, <1>4, <1>5 DEF IInv

LEMMA IInvStep == IInv /\ [Next]_vars => IInv'
  BY TypeStep, ControlStep, CoreSteps, CustodyStep, IdStep, GiveStep, ResultStep, NoLostCallStep
  DEF IInv

\* The inductive invariant is an invariant of a session.
THEOREM Invariance == Safety => []IInv
  BY IInvInit, IInvStep, PTL DEF Safety

\* Every variable of a session keeps its type; message ids stay within msgid_t.
THEOREM TypeCorrect == Safety => []TypeOK
<1>1. IInv => TypeOK
  BY DEF IInv
<1>2. QED
  BY <1>1, Invariance, PTL

\* However answers, the step timer, failed writes and failed reads interleave,
\* take(), take_all() and reqtable::step_timeout() give a future to one of
\* them only, and it is completed once by it.
THEOREM Custody == Safety => []ExclusiveCustody
<1>1. IInv => ExclusiveCustody
  BY DEF IInv
<1>2. QED
  BY <1>1, Invariance, PTL

\* A future that send_request_impl() has inserted stays within reach of the
\* handler that will complete it, until the message ids wrap around.
THEOREM NothingLost == Safety => []NoLostCall
<1>1. IInv => NoLostCall
  BY DEF IInv
<1>2. QED
  BY <1>1, Invariance, PTL

\* on_response() gives a future an answer to a request with its id, and its own
\* answer as long as the ids have not wrapped around.
THEOREM OwnReplies == Safety => []OwnReply
<1>1. IInv => OwnReply
  BY DEF IInv, ResultInv, IdInv, OwnReply, Inserted
<1>2. QED
  BY <1>1, Invariance, PTL

\* A step from a ready future leaves it ready, its result as it is or a timeout.
LEMMA StableStep ==
    ASSUME IInv, [Next]_vars, NEW c \in Calls, fstate[c] = "ready"
    PROVE  /\ fstate'[c] = "ready"
           /\ result'[c] # result[c] =>
                 expired[c] # {} /\ "timeout" \in {result[c].kind, result'[c].kind}
<1> USE DEF IInv
<1>1. CoreStep
  BY CoreSteps
<1>2. ASSUME NEW t \in Threads, NEW d \in Calls, next_msgid(t, d)
      PROVE  fstate'[c] = "ready" /\ result'[c] = result[c]
  BY <1>2 DEF next_msgid, TypeOK
<1>3. ASSUME NEW t \in Threads, send_request_impl(t)
      PROVE  fstate'[c] = "ready" /\ result'[c] = result[c]
  BY <1>3 DEF send_request_impl, ControlInv, TypeOK
<1>4. ASSUME NEW p \in Procs, NEW d \in Calls, settle(p, d)
      PROVE  /\ fstate'[c] = "ready"
             /\ result'[c] # result[c] => expired[c] # {} /\ result[c].kind = "timeout"
  <2>1. fstate'[c] = "ready" /\ (result'[c] # result[c] => c = d)
    BY <1>4 DEF settle, set_result, TypeOK
  <2>2. completions[d] = 0
    BY <1>4 DEF settle, ExclusiveCustody
  <2>3. QED
    BY <2>1, <2>2 DEF ResultInv, local
<1>5. ASSUME NEW t \in Threads, wait_timeout(t)
      PROVE  /\ fstate'[c] = "ready"
             /\ result'[c] # result[c] => expired[c] # {} /\ result'[c].kind = "timeout"
  BY <1>5 DEF wait_timeout, set_result, local, ControlInv, TypeOK
<1>6. QED
  BY <1>1, <1>2, <1>3, <1>4, <1>5
  DEF CoreStep, Takes, Quiet, coreVars, wait_expired, peer_answers, futureVars

\* set_result() overwrites a result only when a waiter has given up on the
\* future; without timed waits that run out a ready future never changes.
THEOREM Stability == Safety => StableResult
<1>1. IInv /\ [Next]_vars =>
        [\A c \in Calls : fstate[c] = "ready" =>
            /\ fstate'[c] = "ready"
            /\ result'[c] # result[c] =>
                  expired[c] # {} /\ "timeout" \in {result[c].kind, result'[c].kind}]_vars
  BY StableStep
<1>2. QED
  BY <1>1, Invariance, PTL DEF Safety, StableResult

-----------------------------------------------------------------------------
(* Refinement of Promise *)

\* Every step of a session is a step of Promise, as long as ids do not wrap.
LEMMA PromiseStep ==
    ASSUME IInv, NoWrap, [Next]_vars
    PROVE  [P!PNext]_(P!promiseVars)
<1> USE DEF IInv
<1> DEFINE out == [c \in Calls |-> outcome_of(c)]
<1>1. CoreStep
  BY CoreSteps
<1>2. ASSUME UNCHANGED <<replies, completions, settled>>,
             \A c \in Calls : Inserted(c)' <=> Inserted(c)
      PROVE  UNCHANGED P!promiseVars
  BY <1>2 DEF P!promiseVars, outcome_of
<1>3. ASSUME NEW t \in Threads, NEW c \in Calls, next_msgid(t, c)
      PROVE  UNCHANGED P!promiseVars
  BY <1>2, <1>3 DEF next_msgid, Inserted, TypeOK, peerVars, ghostVars
<1>4. ASSUME NEW t \in Threads, send_request_impl(t)
      PROVE  P!PNext
  <2> DEFINE c == cur[t]
  <2>1. c \in Calls /\ ~Inserted(c) /\ fstate[c] = "id"
    BY <1>4 DEF send_request_impl, ControlInv, Inserted
  <2>2. completions[c] = 0
    <3>1. completions[c] \in Nat /\ completions[c] <= 1 /\ completions[c] # 1
      BY <2>1 DEF ExclusiveCustody, TypeOK
    <3>2. QED
      BY <3>1
  <2>3. /\ \A d \in Calls : Inserted(d)' <=> Inserted(d) \/ d = c
        /\ UNCHANGED <<replies, completions, settled>>
    BY <1>4, <2>1 DEF send_request_impl, Inserted, TypeOK, peerVars, ghostVars
  <2>4. out[c] = P!Local("idle")
    BY <2>1, <2>2 DEF outcome_of, local, P!Local
  <2>5. out' = [out EXCEPT ![c] = P!Local("open")]
    <3>1. \A d \in Calls : d # c => outcome_of(d)' = outcome_of(d)
      BY <2>3 DEF outcome_of
    <3>2. \A d \in Calls : d = c => outcome_of(d)' = P!Local("open")
      BY <2>2, <2>3 DEF outcome_of, local, P!Local
    <3>3. QED
      BY <2>1, <3>1, <3>2
  <2>6. P!Issue(c)
    BY <2>3, <2>4, <2>5 DEF P!Issue
  <2>7. QED
    BY <2>1, <2>6 DEF P!PNext
<1>5. ASSUME NEW p \in Procs, NEW c \in Calls, settle(p, c)
      PROVE  P!PNext
  <2>1. c \in todo[p] /\ Inserted(c) /\ completions[c] = 0
    BY <1>5 DEF settle, ExclusiveCustody
  <2>2. /\ fstate' = [fstate EXCEPT ![c] = "ready"]
        /\ completions' = [completions EXCEPT ![c] = @ + 1]
        /\ settled' = [settled EXCEPT ![c] = give[p]] /\ UNCHANGED replies
    BY <1>5 DEF settle, set_result, peerVars
  <2>3. \A d \in Calls : Inserted(d)' <=> Inserted(d)
    BY <2>1, <2>2 DEF Inserted, TypeOK
  <2>4. completions'[c] = 1 /\ settled'[c] = give[p]
    BY <2>1, <2>2 DEF TypeOK
  <2>5. \A d \in Calls \ {c} : completions'[d] = completions[d] /\ settled'[d] = settled[d]
    BY <2>2 DEF TypeOK
  <2>6. out[c] = P!Local("open")
    BY <2>1 DEF outcome_of, local, P!Local
  <2>7. out' = [out EXCEPT ![c] = give[p]]
    <3>1. outcome_of(c)' = give[p]
      BY <2>4 DEF outcome_of
    <3>2. \A d \in Calls \ {c} : outcome_of(d)' = outcome_of(d)
      BY <2>3, <2>5 DEF outcome_of
    <3>3. QED
      BY <3>1, <3>2
  <2>8. /\ give[p] \in {P!Local("timeout"), P!Local("connect"), [kind |-> replies[c], from |-> c]}
        /\ give[p].kind # "none"
    <3>1. CASE give[p] \in {local("timeout"), local("connect")}
      BY <3>1 DEF local, P!Local
    <3>2. CASE give[p] \notin {local("timeout"), local("connect")}
      <4>1. /\ give[p].kind \in Answers /\ give[p].from \in Calls
            /\ give[p].kind = replies[give[p].from] /\ msgid[c] = msgid[give[p].from]
        BY <2>1, <3>2 DEF GiveInv
      <4>2. replies[give[p].from] # "none" /\ Inserted(give[p].from)
        BY <4>1, SessionAssumption DEF ControlInv
      <4>3. give[p].from = c
        BY <2>1, <4>1, <4>2 DEF IdInv, Inserted
      <4>4. give[p] \in Results
        BY DEF TypeOK
      <4>5. give[p] = [kind |-> replies[c], from |-> c]
        BY <4>1, <4>3, <4>4 DEF Results
      <4>6. QED
        BY <4>1, <4>2, <4>5
    <3>3. QED
      BY <3>1, <3>2
  <2>9. P!Settle(c)
    BY <2>2, <2>6, <2>7, <2>8 DEF P!Settle
  <2>10. QED
    BY <2>9 DEF P!PNext
<1>6. ASSUME NEW t \in Threads, wait_timeout(t)
      PROVE  UNCHANGED P!promiseVars
  BY <1>2, <1>6 DEF wait_timeout, set_result, ControlInv, Inserted, TypeOK, peerVars, ghostVars
<1>7. ASSUME NEW c \in Calls, NEW kind \in Answers, peer_answers(c, kind)
      PROVE  P!PNext
  <2>1. /\ Inserted(c) /\ replies[c] = "none" /\ replies' = [replies EXCEPT ![c] = kind]
        /\ UNCHANGED <<fstate, completions, settled>>
    BY <1>7 DEF peer_answers, ControlInv, futureVars, ghostVars
  <2>2. out' = out
    BY <2>1 DEF outcome_of, Inserted
  <2>3. out[c] # P!Local("idle")
    <3>1. CASE completions[c] = 0
      BY <2>1, <3>1 DEF outcome_of, local, P!Local
    <3>2. CASE completions[c] # 0
      <4>1. out[c] = settled[c] /\ settled[c] \in Results
        BY <3>2 DEF outcome_of, TypeOK
      <4>2. \A r \in Results : r.kind # "idle"
        BY DEF Results, Kinds
      <4>3. QED
        BY <4>1, <4>2 DEF P!Local
    <3>3. QED
      BY <3>1, <3>2
  <2>4. P!Answer(c, kind)
    BY <2>1, <2>2, <2>3 DEF P!Answer
  <2>5. QED
    BY <2>4 DEF P!PNext
<1>8. QED
  BY <1>1, <1>2, <1>3, <1>4, <1>5, <1>6, <1>7
  DEF CoreStep, Takes, Quiet, coreVars, wait_expired, Inserted, futureVars, peerVars

\* A session begins as Promise does.
LEMMA PromiseInit == Init => P!PInit
  BY DEF Init, P!PInit, P!Local, outcome_of, local, Inserted

\* A session implements the safety part of Promise as long as its message ids
\* have not wrapped around: each call is settled at most once by the library,
\* for good, with its own answer or a local error.
THEOREM Refinement == Safety /\ []NoWrap => P!PSafety
  BY PromiseInit, PromiseStep, Invariance, PTL DEF Safety, P!PSafety
=============================================================================
