---------------------------- MODULE FutureProofs ----------------------------
(***************************************************************************)
(* Proofs about a future: its callbacks, and what get() makes of a result  *)
(* that it reads without the lock.  For any number of threads, calls and   *)
(* callbacks.                                                              *)
(*                                                                         *)
(* CallbackOnce needs to know that callbacks are numbered as they are      *)
(* attached (CallbackInv).  TornRead needs the places in get_impl() where  *)
(* the result has been looked at once and not yet again (GetInv), and, of  *)
(* SessionProofs, that a result which changes was or becomes the timeout   *)
(* of a waiter.                                                            *)
(***************************************************************************)
EXTENDS SessionProofs

-----------------------------------------------------------------------------
(* Callbacks *)

\* Callbacks are numbered in the order in which they are attached: one that was
\* not attached yet has not run and waits nowhere.  A future holds a callback
\* only while it is pending.
CallbackInv ==
    /\ CallbackOnce
    /\ \A c \in Calls :
          /\ m_callback[c] <= attached[c]
          /\ m_callback[c] # 0 => fstate[c] = "pending"
          /\ \A k \in Callbacks : k > attached[c] => ran[<<c, k>>] = 0 /\ <<c, k>> \notin posted

LEMMA CallbackInit == Init => CallbackInv
  BY SessionAssumption DEF Init, CallbackInv, CallbackOnce, Callbacks

\* set_result() runs the callback of a future once and clears it.
LEMMA SetResultCallback ==
    ASSUME TypeOK, CallbackInv, NEW c \in Calls, NEW r, set_result(c, r),
           UNCHANGED <<attached, posted>>
    PROVE  CallbackInv'
<1> USE DEF TypeOK, Callbacks
<1>1. /\ fstate'[c] = "ready" /\ m_callback'[c] = 0
      /\ \A d \in Calls \ {c} : fstate'[d] = fstate[d] /\ m_callback'[d] = m_callback[d]
  BY DEF set_result
<1>2. ASSUME NEW d \in Calls, NEW k \in Callbacks
      PROVE  ran'[<<d, k>>] = IF d = c /\ m_callback[c] = k THEN ran[<<d, k>>] + 1 ELSE ran[<<d, k>>]
  <2>1. CASE m_callback[c] = 0
    BY <2>1 DEF set_result
  <2>2. CASE m_callback[c] # 0
    <3>1. ran' = [ran EXCEPT ![<<c, m_callback[c]>>] = @ + 1] /\ m_callback[c] \in Callbacks
      BY <2>2, SessionAssumption DEF set_result
    <3>2. QED
      BY <3>1
  <2>3. QED
    BY <2>1, <2>2
<1>3. ASSUME NEW d \in Calls, NEW k \in Callbacks
      PROVE  /\ ran'[<<d, k>>] <= 1
             /\ <<d, k>> \in posted' => ran'[<<d, k>>] = 0 /\ m_callback'[d] # k
             /\ m_callback'[d] = k => ran'[<<d, k>>] = 0
             /\ k > attached'[d] => ran'[<<d, k>>] = 0 /\ <<d, k>> \notin posted'
  <2>1. attached[d] \in Nat /\ m_callback[d] \in Nat /\ k \in Nat \ {0} /\ ran[<<d, k>>] \in Nat
    BY SessionAssumption
  <2>2. /\ ran[<<d, k>>] <= 1
        /\ <<d, k>> \in posted => ran[<<d, k>>] = 0 /\ m_callback[d] # k
        /\ m_callback[d] = k => ran[<<d, k>>] = 0
        /\ k > attached[d] => ran[<<d, k>>] = 0 /\ <<d, k>> \notin posted
        /\ m_callback[d] <= attached[d]
    BY DEF CallbackInv, CallbackOnce
  <2>3. CASE d = c
    BY <1>1, <1>2, <2>1, <2>2, <2>3
  <2>4. CASE d # c
    BY <1>1, <1>2, <2>1, <2>2, <2>4
  <2>5. QED
    BY <2>3, <2>4
<1>4. ASSUME NEW d \in Calls
      PROVE  /\ fstate'[d] = "ready" => m_callback'[d] = 0
             /\ m_callback'[d] <= attached'[d]
             /\ m_callback'[d] # 0 => fstate'[d] = "pending"
  <2>1. attached'[d] = attached[d] /\ attached[d] \in 0 .. MaxAttach /\ MaxAttach \in Nat
    BY SessionAssumption
  <2>2. CASE d = c
    BY <1>1, <2>1, <2>2
  <2>3. CASE d # c
    <3>1. fstate'[d] = fstate[d] /\ m_callback'[d] = m_callback[d]
      BY <1>1, <2>3
    <3>2. QED
      BY <2>1, <3>1 DEF CallbackInv, CallbackOnce
  <2>4. QED
    BY <2>2, <2>3
<1>5. QED
  BY <1>3, <1>4 DEF CallbackInv, CallbackOnce

LEMMA AttachCallback ==
    ASSUME TypeOK, CallbackInv, NEW t \in Threads, NEW c \in Calls, attach_callback(t, c)
    PROVE  CallbackInv'
<1> USE DEF TypeOK, Callbacks
<1> DEFINE new == attached[c] + 1
<1>1. /\ attached' = [attached EXCEPT ![c] = new] /\ new \in Callbacks
      /\ UNCHANGED <<ran, fstate>>
  BY SessionAssumption DEF attach_callback, futureVars
<1>2. /\ attached'[c] = new /\ attached[c] \in Nat
      /\ \A d \in Calls \ {c} : attached'[d] = attached[d]
  BY <1>1, SessionAssumption
<1>3. ran[<<c, new>>] = 0 /\ <<c, new>> \notin posted /\ m_callback[c] <= attached[c]
  BY <1>1, <1>2 DEF CallbackInv
<1>4. CASE fstate[c] = "ready" /\ posted' = posted \cup {<<c, new>>} /\ UNCHANGED m_callback
  BY <1>1, <1>2, <1>3, <1>4, SessionAssumption DEF CallbackInv, CallbackOnce
<1>5. CASE fstate[c] = "pending" /\ m_callback' = [m_callback EXCEPT ![c] = new] /\ UNCHANGED posted
  BY <1>1, <1>2, <1>3, <1>5, SessionAssumption DEF CallbackInv, CallbackOnce
<1>6. QED
  BY <1>4, <1>5 DEF attach_callback

\* The other steps touch no callback and make no future ready.
LEMMA CallbackUntouched ==
    ASSUME CallbackInv, UNCHANGED cbVars,
           \A c \in Calls : fstate'[c] = fstate[c] \/ (m_callback[c] = 0 /\ fstate'[c] # "ready")
    PROVE  CallbackInv'
  BY DEF CallbackInv, CallbackOnce, cbVars

LEMMA CallbackStep == IInv /\ CallbackInv /\ [Next]_vars => CallbackInv'
<1> SUFFICES ASSUME IInv, CallbackInv, [Next]_vars PROVE CallbackInv'
  OBVIOUS
<1> USE DEF IInv
<1>1. ASSUME NEW p \in Procs, NEW c \in Calls, settle(p, c) PROVE CallbackInv'
  BY <1>1, SetResultCallback DEF settle
<1>2. ASSUME NEW t \in Threads, wait_timeout(t) PROVE CallbackInv'
  <2>1. cur[t] \in Calls
    BY <1>2 DEF wait_timeout, ControlInv, TypeOK
  <2>2. QED
    BY <1>2, <2>1, SetResultCallback DEF wait_timeout
<1>3. ASSUME NEW t \in Threads, NEW c \in Calls, attach_callback(t, c) PROVE CallbackInv'
  BY <1>3, AttachCallback
<1>4. ASSUME NEW c \in Calls, NEW k \in Callbacks, callback_real(c, k) PROVE CallbackInv'
  <2>1. UNCHANGED <<m_callback, attached, fstate>>
    BY <1>4 DEF callback_real, futureVars
  <2>2. <<c, k>> \in posted /\ posted' = posted \ {<<c, k>>} /\ ran' = [ran EXCEPT ![<<c, k>>] = @ + 1]
    BY <1>4 DEF callback_real
  <2>3. QED
    BY <2>1, <2>2, SessionAssumption DEF CallbackInv, CallbackOnce, TypeOK, Callbacks
<1>5. ASSUME NEW t \in Threads, NEW c \in Calls, next_msgid(t, c) PROVE CallbackInv'
  <2>1. \A d \in Calls : fstate'[d] = fstate[d] \/ (m_callback[d] = 0 /\ fstate'[d] # "ready")
    BY <1>5 DEF next_msgid, CallbackInv, TypeOK
  <2>2. QED
    BY <1>5, <2>1, CallbackUntouched DEF next_msgid
<1>6. ASSUME NEW t \in Threads, send_request_impl(t) PROVE CallbackInv'
  <2>1. \A d \in Calls : fstate'[d] = fstate[d] \/ (m_callback[d] = 0 /\ fstate'[d] # "ready")
    BY <1>6 DEF send_request_impl, CallbackInv, ControlInv, TypeOK
  <2>2. QED
    BY <1>6, <2>1, CallbackUntouched DEF send_request_impl
<1>7. CASE UNCHANGED <<cbVars, fstate>>
  BY <1>7, CallbackUntouched
<1>8. ASSUME NEW t \in Threads,
             \/ send_notify_impl(t) \/ Send(t) \/ wait_notified(t) \/ wait_expired(t) \/ Get(t)
             \/ \E c \in Calls, o \in {"get", "timed_wait"} : timed_wait(t, c, o)
      PROVE  UNCHANGED <<cbVars, fstate>>
  BY <1>8 DEF send_notify_impl, Send, send_written, send_dropped, send_throws,
      on_system_error_in_send, on_connect_failed, on_send_error, send_failed, wait_notified,
      wait_expired, Get, get_error, get_result, throw_exception, get_comes_back, get_over,
      timed_wait, futureVars
<1>9. ASSUME \/ \E p \in Procs : handler_done(p)
             \/ \E r \in Readers : Respond(r) \/ on_system_error(r)
             \/ step_timer_handler \/ Peer \/ (\E sec \in Timeouts : set_timeout(sec))
             \/ UNCHANGED vars
      PROVE  UNCHANGED <<cbVars, fstate>>
  BY <1>9 DEF handler_done, Respond, on_response, on_system_error, step_timer_handler, Peer,
      peer_answers, set_timeout, vars, futureVars
<1>10. QED
  BY <1>1, <1>2, <1>3, <1>4, <1>5, <1>6, <1>7, <1>8, <1>9
  DEF Next, Call, Wait, Attach, Settle, Callback

\* A callback runs at most once, by set_result() or on the loop, although a
\* waiter that gives up and the handler that has the future may both complete
\* it; and a ready future holds none back.
THEOREM OneRun == Safety => []CallbackOnce
<1>1. CallbackInv => CallbackOnce
  BY DEF CallbackInv
<1>2. QED
  BY <1>1, CallbackInit, CallbackStep, Invariance, PTL DEF Safety

-----------------------------------------------------------------------------
(* get() reads the result without the lock *)

InGet == {"get_error", "get_result", "throw"}

\* get_impl() is only entered for a ready future, which has a result.  Between
\* its two looks at the result, a future that was seen without an error has
\* none still, or another thread gave up on it; one that was seen with an error
\* has one still, or some thread gave up on it.
GetInv ==
    /\ TornRead
    /\ \A c \in Calls : fstate[c] = "ready" => result[c].kind # "unset"
    /\ \A t \in Threads :
          /\ pc[t] \in InGet => fstate[cur[t]] = "ready"
          /\ pc[t] = "get_result" => result[cur[t]].kind = "reply" \/ expired[cur[t]] \ {t} # {}
          /\ pc[t] = "throw" => result[cur[t]].kind # "reply" \/ expired[cur[t]] # {}
          /\ ret[t].how # "none" => pc[t] = "returned"

LEMMA GetInit == Init => GetInv
  BY ProcsFacts DEF Init, GetInv, TornRead, InGet, NoRet

\* A wait that ran out of time is not forgotten.
LEMMA ExpiredGrows ==
    ASSUME IInv, [Next]_vars, NEW c \in Calls
    PROVE  expired[c] \subseteq expired'[c]
<1> USE DEF IInv
<1>1. CoreStep
  BY CoreSteps
<1>2. ASSUME NEW t \in Threads, wait_expired(t)
      PROVE  expired[c] \subseteq expired'[c]
  <2>1. expired' = [expired EXCEPT ![cur[t]] = @ \cup {t}]
    BY <1>2 DEF wait_expired
  <2>2. QED
    BY <2>1 DEF TypeOK
<1>3. QED
  BY <1>1, <1>2
  DEF CoreStep, Takes, Quiet, coreVars, settle, wait_timeout, peer_answers, next_msgid,
      send_request_impl, ghostVars

\* A result without an error is only overwritten by a thread that gave up, and
\* that thread is at its set_result().
LEMMA ReplyOverwritten ==
    ASSUME IInv, [Next]_vars, NEW c \in Calls, fstate[c] = "ready", result[c].kind = "reply",
           result'[c] # result[c]
    PROVE  \E u \in Threads : pc[u] = "expired" /\ u \in expired[c]
<1> USE DEF IInv
<1>1. CoreStep
  BY CoreSteps
<1>2. ASSUME NEW p \in Procs, NEW d \in Calls, settle(p, d)
      PROVE  FALSE
  <2>1. c = d
    BY <1>2 DEF settle, set_result, TypeOK
  <2>2. completions[c] = 0
    BY <1>2, <2>1 DEF settle, ExclusiveCustody
  <2>3. QED
    BY <2>2 DEF ResultInv, local
<1>3. ASSUME NEW u \in Threads, wait_timeout(u)
      PROVE  pc[u] = "expired" /\ u \in expired[c]
  <2>1. cur[u] = c
    BY <1>3 DEF wait_timeout, set_result, TypeOK
  <2>2. QED
    BY <1>3, <2>1 DEF wait_timeout, ControlInv
<1>4. QED
  BY <1>1, <1>2, <1>3
  DEF CoreStep, Takes, Quiet, coreVars, wait_expired, peer_answers, next_msgid,
      send_request_impl, futureVars

\* set_result() always brings a result.
LEMMA ReadyHasResult ==
    ASSUME IInv, [Next]_vars, NEW c \in Calls, fstate'[c] = "ready",
           fstate[c] = "ready" => result[c].kind # "unset"
    PROVE  result'[c].kind # "unset"
<1> USE DEF IInv
<1>1. CoreStep
  BY CoreSteps
<1>2. ASSUME NEW p \in Procs, NEW d \in Calls, settle(p, d)
      PROVE  result'[c].kind # "unset"
  <2>1. CASE d = c
    <3>1. result'[c] = give[p] /\ todo[p] # {}
      BY <1>2, <2>1 DEF settle, set_result, TypeOK
    <3>2. give[p] \in {local("timeout"), local("connect")} \/ give[p].kind \in Answers
      BY <3>1 DEF GiveInv
    <3>3. QED
      BY <3>1, <3>2, SessionAssumption DEF local
  <2>2. CASE d # c
    BY <1>2, <2>2 DEF settle, set_result, TypeOK
  <2>3. QED
    BY <2>1, <2>2
<1>3. ASSUME NEW u \in Threads, wait_timeout(u)
      PROVE  result'[c].kind # "unset"
  <2>1. CASE cur[u] = c
    BY <1>3, <2>1 DEF wait_timeout, set_result, TypeOK, local
  <2>2. CASE cur[u] # c
    BY <1>3, <2>2 DEF wait_timeout, set_result, TypeOK
  <2>3. QED
    BY <2>1, <2>2
<1>4. ASSUME NEW t \in Threads, NEW d \in Calls, next_msgid(t, d)
      PROVE  result' = result /\ fstate[c] = "ready"
  BY <1>4 DEF next_msgid, TypeOK
<1>5. ASSUME NEW t \in Threads, send_request_impl(t)
      PROVE  result' = result /\ fstate[c] = "ready"
  BY <1>5 DEF send_request_impl, ControlInv, TypeOK
<1>6. QED
  BY <1>1, <1>2, <1>3, <1>4, <1>5
  DEF CoreStep, Takes, Quiet, coreVars, wait_expired, peer_answers, futureVars

\* What a step may do to a thread t, seen from get(): nothing; a step of get()
\* itself; the way into get_impl(), for a future that is ready; or something
\* outside of get_impl().
Untouched(t) == pc'[t] = pc[t] /\ cur'[t] = cur[t] /\ ret'[t] = ret[t]
Enters(t)    == /\ pc[t] \notin InGet \cup {"returned"} /\ ret'[t] = ret[t]
                /\ pc'[t] = "get_error" /\ fstate'[cur'[t]] = "ready"
Outside(t)   == /\ pc[t] \notin InGet \cup {"returned"} /\ ret'[t] = ret[t]
                /\ pc'[t] \notin InGet \cup {"returned"}
GetStep(t)   == Untouched(t) \/ Get(t) \/ Enters(t) \/ Outside(t)

\* A wait is over when the future is ready.
LEMMA WaitedStep ==
    ASSUME IInv, NEW t \in Threads, NEW u \in Threads, waited(t), pc[t] \in {"waiting", "expired"},
           fstate'[cur[t]] = "ready"
    PROVE  GetStep(u)
<1>1. pc \in [Procs -> Pcs] /\ cur \in [Threads -> Calls \cup {NoFuture}] /\ ret' = ret
      /\ t \in Procs /\ u \in Procs
  BY ProcsFacts DEF IInv, TypeOK, waited
<1>2. CASE u # t
  BY <1>1, <1>2 DEF waited, GetStep, Untouched
<1>3. CASE u = t
  <2>1. CASE op[t] = "get"
    BY <1>1, <1>3, <2>1 DEF waited, GetStep, Enters, InGet
  <2>2. CASE op[t] = "timed_wait"
    BY <1>1, <1>3, <2>2 DEF waited, GetStep, Outside, InGet
  <2>3. QED
    BY <2>1, <2>2 DEF waited
<1>4. QED
  BY <1>2, <1>3

LEMMA GetSteps ==
    ASSUME IInv, [Next]_vars, NEW u \in Threads
    PROVE  GetStep(u)
<1>1. /\ pc \in [Procs -> Pcs] /\ cur \in [Threads -> Calls \cup {NoFuture}]
      /\ u \in Procs /\ Threads \subseteq Procs
      /\ \A p \in Handlers : p \in Procs /\ p \notin Threads
  BY ProcsFacts, SessionAssumption DEF IInv, TypeOK, Procs, Handlers
<1> USE DEF InGet
<1>2. ASSUME NEW t \in Threads, wait_notified(t) PROVE GetStep(u)
  BY <1>2, WaitedStep DEF wait_notified, futureVars
<1>3. ASSUME NEW t \in Threads, wait_timeout(t) PROVE GetStep(u)
  <2>1. fstate'[cur[t]] = "ready"
    BY <1>3 DEF wait_timeout, set_result, IInv, TypeOK, ControlInv
  <2>2. QED
    BY <1>3, <2>1, WaitedStep DEF wait_timeout
<1>4. ASSUME NEW t \in Threads, NEW c \in Calls, NEW o \in {"get", "timed_wait"}, timed_wait(t, c, o)
      PROVE  GetStep(u)
  <2>1. CASE u # t
    BY <1>1, <1>4, <2>1 DEF timed_wait, GetStep, Untouched
  <2>2. CASE u = t
    BY <1>1, <1>4, <2>2 DEF timed_wait, GetStep, Enters, Outside, futureVars, IInv, TypeOK
  <2>3. QED
    BY <2>1, <2>2
<1>5. ASSUME NEW t \in Threads, Get(t) PROVE GetStep(u)
  BY <1>1, <1>5
  DEF Get, get_error, get_result, throw_exception, get_comes_back, get_over, GetStep, Untouched,
      IInv, TypeOK
<1>6. ASSUME NEW t \in Threads,
             \/ \E c \in Calls : next_msgid(t, c)
             \/ send_request_impl(t) \/ send_notify_impl(t) \/ wait_expired(t) \/ Send(t)
      PROVE  GetStep(u)
  <2>1. ret' = ret
    BY <1>6
    DEF next_msgid, send_request_impl, send_notify_impl, wait_expired, Send, send_written,
        send_dropped, send_throws, on_system_error_in_send, on_connect_failed, on_send_error,
        send_failed
  <2>2. /\ \/ cur' = cur
           \/ cur' \in {[cur EXCEPT ![t] = c] : c \in Calls \cup {NoFuture}}
        /\ \E next \in {"insert", "send", "expired", "idle", "settle", "settle_throw"} :
              pc' = [pc EXCEPT ![t] = next]
        /\ pc[t] \in {"idle", "insert", "waiting", "send", "settle", "settle_throw"}
    BY <1>6
    DEF next_msgid, send_request_impl, send_notify_impl, wait_expired, Send, send_written,
        send_dropped, send_throws, on_system_error_in_send, on_connect_failed, on_send_error,
        send_failed, returns
  <2>3. CASE u # t
    BY <1>1, <2>1, <2>2, <2>3 DEF GetStep, Untouched
  <2>4. CASE u = t
    BY <1>1, <2>1, <2>2, <2>4 DEF GetStep, Outside
  <2>5. QED
    BY <2>3, <2>4
<1>7. ASSUME NEW p \in Handlers, \/ handler_done(p) \/ Respond(p) \/ on_system_error(p)
                                 \/ p = Timer /\ step_timer_handler
      PROVE  GetStep(u)
  BY <1>1, <1>7
  DEF handler_done, Respond, on_response, on_system_error, step_timer_handler, GetStep, Untouched
<1>8. ASSUME UNCHANGED <<pc, cur, ret>> PROVE GetStep(u)
  BY <1>8 DEF GetStep, Untouched
<1>9. ASSUME NEW p \in Procs, Settle(p) PROVE GetStep(u)
  BY <1>8, <1>9 DEF Settle, settle
<1>10. ASSUME \/ \E t \in Threads : Attach(t)
              \/ Callback \/ Peer \/ (\E sec \in Timeouts : set_timeout(sec)) \/ UNCHANGED vars
       PROVE  GetStep(u)
  BY <1>8, <1>10
  DEF Attach, attach_callback, Callback, callback_real, Peer, peer_answers, set_timeout, vars,
      procVars
<1>11. QED
  BY <1>2, <1>3, <1>4, <1>5, <1>6, <1>7, <1>9, <1>10
  DEF Next, Call, Wait, Handlers, handler_done

LEMMA GetStepInv == IInv /\ GetInv /\ [Next]_vars => GetInv'
<1> SUFFICES ASSUME IInv, GetInv, [Next]_vars PROVE GetInv'
  OBVIOUS
<1>1. \A c \in Calls : fstate'[c] = "ready" => result'[c].kind # "unset"
  BY ReadyHasResult DEF GetInv
<1> SUFFICES
      ASSUME NEW t \in Threads
      PROVE  /\ ret'[t].how = "nil" => expired'[cur'[t]] \ {t} # {}
             /\ ret'[t].how = "remote_error_nil" => expired'[cur'[t]] # {}
             /\ pc'[t] \in InGet => fstate'[cur'[t]] = "ready"
             /\ pc'[t] = "get_result" =>
                   result'[cur'[t]].kind = "reply" \/ expired'[cur'[t]] \ {t} # {}
             /\ pc'[t] = "throw" => result'[cur'[t]].kind # "reply" \/ expired'[cur'[t]] # {}
             /\ ret'[t].how # "none" => pc'[t] = "returned"
  BY <1>1 DEF GetInv, TornRead
<1> DEFINE c == cur[t]
<1>2. pc[t] \in InGet \cup {"returned"} => c \in Calls
  BY DEF IInv, ControlInv, TypeOK, InGet
<1>3. /\ ret[t].how = "nil" => expired[c] \ {t} # {}
      /\ ret[t].how = "remote_error_nil" => expired[c] # {}
      /\ pc[t] \in InGet => fstate[c] = "ready" /\ result[c].kind # "unset"
      /\ pc[t] = "get_result" => result[c].kind = "reply" \/ expired[c] \ {t} # {}
      /\ pc[t] = "throw" => result[c].kind # "reply" \/ expired[c] # {}
      /\ ret[t].how # "none" => pc[t] = "returned"
  BY <1>2 DEF GetInv, TornRead
<1>4. c \in Calls => expired[c] \subseteq expired'[c]
  BY ExpiredGrows
<1>5. CASE Untouched(t)
  <2>1. CASE pc[t] \in InGet
    <3>1. fstate'[c] = "ready" /\ (result'[c] # result[c] => expired[c] # {})
      BY <1>2, <1>3, <2>1, StableStep
    <3>2. ASSUME result'[c] # result[c], result[c].kind = "reply"
          PROVE  expired[c] \ {t} # {}
      <4>1. PICK u \in Threads : pc[u] = "expired" /\ u \in expired[c]
        BY <1>2, <1>3, <2>1, <3>2, ReplyOverwritten
      <4>2. u # t
        BY <2>1, <4>1 DEF InGet
      <4>3. QED
        BY <4>1, <4>2
    <3>3. pc'[t] = pc[t] /\ cur'[t] = c /\ ret'[t] = ret[t] /\ c \in Calls
      BY <1>2, <1>5, <2>1 DEF Untouched
    <3>4. ret[t].how = "none"
      BY <1>3, <2>1 DEF InGet
    <3>5. CASE pc[t] = "get_result"
      <4>1. result'[c].kind = "reply" \/ expired[c] \ {t} # {}
        BY <1>3, <3>2, <3>5
      <4>2. QED
        BY <1>4, <3>1, <3>3, <3>4, <3>5, <4>1
    <3>6. CASE pc[t] = "throw"
      <4>1. result'[c].kind # "reply" \/ expired[c] # {}
        BY <1>3, <3>1, <3>6
      <4>2. QED
        BY <1>4, <3>1, <3>3, <3>4, <3>6, <4>1
    <3>7. QED
      BY <2>1, <3>1, <3>3, <3>4, <3>5, <3>6 DEF InGet
  <2>2. CASE pc[t] \notin InGet
    <3>1. pc'[t] = pc[t] /\ cur'[t] = c /\ ret'[t] = ret[t]
      BY <1>5 DEF Untouched
    <3>2. CASE pc[t] = "returned"
      BY <1>2, <1>3, <1>4, <2>2, <3>1, <3>2 DEF InGet
    <3>3. CASE pc[t] # "returned"
      BY <1>3, <2>2, <3>1, <3>3 DEF InGet
    <3>4. QED
      BY <3>2, <3>3
  <2>3. QED
    BY <2>1, <2>2
<1>6. CASE Enters(t) \/ Outside(t)
  <2>1. ret'[t].how = "none" /\ pc'[t] \notin {"get_result", "throw"}
    BY <1>3, <1>6 DEF Enters, Outside, InGet
  <2>2. QED
    BY <1>6, <2>1 DEF Enters, Outside
<1>7. CASE Get(t)
  <2>1. /\ UNCHANGED <<fstate, result, expired>>
        /\ pc \in [Procs -> Pcs] /\ t \in Procs
        /\ cur \in [Threads -> Calls \cup {NoFuture}]
        /\ ret \in [Threads -> [how : Hows, from : Calls \cup {NoFuture}]]
    BY <1>7, ProcsFacts
    DEF Get, get_error, get_result, throw_exception, get_comes_back, get_over, futureVars,
        ghostVars, IInv, TypeOK
  <2>2. CASE get_error(t)
    <3>1. pc'[t] = IF result[c].kind \in {"reply", "unset"} THEN "get_result" ELSE "throw"
      BY <2>1, <2>2 DEF get_error
    <3>2. pc[t] = "get_error" /\ cur' = cur /\ ret' = ret
      BY <2>2 DEF get_error
    <3>3. QED
      BY <1>3, <2>1, <3>1, <3>2 DEF InGet
  <2>3. CASE get_result(t)
    <3>1. /\ pc[t] = "get_result" /\ pc'[t] = "returned" /\ cur' = cur
          /\ ret'[t].how = IF result[c].kind = "reply" THEN "value" ELSE "nil"
      BY <2>1, <2>3 DEF get_result, get_comes_back
    <3>2. QED
      BY <1>3, <2>1, <3>1 DEF InGet
  <2>4. CASE throw_exception(t)
    <3>1. /\ pc[t] = "throw" /\ pc'[t] = "returned" /\ cur' = cur
          /\ ret'[t].how = exception_for[result[c].kind]
      BY <2>1, <2>4 DEF throw_exception, get_comes_back
    <3>2. result[c].kind \in Kinds \ {"unset"}
      BY <1>2, <1>3, <3>1 DEF IInv, TypeOK, Results, InGet
    <3>3. ret'[t].how = "remote_error_nil" => result[c].kind = "reply"
      BY <3>1, <3>2 DEF exception_for, Kinds
    <3>4. ret'[t].how # "nil"
      BY <3>1, <3>2 DEF exception_for, Kinds
    <3>5. QED
      BY <1>3, <2>1, <3>1, <3>3, <3>4 DEF InGet
  <2>5. CASE get_over(t)
    <3>1. pc'[t] = "idle" /\ ret'[t].how = "none"
      BY <2>1, <2>5 DEF get_over, NoRet
    <3>2. QED
      BY <3>1 DEF InGet
  <2>6. QED
    BY <1>7, <2>2, <2>3, <2>4, <2>5 DEF Get
<1>8. QED
  BY <1>5, <1>6, <1>7, GetSteps DEF GetStep

\* get() returns the value or throws the exception of one completion, although
\* it reads the result without the lock: a nil value needs another thread that
\* gave up waiting for the same future, a remote_error of nil needs one that
\* did.
THEOREM Mixtures == Safety => []TornRead
<1>1. GetInv => TornRead
  BY DEF GetInv
<1>2. QED
  BY <1>1, GetInit, GetStepInv, Invariance, PTL DEF Safety
=============================================================================
