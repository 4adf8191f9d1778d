------------------------- MODULE SessionPoolProofs -------------------------
(***************************************************************************)
(* Proofs about the session pool and the lifetime of its sessions, for any *)
(* number of threads, addresses, sessions and calls and any time limit.    *)
(*                                                                         *)
(* The properties say what happens to a session that is used or erased.    *)
(* None is inductive alone: the time a session was unused is known  *)
(* only through its ttl (TtlInv), the entries found to be expired must     *)
(* stay unused until they are erased (DoomedInv), and who refers to a      *)
(* session must agree with its life (RefInv).  PoolInv joins these parts   *)
(* and the properties.                                                     *)
(***************************************************************************)
EXTENDS SessionPool, TLAPS

\* A session is in use: the program has a handle, or a future waits on it.
InUse(s) == handles[s] # {} \/ Waiting(s) # {}

\* A session is alive exactly while something refers to it; a client's is
\* never in the table; one that the pool has forgotten had expired.
RefInv(s) ==
    /\ InTable(s) => life[s] = "alive" /\ s \notin Clients
    /\ s \in locked => life[s] = "alive"
    /\ life[s] = "alive" => InTable(s) \/ ~unique(s)
    /\ life[s] = "alive" => InTable(s) \/ s \in Clients \/ idle[s] > TimeLimit
    /\ InUse(s) => life[s] = "alive" /\ (s \in Clients \/ InTable(s))

\* What has gone from the ttl of an entry was time without use; while it is in
\* use its ttl stays what get_session() has set.
TtlInv(s) ==
    InTable(s) => idle[s] + ttl[s] >= TimeLimit /\ (InUse(s) => ttl[s] = TimeLimit)

\* Nobody can take an expired entry into use before it is erased.
DoomedInv(s) == s \in doomed => ticking /\ InTable(s) /\ ~InUse(s) /\ idle[s] > TimeLimit

SessionInv(s) == RefInv(s) /\ TtlInv(s) /\ DoomedInv(s)
PoolInv == \A s \in Sessions : SessionInv(s)

-----------------------------------------------------------------------------

LEMMA TypeInit == Init => TypeOK
<1> SUFFICES ASSUME Init PROVE TypeOK
  OBVIOUS
<1>1. ttl \in [Sessions -> 0 .. TimeLimit] /\ idle \in [Sessions -> 0 .. TimeLimit + 1]
  BY PoolAssumption DEF Init
<1>2. conn \in [Sessions -> BOOLEAN]
  BY DEF Init
<1>3. QED
  BY <1>1, <1>2 DEF Init, TypeOK

\* The references a step leaves decide over life, and what disarm() does to a
\* timer keeps its type.
LEMMA ReleasedType ==
    ASSUME TypeOK, released
    PROVE  /\ life' \in [Sessions -> {"unborn", "alive", "dead"}]
           /\ disarm(timer) \in [Sessions -> {"off", "waiting", "queued", "running", "arming"}]
  BY DEF TypeOK, released, disarm

LEMMA TypeStep == TypeOK /\ [Next]_vars => TypeOK'
<1> SUFFICES ASSUME TypeOK, [Next]_vars PROVE TypeOK'
  OBVIOUS
<1> USE PoolAssumption DEF TypeOK
<1>1. ASSUME NEW t \in Threads, NEW a \in Addrs, get_session(t, a) PROVE TypeOK'
  BY <1>1 DEF get_session
\* The step timer of the pool counts within the limits.
<1>2. CASE step_timer_handler
  <2>1. ttl' \in [Sessions -> 0 .. TimeLimit]
    BY <1>2 DEF step_timer_handler, counted_entries
  <2>2. idle' \in [Sessions -> 0 .. TimeLimit + 1]
    BY <1>2 DEF step_timer_handler
  <2>3. QED
    BY <1>2, <2>1, <2>2 DEF step_timer_handler, expired_entries
<1>3. CASE step_timer_erases
  BY <1>3, ReleasedType DEF step_timer_erases
\* The program.
<1>4. ASSUME NEW t \in Threads, NEW s \in Sessions, create_client(t, s) PROVE TypeOK'
  BY <1>4 DEF create_client
<1>5. ASSUME NEW t \in Threads, NEW s \in Sessions, NEW c \in Calls,
             NEW connects \in BOOLEAN, send_request(t, s, c, connects)
      PROVE  TypeOK'
  <2>1. call' \in [Calls -> {"none", "waiting", "given_up", "done"}]
    BY <1>5 DEF send_request
  <2>2. dials' \in [Sessions -> Nat]
    BY <1>5 DEF send_request
  <2>3. QED
    BY <1>5, <2>1, <2>2 DEF send_request
<1>6. ASSUME NEW t \in Threads, NEW s \in Sessions, drop_handle(t, s) PROVE TypeOK'
  BY <1>6, ReleasedType DEF drop_handle
<1>7. ASSUME NEW c \in Calls, timed_wait_expires(c) PROVE TypeOK'
  <2>1. idle' \in [Sessions -> 0 .. TimeLimit + 1]
    <3>1. idle' = [idle EXCEPT ![on[c]] = 0]
      BY <1>7 DEF timed_wait_expires
    <3>2. \A s \in Sessions : idle'[s] \in 0 .. TimeLimit + 1
      BY <3>1
    <3>3. QED
      BY <3>1, <3>2
  <2>2. QED
    BY <1>7, <2>1, ReleasedType DEF timed_wait_expires
\* The handlers of a session.
<1>8. ASSUME NEW s \in Sessions, on_read(s) PROVE TypeOK'
  BY <1>8 DEF on_read
<1>9. ASSUME NEW s \in Sessions, NEW F \in SUBSET Calls, on_read_done(s, F) PROVE TypeOK'
  BY <1>9, ReleasedType DEF on_read_done, used_by
<1>10. ASSUME NEW s \in Sessions, on_system_error(s) PROVE TypeOK'
  BY <1>10, ReleasedType DEF on_system_error, used_by
<1>11. ASSUME NEW s \in Sessions, on_system_error_closes(s) PROVE TypeOK'
  BY <1>11, ReleasedType DEF on_system_error_closes
<1>12. ASSUME NEW s \in Sessions, on_read_orphan(s) PROVE TypeOK'
  BY <1>12 DEF on_read_orphan
<1>13. ASSUME NEW s \in Sessions, NEW F \in SUBSET Calls, on_timeout(s, F) PROVE TypeOK'
  <2>1. dials' \in [Sessions -> Nat]
    BY <1>13 DEF on_timeout
  <2>2. QED
    BY <1>13, <2>1, ReleasedType DEF on_timeout, used_by
<1>14. ASSUME NEW s \in Sessions, NEW F \in SUBSET Calls, timer_times_out(s, F) PROVE TypeOK'
  BY <1>14, ReleasedType DEF timer_times_out, used_by
<1>15. ASSUME NEW s \in Sessions, timer_expires(s) \/ timer_starts(s) \/ timer_arms(s)
       PROVE  TypeOK'
  BY <1>15 DEF timer_expires, timer_starts, timer_arms
<1>16. CASE UNCHANGED vars
  BY <1>16 DEF vars
<1> HIDE DEF TypeOK
<1>17. ASSUME NEW t \in Threads, Program(t) PROVE TypeOK'
  BY <1>1, <1>4, <1>5, <1>6, <1>17 DEF Program
<1>18. ASSUME NEW s \in Sessions, Read(s) \/ ConnectTimer(s) \/ StepTimer(s) PROVE TypeOK'
  BY <1>8, <1>9, <1>12, <1>14, <1>15, <1>18, <1>10, <1>11, <1>13
  DEF Read, ReadEnds, ConnectTimer, StepTimer
<1>19. QED
  BY <1>2, <1>3, <1>7, <1>16, <1>17, <1>18 DEF Next, PoolTimer

\* The variables of the pool keep their types: the ttl of an entry stops at 0.
THEOREM TypeCorrect == Safety => []TypeOK
  BY TypeInit, TypeStep, PTL DEF Safety

-----------------------------------------------------------------------------
(* Lifetime *)

LEMMA PoolInit == Init => PoolInv
  BY PoolAssumption DEF Init, PoolInv, SessionInv, RefInv, TtlInv, DoomedInv, InUse,
                        InTable, Waiting, unique

\* A session that a step does not touch, and that was referred to before, lives
\* on.
LEMMA Untouched ==
    ASSUME TypeOK, PoolInv, NEW s \in Sessions,
           released \/ UNCHANGED life,
           InTable(s)' <=> InTable(s), Waiting(s)' = Waiting(s), handles'[s] = handles[s],
           s \in locked' <=> s \in locked, idle'[s] = idle[s], ttl'[s] = ttl[s],
           s \in doomed' => s \in doomed, s \in doomed' => ticking'
    PROVE  SessionInv(s)'
<1>1. unique(s)' <=> unique(s)
  BY DEF unique
<1>2. life'[s] = life[s]
  BY <1>1 DEF PoolInv, SessionInv, RefInv, released, TypeOK
<1>3. InUse(s)' <=> InUse(s)
  BY DEF InUse
<1>4. RefInv(s)'
  BY <1>1, <1>2, <1>3 DEF PoolInv, SessionInv, RefInv
<1>5. TtlInv(s)' /\ DoomedInv(s)'
  BY <1>3 DEF PoolInv, SessionInv, TtlInv, DoomedInv
<1>6. QED
  BY <1>4, <1>5 DEF SessionInv

\* Leaving out references from a session that is in use resets its idle time;
\* one of the pool then stays in the table, a client's may be destroyed.
LEMMA UseEnds ==
    ASSUME TypeOK, PoolInv, NEW s \in Sessions, InUse(s),
           released,
           InTable(s)' <=> InTable(s), idle'[s] \in Nat, ttl'[s] = ttl[s], doomed' = doomed
    PROVE  SessionInv(s)'
<1>1. life[s] = "alive" /\ (s \in Clients \/ InTable(s)) /\ s \notin doomed
  BY DEF PoolInv, SessionInv, RefInv, DoomedInv
<1>2. InTable(s) => ttl[s] = TimeLimit
  BY DEF PoolInv, SessionInv, TtlInv
<1>3. life'[s] = IF ~InTable(s)' /\ unique(s)' THEN "dead" ELSE "alive"
  BY <1>1 DEF released
<1>4. RefInv(s)'
  BY <1>1, <1>3 DEF RefInv, InUse, unique, PoolInv, SessionInv
<1>5. TtlInv(s)' /\ DoomedInv(s)'
  BY <1>1, <1>2, PoolAssumption DEF TtlInv, DoomedInv
<1>6. QED
  BY <1>4, <1>5 DEF SessionInv

\* A handler that ends for a session nobody uses may be the last to refer to it:
\* then it was a client's, or had expired.
LEMMA HandlerEnds ==
    ASSUME TypeOK, PoolInv, NEW s \in Sessions, life[s] = "alive", ~InUse(s), ~InUse(s)',
           released,
           InTable(s)' <=> InTable(s), s \in locked' => s \in locked,
           idle'[s] = idle[s], ttl'[s] = ttl[s], doomed' = doomed, ticking' = ticking
    PROVE  SessionInv(s)'
<1>1. life'[s] = IF ~InTable(s)' /\ unique(s)' THEN "dead" ELSE "alive"
  BY DEF released
<1>2. RefInv(s)'
  BY <1>1 DEF RefInv, PoolInv, SessionInv, unique
<1>3. TtlInv(s)' /\ DoomedInv(s)'
  BY DEF TtlInv, DoomedInv, PoolInv, SessionInv
<1>4. QED
  BY <1>2, <1>3 DEF SessionInv

\* Completing futures F of a session touches no other session.
LEMMA CompletingFacts ==
    ASSUME TypeOK, NEW s \in Sessions, NEW F \in SUBSET Calls, F \subseteq Pending(s),
           call' = [c \in Calls |-> IF c \in F THEN "done" ELSE call[c]], UNCHANGED on
    PROVE  /\ \A r \in Sessions \ {s} : Waiting(r)' = Waiting(r)
           /\ Waiting(s)' = Waiting(s) \ F
  BY DEF Waiting, Pending, TypeOK

\* on_read(), the connect timer and the step timer complete futures alike.
LEMMA CompletingStep ==
    ASSUME TypeOK, PoolInv, NEW s \in Sessions, NEW F \in SUBSET Calls, F \subseteq Pending(s),
           life[s] = "alive",
           call' = [c \in Calls |-> IF c \in F THEN "done" ELSE call[c]],
           idle' = used_by(s, F), UNCHANGED <<m_table, ttl, doomed, ticking, handles, on>>,
           released,
           locked' = locked \/ locked' = locked \ {s}
    PROVE  PoolInv'
<1> SUFFICES ASSUME NEW r \in Sessions PROVE SessionInv(r)'
  BY DEF PoolInv
<1>1. \A x \in Sessions : InTable(x)' <=> InTable(x)
  BY DEF InTable
<1>2. CASE r # s
  <2>1. Waiting(r)' = Waiting(r) /\ idle'[r] = idle[r] /\ (r \in locked' <=> r \in locked)
    BY <1>2, CompletingFacts DEF used_by, TypeOK
  <2>2. r \in doomed' => r \in doomed /\ ticking'
    BY DEF PoolInv, SessionInv, DoomedInv
  <2>3. QED
    BY <1>1, <2>1, <2>2, Untouched
<1>3. CASE r = s /\ InUse(s)
  <2>1. idle'[s] \in Nat
    BY PoolAssumption DEF used_by, TypeOK
  <2>2. QED
    BY <1>1, <1>3, <2>1, UseEnds
<1>4. CASE r = s /\ ~InUse(s)
  <2>1. Waiting(s) = {} /\ Waiting(s)' = {}
    BY <1>4, CompletingFacts DEF InUse
  <2>2. idle'[s] = idle[s] /\ ~InUse(s)'
    BY <1>4, <2>1 DEF used_by, InUse, TypeOK
  <2>3. QED
    BY <1>1, <1>4, <2>2, HandlerEnds
<1>5. QED
  BY <1>2, <1>3, <1>4

LEMMA PoolStep == TypeOK /\ PoolInv /\ [Next]_vars => PoolInv'
<1> SUFFICES ASSUME TypeOK, PoolInv, [Next]_vars PROVE PoolInv'
  OBVIOUS
<1> DEFINE Same(r) == /\ InTable(r)' <=> InTable(r)
                      /\ Waiting(r)' = Waiting(r) /\ handles'[r] = handles[r]
                      /\ r \in locked' <=> r \in locked
                      /\ idle'[r] = idle[r] /\ ttl'[r] = ttl[r]
                      /\ r \in doomed' => r \in doomed /\ ticking'
\* get_session() revives the ttl of an entry, or makes one.
<1>1. ASSUME NEW t \in Threads, NEW a \in Addrs, get_session(t, a) PROVE PoolInv'
  <2> SUFFICES ASSUME NEW r \in Sessions PROVE SessionInv(r)'
    BY DEF PoolInv
  <2>1. Waiting(r)' = Waiting(r) /\ locked' = locked /\ doomed = {} /\ doomed' = {}
    BY <1>1 DEF get_session, Waiting, PoolInv, SessionInv, DoomedInv, TypeOK
  <2>2. ASSUME NEW s \in Sessions, m_table[a] = s,
               ttl' = [ttl EXCEPT ![s] = TimeLimit], handles' = [handles EXCEPT ![s] = @ \cup {t}],
               idle' = [idle EXCEPT ![s] = 0], UNCHANGED <<m_table, life, timer>>
        PROVE  SessionInv(r)'
    <3>1. InTable(r)' <=> InTable(r)
      BY <2>2 DEF InTable
    <3>2. CASE r = s
      <4>1. InTable(s) /\ life[s] = "alive" /\ s \notin Clients
        BY <2>2 DEF InTable, PoolInv, SessionInv, RefInv
      <4>2. handles'[s] # {} /\ idle'[s] = 0 /\ ttl'[s] = TimeLimit
        BY <2>2 DEF TypeOK
      <4>3. QED
        BY <2>1, <2>2, <3>1, <3>2, <4>1, <4>2, PoolAssumption
        DEF SessionInv, RefInv, TtlInv, DoomedInv, unique, InUse
    <3>3. CASE r # s
      <4>1. Same(r) /\ life' = life
        BY <2>1, <2>2, <3>1, <3>3 DEF TypeOK
      <4>2. QED
        BY <4>1, Untouched
    <3>4. QED
      BY <3>2, <3>3
  <2>3. ASSUME NEW s \in Sessions \ Clients, m_table[a] = NoSession, life[s] = "unborn",
               m_table' = [m_table EXCEPT ![a] = s], life' = [life EXCEPT ![s] = "alive"],
               timer' = [timer EXCEPT ![s] = "waiting"], ttl' = [ttl EXCEPT ![s] = TimeLimit],
               handles' = [handles EXCEPT ![s] = {t}], idle' = [idle EXCEPT ![s] = 0]
        PROVE  SessionInv(r)'
    <3>1. CASE r = s
      <4>1. /\ InTable(s)' /\ life'[s] = "alive" /\ handles'[s] # {}
            /\ idle'[s] = 0 /\ ttl'[s] = TimeLimit
        BY <2>3 DEF TypeOK, InTable
      <4>2. QED
        BY <2>1, <2>3, <3>1, <4>1, PoolAssumption
        DEF SessionInv, RefInv, TtlInv, DoomedInv, unique, InUse
    <3>2. CASE r # s
      <4>1. InTable(r)' <=> InTable(r)
        BY <2>3, <3>2, PoolAssumption DEF TypeOK, InTable
      <4>2. Same(r) /\ life'[r] = life[r]
        BY <2>1, <2>3, <3>2, <4>1 DEF TypeOK
      <4>3. SessionInv(r)
        BY DEF PoolInv
      <4>4. QED
        BY <4>2, <4>3 DEF SessionInv, RefInv, TtlInv, DoomedInv, unique, InUse
    <3>3. QED
      BY <3>1, <3>2
  <2>4. QED
    BY <1>1, <2>2, <2>3 DEF get_session
\* The step timer of the pool counts an unused entry down, and up, ...
<1>2. CASE step_timer_handler
  <2> SUFFICES ASSUME NEW r \in Sessions PROVE SessionInv(r)'
    BY DEF PoolInv
  <2>1. /\ InTable(r)' <=> InTable(r)
        /\ InUse(r)' <=> InUse(r)
        /\ unique(r)' <=> unique(r)
    BY <1>2 DEF step_timer_handler, InTable, InUse, Waiting, unique
  <2>2. /\ ttl'[r] = IF InTable(r) /\ unique(r) /\ ttl[r] > 0 THEN ttl[r] - 1 ELSE ttl[r]
        /\ idle'[r] = IF InTable(r) /\ unique(r) /\ idle[r] <= TimeLimit THEN idle[r] + 1 ELSE idle[r]
        /\ r \in doomed' <=> InTable(r) /\ unique(r) /\ ttl[r] = 0
    BY <1>2 DEF step_timer_handler, counted_entries, expired_entries
  <2>3. ticking' /\ UNCHANGED <<life, locked, timer>>
    BY <1>2 DEF step_timer_handler
  <2>4. ttl[r] \in 0 .. TimeLimit /\ idle[r] \in 0 .. TimeLimit + 1 /\ SessionInv(r)
    BY DEF TypeOK, PoolInv
  <2>5. unique(r) => ~InUse(r)
    BY DEF unique, InUse
  <2>6. RefInv(r)'
    BY <2>1, <2>2, <2>3, <2>4, PoolAssumption DEF SessionInv, RefInv
  <2>7. TtlInv(r)' /\ DoomedInv(r)'
    BY <2>1, <2>2, <2>3, <2>4, <2>5, PoolAssumption DEF SessionInv, TtlInv, DoomedInv
  <2>8. QED
    BY <2>6, <2>7 DEF SessionInv
\* ... and erases those that have expired: they were not used in between.
<1>3. CASE step_timer_erases
  <2> SUFFICES ASSUME NEW r \in Sessions PROVE SessionInv(r)'
    BY DEF PoolInv
  <2>1. Waiting(r)' = Waiting(r) /\ UNCHANGED <<handles, locked, idle, ttl>> /\ doomed' = {}
    BY <1>3 DEF step_timer_erases, Waiting
  <2>2. released
    BY <1>3 DEF step_timer_erases
  <2>3. CASE r \notin doomed
    <3>1. InTable(r)' <=> InTable(r)
      BY <1>3, <2>3, PoolAssumption DEF step_timer_erases, InTable, TypeOK
    <3>2. QED
      BY <2>1, <2>2, <3>1, Untouched
  <2>4. CASE r \in doomed
    <3>1. life[r] = "alive" /\ ~InUse(r) /\ idle[r] > TimeLimit
      BY <2>4 DEF PoolInv, SessionInv, DoomedInv, RefInv
    <3>2. ~InTable(r)' /\ ~InUse(r)' /\ idle'[r] > TimeLimit
      BY <1>3, <2>1, <2>4, <3>1, PoolAssumption DEF step_timer_erases, InTable, InUse, TypeOK
    <3>3. life'[r] = IF unique(r)' THEN "dead" ELSE "alive"
      BY <2>2, <3>1, <3>2 DEF released
    <3>4. QED
      BY <2>1, <3>1, <3>2, <3>3 DEF SessionInv, RefInv, TtlInv, DoomedInv, unique, InUse
  <2>5. QED
    BY <2>3, <2>4
\* The program.
<1>4. ASSUME NEW t \in Threads, NEW s \in Sessions, create_client(t, s) PROVE PoolInv'
  <2> SUFFICES ASSUME NEW r \in Sessions PROVE SessionInv(r)'
    BY DEF PoolInv
  <2>1. /\ InTable(r)' <=> InTable(r)
        /\ Waiting(r)' = Waiting(r)
        /\ UNCHANGED <<ttl, doomed, ticking, locked, idle>>
    BY <1>4 DEF create_client, InTable, Waiting
  <2>2. SessionInv(r)
    BY DEF PoolInv
  <2>3. CASE r = s
    <3>1. life'[s] = "alive" /\ handles'[s] # {} /\ s \in Clients /\ ~InTable(s) /\ s \notin doomed
      BY <1>4, <2>2, <2>3 DEF create_client, SessionInv, RefInv, DoomedInv, TypeOK
    <3>2. QED
      BY <2>1, <2>3, <3>1 DEF SessionInv, RefInv, TtlInv, DoomedInv, unique, InUse
  <2>4. CASE r # s
    <3>1. life'[r] = life[r] /\ handles'[r] = handles[r]
      BY <1>4, <2>4 DEF create_client, TypeOK
    <3>2. QED
      BY <2>1, <2>2, <3>1 DEF SessionInv, RefInv, TtlInv, DoomedInv, unique, InUse
  <2>5. QED
    BY <2>3, <2>4
<1>5. ASSUME NEW t \in Threads, NEW s \in Sessions, NEW c \in Calls,
             NEW connects \in BOOLEAN, send_request(t, s, c, connects)
      PROVE  PoolInv'
  <2> SUFFICES ASSUME NEW r \in Sessions PROVE SessionInv(r)'
    BY DEF PoolInv
  <2>1. /\ InTable(r)' <=> InTable(r)
        /\ UNCHANGED <<ttl, doomed, ticking, life, handles, locked, idle>>
    BY <1>5 DEF send_request, InTable
  <2>2. r # s => Waiting(r)' = Waiting(r)
    BY <1>5 DEF send_request, Waiting, Pending, TypeOK
  <2>3. handles[s] # {} /\ SessionInv(r)
    BY <1>5 DEF send_request, PoolInv
  <2>4. (InUse(r)' <=> InUse(r)) /\ (unique(r)' <=> unique(r))
    BY <2>1, <2>2, <2>3 DEF InUse, unique
  <2>5. QED
    BY <2>1, <2>3, <2>4 DEF SessionInv, RefInv, TtlInv, DoomedInv
<1>6. ASSUME NEW t \in Threads, NEW s \in Sessions, drop_handle(t, s) PROVE PoolInv'
  <2> SUFFICES ASSUME NEW r \in Sessions PROVE SessionInv(r)'
    BY DEF PoolInv
  <2>1. /\ InTable(r)' <=> InTable(r)
        /\ Waiting(r)' = Waiting(r)
        /\ released
        /\ UNCHANGED <<ttl, doomed, ticking, locked>>
    BY <1>6 DEF drop_handle, InTable, Waiting
  <2>2. CASE r = s
    <3>1. InUse(s) /\ idle'[s] \in Nat
      BY <1>6 DEF drop_handle, InUse, TypeOK
    <3>2. QED
      BY <2>1, <2>2, <3>1, UseEnds
  <2>3. CASE r # s
    <3>1. handles'[r] = handles[r] /\ idle'[r] = idle[r]
      BY <1>6, <2>3 DEF drop_handle, TypeOK
    <3>2. r \in doomed' => r \in doomed /\ ticking'
      BY <2>1 DEF PoolInv, SessionInv, DoomedInv
    <3>3. QED
      BY <2>1, <3>1, <3>2, Untouched
  <2>4. QED
    BY <2>2, <2>3
<1>7. ASSUME NEW c \in Calls, timed_wait_expires(c) PROVE PoolInv'
  <2> SUFFICES ASSUME NEW r \in Sessions PROVE SessionInv(r)'
    BY DEF PoolInv
  <2>1. /\ InTable(r)' <=> InTable(r)
        /\ released
        /\ UNCHANGED <<ttl, doomed, ticking, handles, locked>>
    BY <1>7 DEF timed_wait_expires, InTable
  <2>2. CASE r = on[c]
    <3>1. InUse(r) /\ idle'[r] \in Nat
      BY <1>7, <2>2 DEF timed_wait_expires, InUse, Waiting, TypeOK
    <3>2. QED
      BY <2>1, <3>1, UseEnds
  <2>3. CASE r # on[c]
    <3>1. Waiting(r)' = Waiting(r) /\ idle'[r] = idle[r]
      BY <1>7, <2>3 DEF timed_wait_expires, Waiting, TypeOK
    <3>2. r \in doomed' => r \in doomed /\ ticking'
      BY <2>1 DEF PoolInv, SessionInv, DoomedInv
    <3>3. QED
      BY <2>1, <3>1, <3>2, Untouched
  <2>4. QED
    BY <2>2, <2>3
\* The handlers of a session.
<1>8. ASSUME NEW s \in Sessions, on_read(s) PROVE PoolInv'
  <2> SUFFICES ASSUME NEW r \in Sessions PROVE SessionInv(r)'
    BY DEF PoolInv
  <2>1. /\ InTable(r)' <=> InTable(r)
        /\ InUse(r)' <=> InUse(r)
        /\ UNCHANGED <<ttl, doomed, ticking, life, idle>>
    BY <1>8 DEF on_read, InTable, InUse, Waiting
  <2>2. unique(r)' => unique(r)
    BY <1>8 DEF on_read, unique, Waiting
  <2>3. (r \in locked' => r \in locked \/ life[r] = "alive") /\ SessionInv(r)
    BY <1>8 DEF on_read, PoolInv
  <2>4. QED
    BY <2>1, <2>2, <2>3 DEF SessionInv, RefInv, TtlInv, DoomedInv
<1>9. ASSUME NEW s \in Sessions, NEW F \in SUBSET Calls, on_read_done(s, F) PROVE PoolInv'
  <2>1. life[s] = "alive"
    BY <1>9 DEF on_read_done, PoolInv, SessionInv, RefInv
  <2>2. QED
    BY <1>9, <2>1, CompletingStep DEF on_read_done
<1>10. ASSUME NEW s \in Sessions, on_system_error(s) PROVE PoolInv'
  <2>1. life[s] = "alive"
    BY <1>10 DEF on_system_error, PoolInv, SessionInv, RefInv
  <2>2. Pending(s) \in SUBSET Calls
    BY DEF Pending
  <2>3. QED
    BY <1>10, <2>1, <2>2, CompletingStep DEF on_system_error
\* Giving the lock back completes no future.
<1>11. ASSUME NEW s \in Sessions, on_system_error_closes(s) PROVE PoolInv'
  <2>1. life[s] = "alive"
    BY <1>11 DEF on_system_error_closes, PoolInv, SessionInv, RefInv, TypeOK
  <2>2. call' = [c \in Calls |-> IF c \in {} THEN "done" ELSE call[c]] /\ idle' = used_by(s, {})
    BY <1>11 DEF on_system_error_closes, used_by, TypeOK
  <2>3. QED
    BY <1>11, <2>1, <2>2, CompletingStep DEF on_system_error_closes
<1>12. ASSUME NEW s \in Sessions, NEW F \in SUBSET Calls, on_timeout(s, F) PROVE PoolInv'
  <2>1. F \subseteq Pending(s)
    BY <1>12 DEF on_timeout
  <2>2. QED
    BY <1>12, <2>1, CompletingStep DEF on_timeout
<1>13. ASSUME NEW s \in Sessions, NEW F \in SUBSET Calls, timer_times_out(s, F) PROVE PoolInv'
  BY <1>13, CompletingStep DEF timer_times_out
<1>14. ASSUME NEW s \in Sessions, timer_expires(s) \/ timer_starts(s) \/ timer_arms(s)
       PROVE  PoolInv'
  <2> SUFFICES ASSUME NEW r \in Sessions PROVE SessionInv(r)'
    BY DEF PoolInv
  <2>1. UNCHANGED <<m_table, ttl, doomed, ticking, life, handles, call, on, locked, idle>>
    BY <1>14 DEF timer_expires, timer_starts, timer_arms
  <2>2. /\ InTable(r)' <=> InTable(r)
        /\ InUse(r)' <=> InUse(r)
        /\ unique(r)' <=> unique(r)
    BY <2>1 DEF InTable, InUse, Waiting, unique
  <2>3. SessionInv(r)
    BY DEF PoolInv
  <2>4. QED
    BY <2>1, <2>2, <2>3 DEF SessionInv, RefInv, TtlInv, DoomedInv
<1>15. CASE UNCHANGED vars \/ \E s \in Sessions : on_read_orphan(s)
  <2>1. UNCHANGED <<m_table, ttl, doomed, ticking, life, handles, call, on, locked, idle>>
    BY <1>15 DEF vars, on_read_orphan
  <2>2. QED
    BY <2>1 DEF PoolInv, SessionInv, RefInv, TtlInv, DoomedInv, InUse, InTable, Waiting, unique
<1>16. ASSUME NEW t \in Threads, Program(t) PROVE PoolInv'
  BY <1>1, <1>4, <1>5, <1>6, <1>16 DEF Program
<1>17. ASSUME NEW s \in Sessions, Read(s) \/ ConnectTimer(s) \/ StepTimer(s) PROVE PoolInv'
  BY <1>8, <1>9, <1>13, <1>14, <1>15, <1>17, <1>10, <1>11, <1>12
  DEF Read, ReadEnds, ConnectTimer, StepTimer
<1>18. QED
  BY <1>2, <1>3, <1>7, <1>15, <1>16, <1>17 DEF Next, PoolTimer

\* The references to a session and its ttl agree with its life at all
\* times.
THEOREM Invariance == Safety => []PoolInv
  BY PoolInit, PoolStep, TypeCorrect, PTL DEF Safety

\* get_session() finds the session of an address as long as a handle or a
\* waiting future uses it, so that an address in use has one session.
THEOREM Pooling == Safety => []UsedIsPooled
<1>1. PoolInv => UsedIsPooled
  BY DEF PoolInv, SessionInv, RefInv, InUse, UsedIsPooled
<1>2. QED
  BY <1>1, Invariance, PTL

\* The step timer of the pool erases an entry only after more than TimeLimit
\* steps in a row without use.
THEOREM Keeping == Safety => []KeptLongEnough
<1>1. TypeOK /\ PoolInv => KeptLongEnough
  BY DEF TypeOK, PoolInv, SessionInv, DoomedInv, KeptLongEnough
<1>2. QED
  BY <1>1, TypeCorrect, Invariance, PTL
=============================================================================
