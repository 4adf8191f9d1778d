-------------------------- MODULE TcpClientProofs --------------------------
(***************************************************************************)
(* A session over TCP is a Session: whatever the socket, the strand and    *)
(* the connect timer do, each step is a step of Session or leaves its      *)
(* state alone.  So what SessionProofs proves of a session with any        *)
(* transport holds for this one, for every number of threads, calls and    *)
(* connections.                                                            *)
(*                                                                         *)
(* What TcpClient says of the socket itself needs more: CleanInv follows   *)
(* the one read there is through connect() and on_read() while nobody but  *)
(* the strand has closed the socket; OrphanInv says what the table holds   *)
(* while an error is being reported, and where its requests were written.  *)
(***************************************************************************)
EXTENDS TcpClient, SessionProofs

\* Where a thread can be in send_data().
Ats == {"out", "connect", "connect_failed", "callback", "start", "write", "write_failed"}

LEMMA TcpStep == [TNext]_tcpAll => [Next]_vars
<1> SUFFICES ASSUME [TNext]_tcpAll PROVE [Next]_vars
  OBVIOUS
<1> USE TcpAssumption, ProcsFacts
\* The steps of a thread.
<1>1. ASSUME NEW t \in Threads, tcp_call(t)
      PROVE  Next
  BY <1>1 DEF tcp_call, Next, Call
<1>2. ASSUME NEW t \in Threads, lock(t) \/ connect_succeeds(t) \/ connect_retried(t)
                                \/ on_connect_success(t)
      PROVE  UNCHANGED vars
  BY <1>2 DEF lock, connect_succeeds, connect_retried, on_connect_success
<1>3. ASSUME NEW t \in Threads,
             \/ connect_fails(t) \/ connect_throws(t) \/ start_throws(t) \/ write_succeeds(t)
             \/ write_dropped(t) \/ write_fails(t) \/ write_error_closes(t)
      PROVE  Next
  <2>1. Send(t)
    BY <1>3 DEF connect_fails, connect_throws, start_throws, write_succeeds, write_dropped,
        write_fails, write_error_closes, Send
  <2>2. QED
    BY <2>1 DEF Next
\* The steps of the strand and of the connect timer.
<1>4. ASSUME NEW c \in Calls, on_message(c)
      PROVE  Next
  BY <1>4 DEF on_message, Next, Respond
<1>5. ASSUME \/ bad_message \/ on_timeout_fails \/ \E k \in Conns : on_read_error(k)
      PROVE  Next
  BY <1>5 DEF bad_message, on_timeout_fails, on_read_error, Next
<1>6. CASE message_done \/ read_error_closes \/ on_timeout_done
  BY <1>6 DEF message_done, read_error_closes, on_timeout_done, Next
<1>7. ASSUME \/ \E s \in SUBSET Calls : on_read(s)
             \/ start \/ deadline \/ on_timeout \/ on_timeout_closes \/ peer_closes
      PROVE  UNCHANGED vars
  BY <1>7 DEF on_read, start, deadline, on_timeout, on_timeout_closes, peer_closes
\* The peer and the rest of the session.
<1>8. ASSUME NEW c \in Calls, NEW kind \in Answers, tcp_answers(c, kind)
      PROVE  Next
  BY <1>8 DEF tcp_answers, Next, Peer
<1>9. ASSUME (\E p \in Procs : tcp_settle(p)) \/ \E t \in Threads : callback_calls_again(t)
      PROVE  Next
  <2>1. PICK p \in Procs : Settle(p)
    BY <1>9 DEF tcp_settle, callback_calls_again, Settle
  <2>2. QED
    BY <2>1 DEF Next
<1>10. CASE tcp_timer
  BY <1>10 DEF tcp_timer, Next
<1>11. CASE UNCHANGED tcpAll
  BY <1>11 DEF tcpAll
<1>12. QED
  BY <1>1, <1>2, <1>3, <1>4, <1>5, <1>6, <1>7, <1>8, <1>9, <1>10, <1>11
  DEF TNext, Connect, Sending, Reading

\* client_transport and stream_handler use the session only as Session allows.
THEOREM TcpImplementsSession == TSafety => Safety
<1>1. TInit => Init
  BY DEF TInit
<1>2. QED
  BY <1>1, TcpStep, PTL DEF TSafety, Safety

\* Over TCP, too, a request is completed by one handler only, it is not lost
\* from the table, and it never gets the answer to another request.
THEOREM TcpCustody == TSafety => []ExclusiveCustody /\ []NoLostCall /\ []OwnReply
  BY TcpImplementsSession, Custody, NothingLost, OwnReplies, PTL

\* Over TCP, too, each call is settled at most once and for good, with its own
\* answer or a local error, as long as the ids have not wrapped around.
THEOREM TcpKeepsPromise == TSafety /\ []NoWrap => P!PSafety
  BY TcpImplementsSession, Refinement, PTL

-----------------------------------------------------------------------------
(* Types.  What is said of the session comes from SessionProofs. *)

\* close(), m_timer.cancel() and connect() of the socket keep the types.
LEMMA SocketTypes ==
    ASSUME TTypeOK
    PROVE  /\ conn \in Conns /\ Conns \subseteq Nat
           /\ opened => conn' \in Conns
           /\ \A other \in BOOLEAN : close(other) =>
                 /\ sock' = "closed" /\ conn' \in Conns /\ peer_up' \in BOOLEAN
                 /\ inbox' \subseteq Calls /\ meddled' \in BOOLEAN
           /\ cancel => armed' \in BOOLEAN /\ queued' \in Nat
<1>1. conn \in Conns /\ Conns \subseteq Nat
  BY DEF TTypeOK, Conns
<1>2. opened => conn' \in Conns
  BY <1>1, TcpAssumption DEF Conns, opened
<1>3. ASSUME NEW other \in BOOLEAN, close(other)
      PROVE  /\ sock' = "closed" /\ conn' \in Conns /\ peer_up' \in BOOLEAN
             /\ inbox' \subseteq Calls /\ meddled' \in BOOLEAN
  BY <1>1, <1>3 DEF close
<1>4. cancel => armed' \in BOOLEAN /\ queued' \in Nat
  <2>1. queued \in Nat /\ queued + 1 \in Nat
    BY DEF TTypeOK
  <2>2. QED
    BY <2>1, Zenon DEF cancel
<1>5. QED
  BY <1>1, <1>2, <1>3, <1>4

LEMMA TcpTypeStep == IInv /\ TTypeOK /\ [TNext]_tcpAll => TTypeOK'
<1> SUFFICES ASSUME IInv, TTypeOK, [TNext]_tcpAll PROVE TTypeOK'
  OBVIOUS
<1>1. TypeOK'
  BY TcpStep, TypeStep DEF IInv
<1> USE <1>1, SocketTypes, TcpAssumption
    DEF TTypeOK, timerVars, socketVars, readVars, sendVars, logVars, tcpVars
<1>2. ASSUME NEW t \in Threads, tcp_call(t)
      PROVE  TTypeOK'
  <2>1. ASSUME send_request_impl(t) PROVE cur[t] \in Calls
    BY <2>1 DEF send_request_impl, IInv, ControlInv
  <2>2. late' \subseteq Calls
    BY <1>2, <2>1 DEF tcp_call
  <2>3. QED
    BY <1>2, <2>2 DEF tcp_call
<1>3. ASSUME NEW t \in Threads, lock(t)
      PROVE  TTypeOK'
  <2>1. CASE is_open
    BY <1>3, <2>1 DEF lock
  <2>2. CASE ~is_open
    <3>1. queued' \in Nat
      <4>1. queued \in Nat /\ queued + 1 \in Nat
        OBVIOUS
      <4>2. QED
        BY <1>3, <2>2, <4>1, Zenon DEF lock
    <3>2. /\ opened /\ sock' = "open" /\ at' = [at EXCEPT ![t] = "connect"] /\ owner' = {t}
          /\ m_connecting' = 1 /\ armed' = TRUE /\ due' = FALSE
          /\ UNCHANGED <<failing, peer_up, inbox, readVars, logVars>>
      BY <1>3, <2>2 DEF lock
    <3>3. m_connecting' \in 0 .. (IF reconnect_limit = 0 THEN 1 ELSE reconnect_limit)
      BY <3>2
    <3>4. conn' \in Conns
      BY <3>2
    <3>5. QED
      BY <3>1, <3>2, <3>3, <3>4
  <2>3. QED
    BY <2>1, <2>2
<1>4. ASSUME NEW t \in Threads, connect_succeeds(t) \/ connect_retried(t)
      PROVE  TTypeOK'
  <2>1. CASE connect_succeeds(t)
    BY <2>1 DEF connect_succeeds
  <2>2. CASE connect_retried(t)
    BY <2>2 DEF connect_retried
  <2>3. QED
    BY <1>4, <2>1, <2>2
<1>5. ASSUME NEW t \in Threads, connect_fails(t) \/ connect_throws(t) \/ callback_calls_again(t)
      PROVE  TTypeOK'
  BY <1>5 DEF connect_fails, connect_throws, callback_calls_again
<1>6. ASSUME NEW t \in Threads, on_connect_success(t) \/ start_throws(t)
      PROVE  TTypeOK'
  BY <1>6 DEF on_connect_success, start_throws
<1>7. ASSUME NEW t \in Threads, write_succeeds(t) \/ write_dropped(t) \/ write_fails(t)
      PROVE  TTypeOK'
  BY <1>7 DEF write_succeeds, write_dropped, write_fails
<1>8. ASSUME NEW t \in Threads, write_error_closes(t)
      PROVE  TTypeOK'
  BY <1>8 DEF write_error_closes
<1>9. ASSUME NEW s \in SUBSET Calls, on_read(s)
      PROVE  TTypeOK'
  BY <1>9 DEF on_read
<1>10. ASSUME NEW c \in Calls, on_message(c)
      PROVE  TTypeOK'
  BY <1>10 DEF on_message
<1>11. ASSUME NEW k \in Conns, on_read_error(k)
      PROVE  TTypeOK'
  BY <1>11 DEF on_read_error
<1>12. CASE start \/ bad_message \/ read_error_closes
  <2>1. CASE start
    BY <2>1 DEF start
  <2>2. CASE bad_message
    BY <2>2 DEF bad_message
  <2>3. CASE read_error_closes
    BY <2>3 DEF read_error_closes
  <2>4. QED
    BY <1>12, <2>1, <2>2, <2>3
<1>13. CASE deadline \/ on_timeout \/ on_timeout_closes \/ on_timeout_fails
  <2>1. CASE deadline
    BY <2>1 DEF deadline
  <2>2. CASE on_timeout
    BY <2>2 DEF on_timeout
  <2>3. CASE on_timeout_closes
    BY <2>3 DEF on_timeout_closes
  <2>4. CASE on_timeout_fails
    BY <2>4 DEF on_timeout_fails
  <2>5. QED
    BY <1>13, <2>1, <2>2, <2>3, <2>4
<1>14. ASSUME NEW c \in Calls, NEW kind \in Answers, tcp_answers(c, kind)
      PROVE  TTypeOK'
  BY <1>14 DEF tcp_answers
<1>15. CASE peer_closes
  BY <1>15 DEF peer_closes
<1>16. CASE UNCHANGED tcpVars
  BY <1>16
<1>17. CASE \/ message_done \/ on_timeout_done \/ tcp_timer \/ UNCHANGED tcpAll
            \/ \E p \in Procs : tcp_settle(p)
  BY <1>16, <1>17 DEF message_done, on_timeout_done, tcp_timer, tcp_settle, tcpAll
<1>18. QED
  BY <1>2, <1>3, <1>4, <1>5, <1>6, <1>7, <1>8, <1>9, <1>10, <1>11, <1>12, <1>13, <1>14, <1>15,
     <1>17
  DEF TNext, Connect, Sending, Reading

-----------------------------------------------------------------------------
(* connect(), and the reads *)

\* The steps that leave the socket, the reads and send_data() alone.
Elsewhere == UNCHANGED <<sock, conn, reads, reading, at, owner, m_connecting, meddled>>

LEMMA ElsewhereSteps ==
    ASSUME \/ \E t \in Threads : tcp_call(t)
           \/ \E c \in Calls : on_message(c)
           \/ \E c \in Calls, kind \in Answers : tcp_answers(c, kind)
           \/ \E p \in Procs : tcp_settle(p)
           \/ message_done \/ tcp_timer \/ deadline \/ peer_closes
           \/ on_timeout \/ on_timeout_fails \/ on_timeout_done
           \/ UNCHANGED tcpAll
    PROVE  Elsewhere
<1> USE DEF Elsewhere, socketVars, readVars, sendVars, logVars, tcpVars
<1>1. CASE \E t \in Threads : tcp_call(t)
  BY <1>1 DEF tcp_call
<1>2. CASE message_done \/ on_timeout_done \/ tcp_timer \/ \E p \in Procs : tcp_settle(p)
  BY <1>2 DEF message_done, on_timeout_done, tcp_timer, tcp_settle
<1>3. CASE UNCHANGED tcpAll
  BY <1>3 DEF tcpAll
<1>4. CASE deadline \/ on_timeout \/ on_timeout_fails \/ peer_closes \/ \E c \in Calls : on_message(c)
  BY <1>4 DEF deadline, on_timeout, on_timeout_fails, peer_closes, on_message
<1>5. CASE \E c \in Calls, kind \in Answers : tcp_answers(c, kind)
  BY <1>5 DEF tcp_answers
<1>6. QED
  BY <1>1, <1>2, <1>3, <1>4, <1>5

\* The mutex is taken before connect() and given back on every way out of it.
LEMMA OneConnectStep == TTypeOK /\ OneConnect /\ [TNext]_tcpAll => OneConnect'
<1> SUFFICES ASSUME TTypeOK, OneConnect, [TNext]_tcpAll PROVE OneConnect'
  OBVIOUS
<1> DEFINE Holding == {"connect", "connect_failed", "callback", "start"}
<1>0. at \in [Threads -> Ats]
  BY DEF TTypeOK, Ats
<1> USE <1>0 DEF OneConnect, Ats, timerVars, socketVars, readVars, sendVars, logVars
<1>1. CASE Elsewhere
  BY <1>1 DEF Elsewhere
<1>2. ASSUME NEW t \in Threads, lock(t)
      PROVE  OneConnect'
  <2>1. CASE is_open
    BY <1>2, <2>1 DEF lock
  <2>2. CASE ~is_open
    <3>1. /\ at[t] = "out" /\ owner = {} /\ sock' = "open" /\ owner' = {t} /\ m_connecting' = 1
          /\ at' = [at EXCEPT ![t] = "connect"]
      BY <1>2, <2>2 DEF lock
    <3>2. \A u \in Threads \ {t} : at'[u] = at[u] /\ at[u] \notin Holding
      BY <3>1
    <3>3. QED
      BY <3>1, <3>2
  <2>3. QED
    BY <2>1, <2>2
<1>3. ASSUME NEW t \in Threads, connect_succeeds(t) \/ connect_retried(t) \/ connect_fails(t)
      PROVE  OneConnect'
  BY <1>3 DEF connect_succeeds, connect_retried, connect_fails
<1>4. ASSUME NEW t \in Threads, connect_throws(t) \/ on_connect_success(t) \/ start_throws(t)
                                \/ callback_calls_again(t)
      PROVE  OneConnect'
  BY <1>4 DEF connect_throws, on_connect_success, start_throws, callback_calls_again
<1>5. ASSUME NEW t \in Threads,
             write_succeeds(t) \/ write_dropped(t) \/ write_fails(t) \/ write_error_closes(t)
      PROVE  OneConnect'
  BY <1>5 DEF write_succeeds, write_dropped, write_fails, write_error_closes, close
<1>6. CASE read_error_closes \/ on_timeout_closes
  BY <1>6 DEF read_error_closes, on_timeout_closes, close
<1>7. CASE start \/ bad_message \/ (\E s \in SUBSET Calls : on_read(s)) \/ \E k \in Conns : on_read_error(k)
  BY <1>7 DEF start, bad_message, on_read, on_read_error
<1>8. QED
  BY <1>1, <1>2, <1>3, <1>4, <1>5, <1>6, <1>7, ElsewhereSteps DEF TNext, Connect, Sending, Reading

LEMMA NeverDeafStep == TTypeOK /\ NeverDeaf /\ [TNext]_tcpAll => NeverDeaf'
<1> SUFFICES ASSUME TTypeOK, NeverDeaf, [TNext]_tcpAll PROVE NeverDeaf'
  OBVIOUS
<1>0. /\ at \in [Threads -> Ats]
      /\ conn \in Conns /\ reads \in [Conns -> Nat]
  BY DEF TTypeOK, Ats
<1> USE <1>0 DEF NeverDeaf, Ats, timerVars, socketVars, readVars, sendVars, logVars
<1>1. CASE Elsewhere
  BY <1>1 DEF Elsewhere
<1>2. ASSUME NEW t \in Threads, lock(t) \/ connect_retried(t) \/ connect_fails(t) \/ connect_throws(t)
                                \/ callback_calls_again(t)
      PROVE  NeverDeaf'
  BY <1>2 DEF lock, connect_retried, connect_fails, connect_throws, callback_calls_again
<1>3. ASSUME NEW t \in Threads, connect_succeeds(t) \/ on_connect_success(t) \/ start_throws(t)
      PROVE  NeverDeaf'
  BY <1>3 DEF connect_succeeds, on_connect_success, start_throws, is_open
<1>4. ASSUME NEW t \in Threads,
             write_succeeds(t) \/ write_dropped(t) \/ write_fails(t) \/ write_error_closes(t)
      PROVE  NeverDeaf'
  BY <1>4 DEF write_succeeds, write_dropped, write_fails, write_error_closes, close
<1>5. CASE read_error_closes \/ on_timeout_closes
  BY <1>5 DEF read_error_closes, on_timeout_closes, close
<1>6. CASE start \/ bad_message \/ (\E s \in SUBSET Calls : on_read(s)) \/ \E k \in Conns : on_read_error(k)
  BY <1>6 DEF start, bad_message, on_read, on_read_error
<1>7. QED
  BY <1>1, <1>2, <1>3, <1>4, <1>5, <1>6, ElsewhereSteps DEF TNext, Connect, Sending, Reading

\* As long as only the strand closes the socket: it is open during connect();
\* there is one read or one on_read() at work and it belongs to the connection
\* there is now, none before on_connect_success() has started it.
CleanInv ==
    ~meddled =>
        /\ \A t \in Threads : /\ at[t] = "connect" => sock = "open"
                              /\ at[t] = "start" => sock = "up"
        /\ \A k \in Conns \ {conn} : reads[k] = 0
        /\ reads[conn] + (IF reading = "messages" THEN 1 ELSE 0) <= 1
        /\ reading = "error" => reads[conn] = 0
        /\ sock # "up" \/ (\E t \in Threads : at[t] = "start") =>
              reading = "idle" /\ reads[conn] = 0

LEMMA CleanStep == TTypeOK /\ OneConnect /\ CleanInv /\ [TNext]_tcpAll => CleanInv'
<1> SUFFICES ASSUME TTypeOK, OneConnect, CleanInv, [TNext]_tcpAll, ~meddled' PROVE CleanInv'
  BY DEF CleanInv
<1>0. /\ at \in [Threads -> Ats]
      /\ conn \in Conns /\ conn \in Nat /\ reads \in [Conns -> Nat]
      /\ sock \in {"closed", "open", "up"} /\ reading \in {"idle", "messages", "error"}
  BY DEF TTypeOK, Conns, Ats
<1> USE <1>0 DEF CleanInv, Ats, timerVars, socketVars, readVars, sendVars, logVars
<1>1. CASE Elsewhere
  BY <1>1 DEF Elsewhere
<1>2. ASSUME NEW t \in Threads, lock(t)
      PROVE  CleanInv'
  <2>1. CASE is_open
    BY <1>2, <2>1 DEF lock
  <2>2. CASE ~is_open
    <3>1. /\ owner = {} /\ sock = "closed" /\ sock' = "open" /\ conn' \in Conns
          /\ at' = [at EXCEPT ![t] = "connect"] /\ UNCHANGED <<reads, reading, meddled>>
      BY <1>2, <2>2, SocketTypes DEF lock, is_open
    <3>2. \A u \in Threads \ {t} : at'[u] = at[u] /\ at[u] # "start"
      BY <3>1 DEF OneConnect
    <3>3. reading = "idle" /\ \A k \in Conns : reads[k] = 0
      BY <3>1
    <3>4. QED
      BY <3>1, <3>2, <3>3
  <2>3. QED
    BY <2>1, <2>2
<1>3. ASSUME NEW t \in Threads, connect_retried(t)
      PROVE  CleanInv'
  BY <1>3 DEF connect_retried, opened, is_open
<1>4. ASSUME NEW t \in Threads, connect_succeeds(t) \/ connect_fails(t) \/ connect_throws(t)
      PROVE  CleanInv'
  <2>1. /\ UNCHANGED <<conn, reads, reading, meddled>>
        /\ sock' = IF connect_succeeds(t) THEN "up" ELSE IF connect_fails(t) THEN "closed" ELSE sock
        /\ \A u \in Threads \ {t} : at'[u] = at[u]
    BY <1>4 DEF connect_succeeds, connect_fails, connect_throws
  <2>2. owner = {t} /\ \A u \in Threads \ {t} : at[u] \notin {"connect", "start"}
    BY <1>4 DEF connect_succeeds, connect_fails, connect_throws, OneConnect
  <2>3. at'[t] = IF connect_succeeds(t) THEN "start"
                 ELSE IF connect_fails(t) THEN "connect_failed" ELSE "out"
    BY <1>4 DEF connect_succeeds, connect_fails, connect_throws
  <2>4. connect_succeeds(t) \/ connect_fails(t) => at[t] = "connect" /\ sock = "open"
    BY <2>1 DEF connect_succeeds, connect_fails
  <2>5. QED
    BY <2>1, <2>2, <2>3, <2>4
<1>5. ASSUME NEW t \in Threads, on_connect_success(t)
      PROVE  CleanInv'
  <2>1. /\ at[t] = "start" /\ at' = [at EXCEPT ![t] = "write"]
        /\ reads' = [reads EXCEPT ![conn] = @ + 1] /\ UNCHANGED <<sock, conn, reading, meddled>>
    BY <1>5 DEF on_connect_success
  <2>2. \A u \in Threads \ {t} : at[u] \notin {"connect", "start"}
    BY <2>1 DEF OneConnect
  <2>3. reading = "idle" /\ reads[conn] = 0 /\ sock = "up"
    BY <2>1
  <2>4. QED
    BY <2>1, <2>2, <2>3
<1>6. ASSUME NEW t \in Threads, start_throws(t)
      PROVE  FALSE
  BY <1>6 DEF start_throws, is_open
<1>7. ASSUME NEW t \in Threads, write_succeeds(t) \/ write_dropped(t) \/ write_fails(t)
                                \/ callback_calls_again(t)
      PROVE  CleanInv'
  BY <1>7 DEF write_succeeds, write_dropped, write_fails, callback_calls_again
<1>8. ASSUME close(TRUE), UNCHANGED <<reads, reading>>,
             \A u \in Threads : at'[u] \in {"connect", "start"} => at'[u] = at[u]
      PROVE  CleanInv'
  <2>1. ~meddled /\ sock = "closed" /\ UNCHANGED <<sock, conn>>
    BY <1>8, Zenon DEF close, is_open
  <2>2. QED
    BY <1>8, <2>1
<1>9. ASSUME NEW t \in Threads, write_error_closes(t)
      PROVE  CleanInv'
  BY <1>8, <1>9 DEF write_error_closes
<1>10. CASE on_timeout_closes
  BY <1>8, <1>10 DEF on_timeout_closes
<1>11. CASE read_error_closes
  <2>1. reading = "error" /\ reading' = "idle" /\ sock' = "closed" /\ UNCHANGED <<conn, reads, at>>
        /\ ~meddled
    BY <1>11 DEF read_error_closes, close
  <2>2. QED
    BY <2>1
<1>12. CASE start \/ bad_message \/ \E s \in SUBSET Calls : on_read(s)
  BY <1>12 DEF start, bad_message, on_read
<1>13. ASSUME NEW k \in Conns, on_read_error(k)
      PROVE  CleanInv'
  BY <1>13 DEF on_read_error, StrandIdle
<1>14. QED
  BY <1>1, <1>2, <1>3, <1>4, <1>5, <1>6, <1>7, <1>9, <1>10, <1>11, <1>12, <1>13, ElsewhereSteps
  DEF TNext, Connect, Sending, Reading

-----------------------------------------------------------------------------
(* Requests of a connection that is gone *)

\* While an error is being reported the table holds late requests only: it was
\* emptied when that began.  So whoever closes the socket leaves no request
\* behind that was written to it, other than late ones; on_timeout() does, and
\* is about to empty the table.
OrphanInv ==
    /\ \A c \in Calls : wrote[c] # 0 => Inserted(c)
    /\ ErrorUnderWay => Futures(m_map) \subseteq late
    /\ failing # "report" =>
          \A c \in Futures(m_map) \ late : wrote[c] # 0 => wrote[c] = conn /\ is_open

\* The table loses entries, and what is left is as it was, is all late, or has
\* not been written.
LEMMA OrphanKept ==
    ASSUME OrphanInv, Futures(m_map') \subseteq Futures(m_map), late' = late, wrote' = wrote,
           \A c \in Calls : Inserted(c) => Inserted(c)',
           \/ Futures(m_map) \subseteq late
           \/ /\ ErrorUnderWay' => ErrorUnderWay
              /\ \/ failing' = "report"
                 \/ failing # "report" /\ (is_open => conn' = conn /\ is_open')
    PROVE  OrphanInv'
<1>1. \A c \in Calls : wrote'[c] # 0 => Inserted(c)'
  BY DEF OrphanInv
<1>2. ErrorUnderWay' => Futures(m_map)' \subseteq late'
  BY DEF OrphanInv, Futures
<1>3. failing' # "report" =>
        \A c \in Futures(m_map)' \ late' : wrote'[c] # 0 => wrote'[c] = conn' /\ is_open'
  BY DEF OrphanInv, Futures
<1>4. QED
  BY <1>1, <1>2, <1>3 DEF OrphanInv

\* take_all() leaves nothing.
LEMMA OrphanCleared ==
    ASSUME OrphanInv, NEW p, take_all(p), wrote' = wrote,
           \A c \in Calls : Inserted(c) => Inserted(c)'
    PROVE  OrphanInv'
<1>1. Futures(m_map)' = {}
  BY DEF take_all, after_take_all, Futures
<1>2. QED
  BY <1>1 DEF OrphanInv

\* No error begins.
LEMMA NoNewError ==
    ASSUME reading' # "error" \/ reading' = reading,
           \A t \in Threads : at'[t] = "write_failed" => at'[t] = at[t]
    PROVE  ErrorUnderWay' => ErrorUnderWay
  BY DEF ErrorUnderWay

\* take() and reqtable::step_timeout() add nothing to the table.
LEMMA TableShrinks ==
    ASSUME TypeOK,
           \/ \E r \in Readers, c \in Calls : on_response(r, c)
           \/ step_timer_handler
           \/ UNCHANGED m_map
    PROVE  Futures(m_map') \subseteq Futures(m_map)
<1>1. ASSUME NEW r \in Readers, NEW c \in Calls, on_response(r, c)
      PROVE  Futures(m_map') \subseteq Futures(m_map)
  <2>1. m_map' = [m_map EXCEPT ![msgid[c]] = NoFuture]
    BY <1>1 DEF on_response, after_take
  <2>2. QED
    BY <2>1 DEF Futures, TypeOK
<1>2. CASE step_timer_handler
  <2>1. m_map' = [i \in DOMAIN m_map |->
                    IF m_map[i] \in timed_out(m_map, f_timeout) THEN NoFuture ELSE m_map[i]]
    BY <1>2 DEF step_timer_handler, after_step_timeout
  <2>2. QED
    BY <2>1 DEF Futures
<1>3. QED
  BY <1>1, <1>2

\* A request that is inserted while an error is being reported is late.
LEMMA OrphanInsert ==
    ASSUME IInv, TTypeOK, OrphanInv, NEW t \in Threads, tcp_call(t),
           \A c \in Calls : Inserted(c) => Inserted(c)'
    PROVE  OrphanInv'
<1>1. UNCHANGED <<reading, at, sock, conn, wrote, failing>>
  BY DEF tcp_call, readVars, sendVars, socketVars, timerVars
<1>2. ErrorUnderWay' => ErrorUnderWay
  BY <1>1, NoNewError
<1>3. is_open' = is_open
  BY <1>1 DEF is_open
<1>4. CASE send_request_impl(t) /\ late' = IF ErrorUnderWay THEN late \cup {cur[t]} ELSE late
  <2>1. cur[t] \in Calls /\ ~Inserted(cur[t])
    BY <1>4 DEF send_request_impl, IInv, ControlInv, Inserted
  <2>2. wrote[cur[t]] = 0
    BY <2>1 DEF OrphanInv
  <2>3. Futures(m_map') \subseteq Futures(m_map) \cup {cur[t]}
    BY <1>4 DEF send_request_impl, insert, Futures, IInv, TypeOK
  <2>4. \A c \in Calls : wrote'[c] # 0 => Inserted(c)'
    BY <1>1 DEF OrphanInv
  <2>5. ErrorUnderWay' => Futures(m_map)' \subseteq late'
    BY <1>2, <1>4, <2>3 DEF OrphanInv, Futures
  <2>6. failing' # "report" =>
          \A c \in Futures(m_map)' \ late' : wrote'[c] # 0 => wrote'[c] = conn' /\ is_open'
    BY <1>1, <1>3, <1>4, <2>2, <2>3 DEF OrphanInv, Futures
  <2>7. QED
    BY <2>4, <2>5, <2>6 DEF OrphanInv
<1>5. CASE UNCHANGED <<m_map, late>>
  BY <1>1, <1>2, <1>3, <1>5, OrphanKept
<1>6. QED
  BY <1>4, <1>5 DEF tcp_call, next_msgid, send_notify_impl, sessionVars

LEMMA OrphanStep == IInv /\ TTypeOK /\ OrphanInv /\ [TNext]_tcpAll => OrphanInv'
<1> SUFFICES ASSUME IInv, TTypeOK, OrphanInv, [TNext]_tcpAll PROVE OrphanInv'
  OBVIOUS
<1>0. \A c \in Calls : Inserted(c) => Inserted(c)'
  BY TcpStep, CoreSteps, BirthFacts DEF IInv
<1>1. /\ at \in [Threads -> Ats]
      /\ pc \in [Procs -> Pcs] /\ cur \in [Threads -> Calls \cup {NoFuture}]
      /\ Threads \subseteq Procs /\ ConnectTimer \notin Threads
      /\ ConnectTimer \in Procs /\ Strand \in Procs /\ Timer \in Procs
      /\ ConnectTimer # Strand /\ ConnectTimer # Timer /\ TypeOK
      /\ Strand \in Readers /\ ConnectTimer \in Readers
  BY TcpAssumption, SessionAssumption, ProcsFacts DEF TTypeOK, IInv, TypeOK, Ats
<1> USE <1>0, <1>1 DEF timerVars, socketVars, readVars, sendVars, logVars, tcpVars
\* Errors begin.
<1>2. ASSUME NEW t \in Threads, connect_fails(t) \/ write_fails(t)
      PROVE  OrphanInv'
  BY <1>2, OrphanCleared
  DEF connect_fails, write_fails, on_connect_failed, on_system_error_in_send, on_send_error
<1>3. ASSUME bad_message \/ on_timeout_fails \/ \E k \in Conns : on_read_error(k)
      PROVE  OrphanInv'
  BY <1>3, OrphanCleared DEF bad_message, on_timeout_fails, on_read_error, on_system_error
\* Errors end in close().
<1>4. ASSUME \/ read_error_closes \/ \E t \in Threads : write_error_closes(t)
      PROVE  OrphanInv'
  <2>1. ErrorUnderWay
    BY <1>4 DEF ErrorUnderWay, read_error_closes, write_error_closes
  <2>2. UNCHANGED <<m_map, wrote, late, failing>>
    BY <1>4
    DEF read_error_closes, write_error_closes, handler_done, send_failed, sessionVars
  <2>3. QED
    BY <2>1, <2>2, OrphanKept DEF OrphanInv
\* connect() of the socket, or the end of one.
<1>5. ASSUME NEW t \in Threads,
             lock(t) \/ connect_succeeds(t) \/ connect_retried(t) \/ on_connect_success(t)
      PROVE  OrphanInv'
  <2>1. UNCHANGED <<vars, wrote, late, reading, failing>>
    BY <1>5 DEF lock, connect_succeeds, connect_retried, on_connect_success
  <2>2. \A u \in Threads : at'[u] = "write_failed" => at'[u] = at[u]
    BY <1>5 DEF lock, connect_succeeds, connect_retried, on_connect_success
  <2>3. is_open => conn' = conn /\ is_open'
    BY <1>5 DEF lock, connect_succeeds, connect_retried, on_connect_success, opened, is_open
  <2>4. UNCHANGED m_map
    BY <2>1 DEF vars, sessionVars
  <2>5. QED
    BY <2>1, <2>2, <2>3, <2>4, NoNewError, OrphanKept
\* send_data() is over.
<1>6. ASSUME NEW t \in Threads,
             connect_throws(t) \/ start_throws(t) \/ write_dropped(t) \/ write_succeeds(t)
      PROVE  OrphanInv'
  <2>1. UNCHANGED <<m_map, late, reading, sock, conn, failing>>
    BY <1>6
    DEF connect_throws, start_throws, write_dropped, write_succeeds, send_failed, send_throws,
        send_dropped, send_written, sessionVars
  <2>2. at' = [at EXCEPT ![t] = "out"]
    BY <1>6 DEF connect_throws, start_throws, write_dropped, write_succeeds
  <2>3. ErrorUnderWay' => ErrorUnderWay
    BY <2>1, <2>2, NoNewError
  <2>4. is_open' = is_open
    BY <2>1 DEF is_open
  <2>5. CASE wrote' = wrote
    BY <2>1, <2>3, <2>4, <2>5, OrphanKept
  <2>6. CASE write_succeeds(t)
    <3>1. pc[t] = "send" /\ sock = "up"
          /\ wrote' = [c \in Calls |-> IF c = cur[t] THEN conn ELSE wrote[c]]
      BY <2>6 DEF write_succeeds, send_written
    <3>2. cur[t] \in Calls => Inserted(cur[t])
      BY <3>1, SessionAssumption DEF IInv, ControlInv
    <3>3. \A c \in Calls : wrote'[c] # 0 => Inserted(c)'
      BY <3>1, <3>2 DEF OrphanInv
    <3>4. Futures(m_map) \subseteq Calls
      BY FuturesType
    <3>5. failing' # "report" =>
            \A c \in Futures(m_map)' \ late' : wrote'[c] # 0 => wrote'[c] = conn' /\ is_open'
      BY <2>1, <2>4, <3>1, <3>4 DEF OrphanInv, is_open, Futures
    <3>6. ErrorUnderWay' => Futures(m_map)' \subseteq late'
      BY <2>1, <2>3 DEF OrphanInv, Futures
    <3>7. QED
      BY <3>3, <3>5, <3>6 DEF OrphanInv
  <2>7. QED
    BY <1>6, <2>5, <2>6 DEF connect_throws, start_throws, write_dropped
<1>7. ASSUME NEW t \in Threads, tcp_call(t)
      PROVE  OrphanInv'
  BY <1>7, OrphanInsert
\* The others.
<1>8. ASSUME UNCHANGED <<sock, conn, wrote, late>>,
             reading' # "error" \/ reading' = reading,
             \A u \in Threads : at'[u] = "write_failed" => at'[u] = at[u],
             failing' = failing \/ (failing = "no" /\ failing' # "report"),
             Futures(m_map') \subseteq Futures(m_map)
      PROVE  OrphanInv'
  <2>1. ErrorUnderWay' => ErrorUnderWay
    BY <1>8, NoNewError
  <2>2. is_open' = is_open
    BY <1>8 DEF is_open
  <2>3. QED
    BY <1>8, <2>1, <2>2, OrphanKept
<1>9. ASSUME NEW c \in Calls, on_message(c)
      PROVE  OrphanInv'
  <2>1. Futures(m_map') \subseteq Futures(m_map)
    BY <1>9, TableShrinks DEF on_message
  <2>2. QED
    BY <1>8, <1>9, <2>1 DEF on_message, on_response
<1>10. CASE tcp_timer
  <2>1. Futures(m_map') \subseteq Futures(m_map)
    BY <1>10, TableShrinks DEF tcp_timer, handler_done, sessionVars
  <2>2. QED
    BY <1>8, <1>10, <2>1 DEF tcp_timer, step_timer_handler, handler_done
<1>11. CASE message_done \/ on_timeout_done \/ (\E p \in Procs : tcp_settle(p))
            \/ \E t \in Threads : callback_calls_again(t)
  BY <1>8, <1>11
  DEF message_done, on_timeout_done, tcp_settle, callback_calls_again, handler_done, Settle, settle,
      sessionVars
<1>12. CASE start \/ deadline \/ on_timeout \/ peer_closes \/ UNCHANGED tcpAll
            \/ \E s \in SUBSET Calls : on_read(s)
  BY <1>8, <1>12
  DEF start, deadline, on_timeout, peer_closes, on_read, tcpAll, vars, sessionVars, procVars
<1>13. ASSUME NEW c \in Calls, NEW kind \in Answers, tcp_answers(c, kind)
      PROVE  OrphanInv'
  BY <1>8, <1>13 DEF tcp_answers, peer_answers, sessionVars, procVars
\* on_timeout() closes the socket first and reports then.
<1>14. CASE on_timeout_closes
  <2>1. UNCHANGED <<m_map, wrote, late, reading, at>> /\ failing' = "report"
    BY <1>14 DEF on_timeout_closes, vars, sessionVars
  <2>2. ErrorUnderWay' => ErrorUnderWay
    BY <2>1, NoNewError
  <2>3. QED
    BY <2>1, <2>2, OrphanKept
<1>15. QED
  BY <1>2, <1>3, <1>4, <1>5, <1>6, <1>7, <1>9, <1>10, <1>11, <1>12, <1>13, <1>14
  DEF TNext, Connect, Sending, Reading

-----------------------------------------------------------------------------
(* The theorems *)

TcpInv == TTypeOK /\ OneConnect /\ NeverDeaf /\ CleanInv /\ OrphanInv

LEMMA TcpInvInit == TInit => TcpInv
<1> SUFFICES ASSUME TInit PROVE TcpInv
  OBVIOUS
<1>1. TTypeOK
  <2>1. TypeOK /\ 0 \in Conns
    BY TypeInit, TcpAssumption DEF TInit, Conns
  <2>2. /\ sock \in {"closed", "open", "up"} /\ conn \in Conns /\ inbox \subseteq Calls
        /\ wrote \in [Calls -> Conns] /\ owner \subseteq Threads /\ failing \in {"no", "close", "report"}
        /\ m_connecting \in 0 .. (IF reconnect_limit = 0 THEN 1 ELSE reconnect_limit)
        /\ at \in [Threads -> Ats]
        /\ queued \in Nat /\ reads \in [Conns -> Nat] /\ reading \in {"idle", "messages", "error"}
        /\ batch \subseteq Calls /\ late \subseteq Calls
    BY <2>1, TcpAssumption DEF TInit, Ats
  <2>3. peer_up \in BOOLEAN /\ armed \in BOOLEAN /\ due \in BOOLEAN
        /\ meddled \in BOOLEAN
    BY DEF TInit
  <2>4. QED
    BY <2>1, <2>2, <2>3 DEF TTypeOK, Ats
<1>2. OneConnect /\ NeverDeaf
  BY TcpAssumption DEF TInit, OneConnect, NeverDeaf
<1>3. CleanInv
  BY TcpAssumption DEF TInit, CleanInv, Conns
<1>4. OrphanInv
  BY DEF TInit, Init, OrphanInv, Futures
<1>5. QED
  BY <1>1, <1>2, <1>3, <1>4 DEF TcpInv

\* The inductive invariant of a session over TCP, beside that of the session.
THEOREM TcpInvariance == TSafety => [](IInv /\ TcpInv)
<1>1. IInv /\ TcpInv /\ [TNext]_tcpAll => TcpInv'
  BY TcpTypeStep, OneConnectStep, NeverDeafStep, CleanStep, OrphanStep DEF TcpInv
<1>2. QED
  BY <1>1, TcpInvInit, TcpImplementsSession, Invariance, PTL DEF TSafety

\* Every variable of client_transport and stream_handler keeps its type, and
\* connect() tries no more often than the limit, but once at least.
THEOREM TcpTypeCorrect == TSafety => []TTypeOK
<1>1. TcpInv => TTypeOK
  BY DEF TcpInv
<1>2. QED
  BY <1>1, TcpInvariance, PTL

\* client_transport::mutex lets one thread at a time into connect(), and only it
\* leaves the socket half open.
THEOREM OneConnectAtATime == TSafety => []OneConnect
<1>1. TcpInv => OneConnect
  BY DEF TcpInv
<1>2. QED
  BY <1>1, TcpInvariance, PTL

\* Whoever closes and opens the socket, and whichever reads are left over from
\* earlier connections, a connection is being read.
THEOREM AlwaysReading == TSafety => []NeverDeaf
<1>1. TcpInv => NeverDeaf
  BY DEF TcpInv
<1>2. QED
  BY <1>1, TcpInvariance, PTL

\* While only the strand has closed sockets, a connection has one reader and no
\* read of an earlier connection is left that could close it.
THEOREM CleanStart == TSafety => []CleanReconnect
<1>1. TcpInv => CleanReconnect
  BY DEF TcpInv, CleanInv, CleanReconnect
<1>2. QED
  BY <1>1, TcpInvariance, PTL

\* A request that is in the table although its connection is gone and every
\* error has been reported was inserted while one was being reported.
THEOREM Orphans == TSafety => []OrphansAreLate
<1>1. TcpInv => OrphansAreLate
  BY DEF TcpInv, OrphanInv, OrphansAreLate, Orphan
<1>2. QED
  BY <1>1, TcpInvariance, PTL
=============================================================================
