-------------------------- MODULE UdpClientProofs --------------------------
(***************************************************************************)
(* A session over UDP is a Session, for any number of threads, calls and   *)
(* incarnations of the socket and whatever the network loses, repeats or   *)
(* reorders.  What SessionProofs proves therefore holds over UDP.          *)
(*                                                                         *)
(* The socket itself is proved about below that.  That a socket in use is  *)
(* listened to (DeafAfterError) is inductive once the types are known.     *)
(* That there is one receive at a time (OneReceive) is not: it depends on  *)
(* where the one thread that connects is, which OneConnecting adds.        *)
(***************************************************************************)
EXTENDS UdpClient, SessionProofs

LEMMA UdpStep == [UNext]_udpAll => [Next]_vars
<1> SUFFICES ASSUME [UNext]_udpAll PROVE [Next]_vars
  OBVIOUS
<1> USE UdpAssumption, ProcsFacts
\* The steps of a thread.
<1>1. ASSUME NEW t \in Threads, udp_call(t)
      PROVE  Next
  BY <1>1 DEF udp_call, Next, Call
<1>2. ASSUME NEW t \in Threads,
             \/ send_data(t) \/ connect_opens(t) \/ connect_succeeds(t) \/ connect_fails(t)
             \/ start(t) \/ send_test_passes(t)
      PROVE  UNCHANGED vars
  BY <1>2 DEF send_data, connect_opens, connect_succeeds, connect_fails, start, send_test_passes
<1>3. ASSUME NEW t \in Threads,
             start_throws(t) \/ send_test_drops(t) \/ send_to(t) \/ send_to_throws(t)
      PROVE  Next
  <2>1. Send(t)
    BY <1>3 DEF start_throws, send_test_drops, send_to, send_to_throws, Send
  <2>2. QED
    BY <2>1 DEF Next
\* The steps of the strand.
<1>4. ASSUME NEW c \in Calls, on_message(c)
      PROVE  Next
  BY <1>4 DEF on_message, Next, Respond
<1>5. CASE message_done
  BY <1>5 DEF message_done, Next
<1>6. ASSUME \/ \E c \in Calls, kept \in BOOLEAN : on_read(c, kept)
             \/ read_again \/ on_notify \/ bad_message \/ \E k \in Conns : on_read_error(k)
      PROVE  UNCHANGED vars
  BY <1>6 DEF on_read, read_again, on_notify, bad_message, on_read_error
\* The peer, the network and the rest of the session.
<1>7. ASSUME NEW c \in Calls, NEW kind \in Answers, udp_answers(c, kind)
      PROVE  Next
  BY <1>7 DEF udp_answers, Next, Peer
<1>8. ASSUME peer_refuses \/ \E c \in Calls : datagram_lost(c)
      PROVE  UNCHANGED vars
  BY <1>8 DEF peer_refuses, datagram_lost
<1>9. ASSUME NEW p \in Procs, udp_settle(p)
      PROVE  Next
  BY <1>9 DEF udp_settle, Next
<1>10. CASE udp_timer
  BY <1>10 DEF udp_timer, Next
<1>11. CASE UNCHANGED udpAll
  BY <1>11 DEF udpAll
<1>12. QED
  BY <1>1, <1>2, <1>3, <1>4, <1>5, <1>6, <1>7, <1>8, <1>9, <1>10, <1>11
  DEF UNext, Sending, Reading

\* client_transport and dgram_handler use the session only as Session allows.
THEOREM UdpImplementsSession == USafety => Safety
<1>1. UInit => Init
  BY DEF UInit
<1>2. QED
  BY <1>1, UdpStep, PTL DEF USafety, Safety

\* Over a network that loses, repeats and reorders datagrams, too, a request is
\* completed by one handler only, it is not lost from the table, and it never
\* gets the answer to another request.
THEOREM UdpCustody == USafety => []ExclusiveCustody /\ []NoLostCall /\ []OwnReply
  BY UdpImplementsSession, Custody, NothingLost, OwnReplies, PTL

\* Over UDP, too, each call is settled at most once and for good, with its own
\* answer or a local error, as long as the ids have not wrapped around.
THEOREM UdpKeepsPromise == USafety /\ []NoWrap => P!PSafety
  BY UdpImplementsSession, Refinement, PTL

-----------------------------------------------------------------------------
(* The socket and its receives *)

Connecting == {"connect", "connecting", "start"}

\* While no two threads have met in connect(), the one thread inside knows the
\* state of the socket, and before start() nothing is received.
OneConnecting ==
    ~crowded =>
        /\ \A t, u \in Threads : at[t] \in Connecting /\ at[u] \in Connecting => t = u
        /\ \A t \in Threads :
              /\ at[t] = "connect" => sock = "closed"
              /\ at[t] = "connecting" => sock = "open"
              /\ at[t] = "start" => sock = "up" /\ reads[conn] = 0 /\ ~reading

\* A step of the session alone leaves the socket alone.
LEMMA SessionOnly ==
    ASSUME \/ \E t \in Threads : udp_call(t)
           \/ message_done \/ udp_timer \/ \E p \in Procs : udp_settle(p)
           \/ UNCHANGED udpAll
    PROVE  UNCHANGED udpVars
  BY DEF udp_call, message_done, udp_timer, udp_settle, udpAll

LEMMA UTypeInit == UInit /\ TypeOK => UTypeOK
<1> SUFFICES ASSUME UInit, TypeOK PROVE UTypeOK
  OBVIOUS
<1>1. 0 \in Conns /\ 1 \in Conns
  BY UdpAssumption DEF Conns
<1>2. reads \in [Conns -> Nat]
  BY DEF UInit
<1>3. QED
  BY <1>1, <1>2 DEF UInit, UTypeOK

\* That the session's own variables keep their types is TypeCorrect's.
LEMMA UTypeStep == UTypeOK /\ TypeOK' /\ [UNext]_udpAll => UTypeOK'
<1> SUFFICES ASSUME UTypeOK, TypeOK', [UNext]_udpAll PROVE UTypeOK'
  OBVIOUS
<1> USE UdpAssumption DEF UTypeOK, Conns
\* A thread in send_data().
<1>1. ASSUME NEW t \in Threads, send_data(t) PROVE UTypeOK'
  BY <1>1 DEF send_data, goto, is_open, netVars, readVars
<1>2. ASSUME NEW t \in Threads, connect_opens(t) PROVE UTypeOK'
  BY <1>2 DEF connect_opens, goto, is_open, readVars
<1>3. ASSUME NEW t \in Threads, connect_succeeds(t) PROVE UTypeOK'
  BY <1>3 DEF connect_succeeds, goto, readVars
<1>4. ASSUME NEW t \in Threads, connect_fails(t) PROVE UTypeOK'
  BY <1>4 DEF connect_fails, goto, readVars
<1>5. ASSUME NEW t \in Threads, start(t) PROVE UTypeOK'
  BY <1>5 DEF start, goto, netVars
<1>6. ASSUME NEW t \in Threads, start_throws(t) \/ send_test_drops(t) \/ send_test_passes(t)
      PROVE  UTypeOK'
  BY <1>6 DEF start_throws, send_test_drops, send_test_passes, goto, netVars, readVars
<1>7. ASSUME NEW t \in Threads, send_to(t) PROVE UTypeOK'
  BY <1>7 DEF send_to, goto, readVars
<1>8. ASSUME NEW t \in Threads, send_to_throws(t) PROVE UTypeOK'
  BY <1>8 DEF send_to_throws, goto, readVars
\* The strand.
<1>9. ASSUME NEW c \in Calls, NEW kept \in BOOLEAN, on_read(c, kept) PROVE UTypeOK'
  <2>1. batch' \subseteq Calls /\ rest' \subseteq Calls
    BY <1>9 DEF on_read, unpacked
  <2>2. reads' \in [Conns -> Nat] /\ inbox' \subseteq Calls /\ reading' \in BOOLEAN
    BY <1>9 DEF on_read
  <2>3. QED
    BY <1>9, <2>1, <2>2 DEF on_read
<1>10. ASSUME NEW c \in Calls, on_message(c) PROVE UTypeOK'
  BY <1>10 DEF on_message, netVars
<1>11. CASE read_again
  <2>1. reads' \in [Conns -> Nat]
    BY <1>11 DEF read_again
  <2>2. QED
    BY <1>11, <2>1 DEF read_again, netVars
<1>12. CASE on_notify \/ bad_message
  <2>1. CASE on_notify
    BY <2>1 DEF on_notify, netVars
  <2>2. CASE bad_message
    BY <2>2 DEF bad_message, netVars
  <2>3. QED
    BY <1>12, <2>1, <2>2
<1>13. ASSUME NEW k \in Conns, on_read_error(k) PROVE UTypeOK'
  BY <1>13 DEF on_read_error
\* The peer and the network.
<1>14. ASSUME NEW c \in Calls, NEW kind \in Answers, udp_answers(c, kind) PROVE UTypeOK'
  BY <1>14 DEF udp_answers, readVars
<1>15. ASSUME NEW c \in Calls, datagram_lost(c) PROVE UTypeOK'
  BY <1>15 DEF datagram_lost, readVars
<1>16. CASE peer_refuses
  BY <1>16 DEF peer_refuses, readVars
<1>17. CASE UNCHANGED udpVars
  BY <1>17 DEF udpVars, netVars, readVars
<1>18. QED
  BY <1>1, <1>2, <1>3, <1>4, <1>5, <1>6, <1>7, <1>8, <1>9, <1>10, <1>11, <1>12, <1>13,
     <1>14, <1>15, <1>16, <1>17, SessionOnly DEF UNext, Sending, Reading

\* The variables of the session, of client_transport, client_socket and
\* dgram_handler keep their types over UDP; above all msgids stay below IdSpace.
THEOREM UTypeCorrect == USafety => []UTypeOK
  BY UTypeInit, UTypeStep, UdpImplementsSession, TypeCorrect, PTL DEF USafety

-----------------------------------------------------------------------------

LEMMA DeafStep == UTypeOK /\ DeafAfterError /\ [UNext]_udpAll => DeafAfterError'
<1> SUFFICES ASSUME UTypeOK, DeafAfterError, [UNext]_udpAll PROVE DeafAfterError'
  OBVIOUS
<1> USE DEF UTypeOK, DeafAfterError, Conns
\* A thread in send_data(): going up leads to "start", and leaving "start"
\* starts a receive or finds the socket closed.
<1>1. ASSUME NEW t \in Threads, send_data(t) PROVE DeafAfterError'
  BY <1>1 DEF send_data, goto, is_open, netVars, readVars
<1>2. ASSUME NEW t \in Threads, connect_opens(t) PROVE DeafAfterError'
  BY <1>2 DEF connect_opens, goto, is_open, readVars
<1>3. ASSUME NEW t \in Threads, connect_succeeds(t) PROVE DeafAfterError'
  BY <1>3 DEF connect_succeeds, goto, readVars
<1>4. ASSUME NEW t \in Threads, connect_fails(t) PROVE DeafAfterError'
  BY <1>4 DEF connect_fails, goto, readVars
<1>5. ASSUME NEW t \in Threads, start(t) PROVE DeafAfterError'
  BY <1>5 DEF start, goto, netVars
<1>6. ASSUME NEW t \in Threads, start_throws(t) \/ send_test_drops(t) \/ send_test_passes(t)
      PROVE  DeafAfterError'
  <2>1. CASE start_throws(t)
    BY <2>1 DEF start_throws, goto, is_open, netVars, readVars
  <2>2. CASE send_test_drops(t)
    BY <2>2 DEF send_test_drops, goto, netVars, readVars
  <2>3. CASE send_test_passes(t)
    BY <2>3 DEF send_test_passes, goto, netVars, readVars
  <2>4. QED
    BY <1>6, <2>1, <2>2, <2>3
<1>7. ASSUME NEW t \in Threads, send_to(t) \/ send_to_throws(t) PROVE DeafAfterError'
  <2>1. CASE send_to(t)
    BY <2>1 DEF send_to, goto, readVars
  <2>2. CASE send_to_throws(t)
    BY <2>2 DEF send_to_throws, goto, readVars
  <2>3. QED
    BY <1>7, <2>1, <2>2
\* The strand: a receive that ends is followed by another one or has failed.
<1>8. ASSUME NEW c \in Calls, NEW kept \in BOOLEAN, on_read(c, kept) PROVE DeafAfterError'
  BY <1>8 DEF on_read
<1>9. ASSUME NEW c \in Calls, on_message(c) PROVE DeafAfterError'
  BY <1>9 DEF on_message, netVars
<1>10. CASE read_again
  BY <1>10 DEF read_again, netVars
<1>11. CASE on_notify \/ bad_message
  <2>1. CASE on_notify
    BY <2>1 DEF on_notify, netVars
  <2>2. CASE bad_message
    BY <2>2 DEF bad_message, netVars
  <2>3. QED
    BY <1>11, <2>1, <2>2
<1>12. ASSUME NEW k \in Conns, on_read_error(k) PROVE DeafAfterError'
  BY <1>12 DEF on_read_error
\* The peer and the network.
<1>13. ASSUME NEW c \in Calls, datagram_lost(c) \/ \E kind \in Answers : udp_answers(c, kind)
       PROVE  DeafAfterError'
  <2>1. UNCHANGED <<sock, conn, reads, reading, failed, at, crowded>>
    BY <1>13 DEF datagram_lost, udp_answers, readVars
  <2>2. QED
    BY <2>1
<1>14. CASE peer_refuses
  BY <1>14 DEF peer_refuses, readVars
<1>15. CASE UNCHANGED udpVars
  BY <1>15 DEF udpVars, netVars, readVars
<1>16. QED
  BY <1>1, <1>2, <1>3, <1>4, <1>5, <1>6, <1>7, <1>8, <1>9, <1>10, <1>11, <1>12, <1>13,
     <1>14, <1>15, SessionOnly DEF UNext, Sending, Reading

\* connect(), start() and on_read() never leave a connected socket without a
\* receive unless one has failed, however threads race to connect it.
THEOREM UdpListens == USafety => []DeafAfterError
<1>1. UInit => DeafAfterError
  BY UdpAssumption DEF UInit, DeafAfterError, Conns
<1>2. QED
  BY <1>1, DeafStep, UTypeCorrect, PTL DEF USafety

-----------------------------------------------------------------------------

ReceiveInv == OneReceive /\ OneConnecting

LEMMA ReceiveStep == UTypeOK /\ ReceiveInv /\ [UNext]_udpAll => ReceiveInv'
<1> SUFFICES ASSUME UTypeOK, ReceiveInv, [UNext]_udpAll PROVE ReceiveInv'
  OBVIOUS
<1> USE DEF UTypeOK, ReceiveInv, OneReceive, OneConnecting, Connecting, Conns
<1>1. ASSUME NEW t \in Threads, send_data(t) PROVE ReceiveInv'
  BY <1>1 DEF send_data, goto, is_open, netVars, readVars
<1>2. ASSUME NEW t \in Threads, connect_opens(t) PROVE ReceiveInv'
  <2> SUFFICES ASSUME ~crowded PROVE ReceiveInv'
    BY <1>2 DEF connect_opens
  <2>1. sock = "closed" /\ conn + 1 \in Conns /\ \A k \in Conns : reads[k] = 0
    BY <1>2, UdpAssumption DEF connect_opens, is_open
  <2>2. ~reading /\ ~reading'
    BY <1>2, <2>1 DEF connect_opens, readVars
  <2>3. sock' = "open" /\ conn' = conn + 1 /\ reads' = reads /\ crowded' = crowded
    BY <1>2, <2>1 DEF connect_opens, is_open, readVars
  <2>4. OneReceive'
    BY <2>1, <2>2, <2>3
  <2>5. OneConnecting'
    BY <1>2, <2>3 DEF connect_opens, goto
  <2>6. QED
    BY <2>4, <2>5
<1>3. ASSUME NEW t \in Threads, connect_succeeds(t) PROVE ReceiveInv'
  BY <1>3 DEF connect_succeeds, goto, readVars
<1>4. ASSUME NEW t \in Threads, connect_fails(t) PROVE ReceiveInv'
  BY <1>4 DEF connect_fails, goto, readVars
<1>5. ASSUME NEW t \in Threads, start(t) PROVE ReceiveInv'
  BY <1>5 DEF start, goto, netVars
<1>6. ASSUME NEW t \in Threads, start_throws(t) \/ send_test_drops(t) \/ send_test_passes(t)
      PROVE  ReceiveInv'
  <2>1. CASE start_throws(t)
    BY <2>1 DEF start_throws, goto, is_open, netVars, readVars
  <2>2. CASE send_test_drops(t)
    BY <2>2 DEF send_test_drops, goto, netVars, readVars
  <2>3. CASE send_test_passes(t)
    BY <2>3 DEF send_test_passes, goto, netVars, readVars
  <2>4. QED
    BY <1>6, <2>1, <2>2, <2>3
<1>7. ASSUME NEW t \in Threads, send_to(t) \/ send_to_throws(t) PROVE ReceiveInv'
  <2>1. CASE send_to(t)
    BY <2>1 DEF send_to, goto, readVars
  <2>2. CASE send_to_throws(t)
    BY <2>2 DEF send_to_throws, goto, readVars
  <2>3. QED
    BY <1>7, <2>1, <2>2
<1>8. ASSUME NEW c \in Calls, NEW kept \in BOOLEAN, on_read(c, kept) PROVE ReceiveInv'
  BY <1>8 DEF on_read
<1>9. ASSUME NEW c \in Calls, on_message(c) PROVE ReceiveInv'
  BY <1>9 DEF on_message, netVars
<1>10. CASE read_again
  BY <1>10 DEF read_again, netVars
<1>11. CASE on_notify \/ bad_message
  <2>1. CASE on_notify
    BY <2>1 DEF on_notify, netVars
  <2>2. CASE bad_message
    BY <2>2 DEF bad_message, netVars
  <2>3. QED
    BY <1>11, <2>1, <2>2
<1>12. ASSUME NEW k \in Conns, on_read_error(k) PROVE ReceiveInv'
  BY <1>12 DEF on_read_error
<1>13. ASSUME NEW c \in Calls, datagram_lost(c) \/ \E kind \in Answers : udp_answers(c, kind)
       PROVE  ReceiveInv'
  <2>1. UNCHANGED <<sock, conn, reads, reading, failed, at, crowded>>
    BY <1>13 DEF datagram_lost, udp_answers, readVars
  <2>2. QED
    BY <2>1
<1>14. CASE peer_refuses
  BY <1>14 DEF peer_refuses, readVars
<1>15. CASE UNCHANGED udpVars
  BY <1>15 DEF udpVars, netVars, readVars
<1>16. QED
  BY <1>1, <1>2, <1>3, <1>4, <1>5, <1>6, <1>7, <1>8, <1>9, <1>10, <1>11, <1>12, <1>13,
     <1>14, <1>15, SessionOnly DEF UNext, Sending, Reading

\* Until two threads have found the socket closed at the same time, one receive
\* at a time uses the buffer and m_remote, and a connected socket stays open.
THEOREM UdpOneReceive == USafety => []OneReceive
<1>1. UInit => ReceiveInv
  BY UdpAssumption DEF UInit, ReceiveInv, OneReceive, OneConnecting, Connecting, Conns
<1>2. ReceiveInv => OneReceive
  BY DEF ReceiveInv
<1>3. QED
  BY <1>1, <1>2, ReceiveStep, UTypeCorrect, PTL DEF USafety
=============================================================================
