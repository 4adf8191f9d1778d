-------------------------- MODULE UdpServerProofs --------------------------
(***************************************************************************)
(* Proofs about the UDP server, for any number of clients, messages,       *)
(* copies of a datagram and threads that answer.                           *)
(*                                                                         *)
(* That a response goes to the client that asked, and that even the types  *)
(* are kept (no more requests are made of a message than datagrams came),  *)
(* depends on what the network, the receive and on_read() have in hand:    *)
(* NetInv and StrandInv.  That a request is answered once depends on where *)
(* the threads are that answer it: AnswerInv.                              *)
(***************************************************************************)
EXTENDS UdpServer, TLAPS

\* A datagram on the way was sent by a client and may still be delivered; no
\* more requests are made of a message than datagrams of it were delivered.
NetInv ==
    \A q \in Requests :
        /\ of[q] = None => copies[q] = 0 /\ q \notin net
        /\ q \in net => copies[q] < MaxCopies
        /\ born[q] <= copies[q]

\* One receive at a time: while on_read() runs none is outstanding, so that
\* m_remote is the endpoint the message in hand came from, except that of a
\* message completed from another datagram.  A message that is in hand, or the
\* beginning of one, stands for a datagram no request was made of.
StrandInv ==
    /\ reading => recv = "off" /\ m_remote \in Clients
    /\ msg # None => /\ reading /\ rest = None
                     /\ born[msg] < copies[msg]
                     /\ m_remote = of[msg] \/ msg \in mixed
    /\ rest # None => born[rest] < copies[rest]
    /\ recv = "arrived" => /\ got # None /\ born[got] < copies[got]
                           /\ m_remote \in Clients /\ m_remote = of[got]

HandInv == NetInv /\ StrandInv

-----------------------------------------------------------------------------
(* Types, and what is in hand *)

LEMMA TypeInit == Init => TypeOK
<1> SUFFICES ASSUME Init PROVE TypeOK
  OBVIOUS
<1>1. 0 \in 0 .. MaxCopies
  BY UdpServerAssumption
<1>2. replies \in [Objects -> Nat]
  BY DEF Init
<1>3. QED
  BY <1>1, <1>2 DEF Init, TypeOK

\* The request on_message() makes of the message in hand is new.
LEMMA RequestType ==
    ASSUME TypeOK, HandInv, reading, msg # None
    PROVE  /\ msg \in Requests /\ request(m_remote) \in Objects
           /\ born[msg] + 1 \in 1 .. MaxCopies
<1>1. msg \in Requests /\ m_remote \in Clients /\ born[msg] < copies[msg]
  BY DEF TypeOK, HandInv, StrandInv
<1>2. born[msg] + 1 \in 1 .. MaxCopies
  BY <1>1, UdpServerAssumption DEF TypeOK
<1>3. QED
  BY <1>1, <1>2 DEF request, Objects

LEMMA TypeStep == TypeOK /\ HandInv /\ [Next]_vars => TypeOK'
<1> SUFFICES ASSUME TypeOK, HandInv, [Next]_vars PROVE TypeOK'
  OBVIOUS
<1> USE DEF TypeOK
\* Clients and the network.
<1>1. ASSUME NEW c \in Clients, NEW q \in Requests, client_sends(c, q) PROVE TypeOK'
  BY <1>1 DEF client_sends, readVars, sendVars
<1>2. ASSUME NEW q \in Requests, datagram_lost(q) PROVE TypeOK'
  BY <1>2 DEF datagram_lost, readVars, sendVars
<1>3. ASSUME NEW q \in Requests, NEW kept \in BOOLEAN, receive(q, kept) PROVE TypeOK'
  <2>1. copies[q] + 1 \in 0 .. MaxCopies
    BY <1>3, UdpServerAssumption DEF receive, HandInv, NetInv
  <2>2. copies' \in [Requests -> 0 .. MaxCopies]
    BY <1>3, <2>1 DEF receive
  <2>3. QED
    BY <1>3, <2>2 DEF receive, sendVars
<1>4. CASE receive_fails
  BY <1>4 DEF receive_fails, netVars, sendVars
\* on_read().
<1>5. ASSUME NEW m \in Requests \cup {None}, NEW r \in Requests \cup {None}, on_read(m, r)
      PROVE  TypeOK'
  BY <1>5 DEF on_read, netVars, sendVars
<1>6. CASE on_message
  <2>1. msg \in Requests /\ request(m_remote) \in Objects /\ born[msg] + 1 \in 1 .. MaxCopies
    BY <1>6, RequestType DEF on_message
  <2>2. born' \in [Requests -> 0 .. MaxCopies]
    BY <1>6, <2>1 DEF on_message
  <2>3. handed' \subseteq Objects /\ m_ms' \subseteq handed' /\ handed \subseteq handed'
    BY <1>6, <2>1 DEF on_message
  <2>4. req' \in [Threads -> handed' \cup {None}] /\ raced' \subseteq handed'
    BY <1>6, <2>3 DEF on_message
  <2>5. QED
    BY <1>6, <2>2, <2>3, <2>4 DEF on_message, netVars
<1>7. CASE on_read_throws
  BY <1>7 DEF on_read_throws, netVars, sendVars
<1>8. CASE start
  BY <1>8 DEF start, netVars, sendVars
<1>9. CASE on_read_error
  BY <1>9 DEF on_read_error, netVars, sendVars
\* Answering.
<1>10. ASSUME NEW t \in Threads, NEW o \in handed, send_data(t, o) PROVE TypeOK'
  BY <1>10 DEF send_data, netVars, readVars
<1>11. ASSUME NEW t \in Threads, send_to(t) PROVE TypeOK'
  <2>1. replies' = [replies EXCEPT ![req[t]] = @ + 1]
    BY <1>11 DEF send_to
  <2>2. \A o \in Objects : replies'[o] \in Nat
    BY <2>1
  <2>3. replies' \in [Objects -> Nat]
    BY <2>1, <2>2
  <2>4. QED
    BY <1>11, <2>3 DEF send_to, netVars, readVars
<1>12. ASSUME NEW t \in Threads, send_to_throws(t) PROVE TypeOK'
  BY <1>12 DEF send_to_throws, netVars, readVars
<1>13. ASSUME NEW t \in Threads, reset(t) PROVE TypeOK'
  BY <1>13 DEF reset, netVars, readVars
<1>14. CASE close
  BY <1>14 DEF close, netVars, readVars, sendVars
<1>15. CASE UNCHANGED vars
  BY <1>15 DEF vars, netVars, readVars, sendVars
<1>16. QED
  BY <1>1, <1>2, <1>3, <1>4, <1>5, <1>6, <1>7, <1>8, <1>9, <1>10, <1>11, <1>12, <1>13,
     <1>14, <1>15 DEF Next, Network, Reading, Answering

LEMMA HandStep == TypeOK /\ HandInv /\ [Next]_vars => HandInv'
<1> SUFFICES ASSUME TypeOK, HandInv, [Next]_vars PROVE HandInv'
  OBVIOUS
<1> USE UdpServerAssumption DEF TypeOK, HandInv, NetInv, StrandInv
<1>1. ASSUME NEW c \in Clients, NEW q \in Requests, client_sends(c, q) PROVE HandInv'
  BY <1>1 DEF client_sends, readVars, sendVars
<1>2. ASSUME NEW q \in Requests, datagram_lost(q) PROVE HandInv'
  BY <1>2 DEF datagram_lost, readVars, sendVars
\* The receive takes a datagram off the network; on_read() is not running.
<1>3. ASSUME NEW q \in Requests, NEW kept \in BOOLEAN, receive(q, kept) PROVE HandInv'
  <2>1. /\ of[q] \in Clients /\ q # None
        /\ copies'[q] = copies[q] + 1 /\ \A p \in Requests \ {q} : copies'[p] = copies[p]
    BY <1>3 DEF receive
  <2>2. /\ net' \subseteq net /\ (q \in net' => copies'[q] < MaxCopies)
    BY <1>3, <2>1 DEF receive
  <2>3. NetInv'
    BY <1>3, <2>1, <2>2 DEF receive
  <2>4. StrandInv'
    BY <1>3, <2>1 DEF receive
  <2>5. QED
    BY <2>3, <2>4
<1>4. CASE receive_fails
  BY <1>4 DEF receive_fails, netVars, sendVars
\* on_read() hands the datagram over to the unpacker, ...
<1>5. ASSUME NEW m \in Requests \cup {None}, NEW r \in Requests \cup {None}, on_read(m, r)
      PROVE  HandInv'
  <2>1. NetInv'
    BY <1>5 DEF on_read, netVars
  <2>2. StrandInv'
    BY <1>5 DEF on_read, unpacked, netVars
  <2>3. QED
    BY <2>1, <2>2
\* ... and the message to the dispatcher.
<1>6. CASE on_message
  <2>1. msg \in Requests /\ born[msg] < copies[msg] /\ rest = None /\ recv = "off"
    BY <1>6 DEF on_message
  <2>2. born' = [born EXCEPT ![msg] = @ + 1] /\ msg' = None
    BY <1>6 DEF on_message
  <2>3. UNCHANGED <<net, of, copies, recv, got, m_remote, reading, rest>>
    BY <1>6 DEF on_message, netVars
  <2>4. NetInv'
    BY <2>1, <2>2, <2>3
  <2>5. StrandInv'
    BY <2>1, <2>2, <2>3
  <2>6. QED
    BY <2>4, <2>5
<1>7. CASE on_read_throws
  BY <1>7 DEF on_read_throws, netVars, sendVars
<1>8. CASE start
  BY <1>8 DEF start, netVars, sendVars
<1>9. CASE on_read_error
  BY <1>9 DEF on_read_error, netVars, sendVars
\* Nothing else touches it.
<1>10. ASSUME NEW t \in Threads, Answering(t) PROVE HandInv'
  <2>1. UNCHANGED <<netVars, readVars>>
    BY <1>10 DEF Answering, send_data, send_to, send_to_throws, reset
  <2>2. QED
    BY <2>1 DEF netVars, readVars
<1>11. CASE close \/ UNCHANGED vars
  <2>1. UNCHANGED <<netVars, readVars>>
    BY <1>11 DEF close, vars
  <2>2. QED
    BY <2>1 DEF netVars, readVars
<1>12. QED
  BY <1>1, <1>2, <1>3, <1>4, <1>5, <1>6, <1>7, <1>8, <1>9, <1>10, <1>11
  DEF Next, Network, Reading

LEMMA HandInit == Init => HandInv
  BY UdpServerAssumption DEF Init, HandInv, NetInv, StrandInv

LEMMA Hands == Safety => [](TypeOK /\ HandInv)
  BY TypeInit, HandInit, TypeStep, HandStep, PTL DEF Safety

\* The variables of the server keep their types.  In particular a request has
\* an endpoint, and no more requests are made of a message than datagrams of it
\* were delivered.
THEOREM TypeCorrect == Safety => []TypeOK
  BY Hands, PTL

-----------------------------------------------------------------------------
(* The endpoint of a response *)

LEMMA HomeStep == TypeOK /\ HandInv /\ RepliesGoHome /\ [Next]_vars => RepliesGoHome'
<1> SUFFICES ASSUME TypeOK, HandInv, RepliesGoHome, [Next]_vars PROVE RepliesGoHome'
  OBVIOUS
<1> USE UdpServerAssumption DEF TypeOK, RepliesGoHome
\* A client that sends a message has not sent it before: what is handed was.
<1>1. ASSUME NEW c \in Clients, NEW q \in Requests, client_sends(c, q) PROVE RepliesGoHome'
  <2>1. \A o \in handed : o.to \in Clients /\ o.q \in Requests
    BY DEF Objects
  <2>2. QED
    BY <1>1, <2>1 DEF client_sends, readVars
\* on_message() copies m_remote.
<1>2. CASE on_message
  <2>1. m_remote = of[msg] \/ msg \in mixed
    BY <1>2 DEF on_message, HandInv, StrandInv
  <2>2. request(m_remote).q = msg /\ request(m_remote).to = m_remote
    BY DEF request
  <2>3. QED
    BY <1>2, <2>1, <2>2 DEF on_message, netVars
\* A message is mixed for good.
<1>3. ASSUME NEW m, NEW r, on_read(m, r) PROVE RepliesGoHome'
  BY <1>3 DEF on_read, netVars
<1>4. CASE UNCHANGED <<handed, of, mixed>>
  BY <1>4
<1>5. ASSUME \/ \E q \in Requests : datagram_lost(q) \/ \E kept \in BOOLEAN : receive(q, kept)
             \/ receive_fails \/ on_read_throws \/ start \/ on_read_error \/ close
             \/ UNCHANGED vars
      PROVE  UNCHANGED <<handed, of, mixed>>
  BY <1>5 DEF datagram_lost, receive, receive_fails, on_read_throws, start, on_read_error, close,
              vars, netVars, readVars
<1>6. ASSUME NEW t \in Threads, Answering(t) PROVE UNCHANGED <<handed, of, mixed>>
  BY <1>6 DEF Answering, send_data, send_to, send_to_throws, reset, netVars, readVars
<1>7. QED
  BY <1>1, <1>2, <1>3, <1>4, <1>5, <1>6 DEF Next, Network, Reading

\* A response goes to the client whose message it answers, although the handler
\* has one m_remote for all clients, unless that message was put together from
\* two datagrams.
THEOREM Homing == Safety => []RepliesGoHome
<1>1. Init => RepliesGoHome
  BY DEF Init, RepliesGoHome
<1>2. QED
  BY <1>1, Hands, HomeStep, PTL DEF Safety

-----------------------------------------------------------------------------
(* One answer to a request *)

\* A thread has a request exactly while it answers one, which is no
\* notification.  What is not yet handed over was not answered.  Of a request
\* that no two threads have answered at once: one thread has it; nothing was
\* sent before send_to(), and from then on that thread is about to reset m_ms.
AnswerInv ==
    /\ \A t \in Threads : pc[t] # "idle" <=> req[t] # None
    /\ \A t \in Threads : req[t] # None => req[t].q \notin Notes
    /\ \A o \in m_ms : o.q \notin Notes
    /\ \A o \in handed : o.n <= born[o.q]
    /\ \A o \in Objects : o \notin handed \/ o.q \in Notes => replies[o] = 0
    /\ \A t \in Threads : pc[t] = "reset" => replies[req[t]] > 0
    /\ \A t, u \in Threads : req[t] = req[u] /\ req[t] # None => t = u \/ req[t] \in raced
    /\ \A t \in Threads : pc[t] = "send_to" => replies[req[t]] = 0 \/ req[t] \in raced
    /\ \A o \in m_ms : \/ replies[o] = 0 \/ o \in raced
                       \/ \E t \in Threads : req[t] = o /\ pc[t] = "reset"

LEMMA AnswerInit == Init => AnswerInv /\ AnsweredOnce
  BY DEF Init, AnswerInv, AnsweredOnce

\* The request on_message() hands over was not handed over before.
LEMMA RequestNew ==
    ASSUME TypeOK, HandInv, AnswerInv, on_message
    PROVE  request(m_remote) \in Objects \ handed
<1>1. msg \in Requests /\ request(m_remote) \in Objects
  BY RequestType DEF on_message
<1>2. request(m_remote).q = msg /\ request(m_remote).n = born[msg] + 1
  BY DEF request
<1>3. born[msg] \in Nat /\ ~(born[msg] + 1 <= born[msg])
  BY <1>1, UdpServerAssumption DEF TypeOK
<1>4. QED
  BY <1>1, <1>2, <1>3 DEF AnswerInv

LEMMA AnswerStep == TypeOK /\ HandInv /\ AnswerInv /\ [Next]_vars => AnswerInv'
<1> SUFFICES ASSUME TypeOK, HandInv, AnswerInv, [Next]_vars PROVE AnswerInv'
  OBVIOUS
<1> USE UdpServerAssumption DEF TypeOK, AnswerInv
<1>1. CASE on_message
  <2> DEFINE new == request(m_remote)
  <2>1. new \in Objects \ handed /\ new.q = msg /\ new.n = born[msg] + 1 /\ msg \in Requests
    BY <1>1, RequestNew, RequestType DEF on_message, request
  <2>2. /\ handed' = handed \cup {new} /\ born' = [born EXCEPT ![msg] = @ + 1]
        /\ m_ms' = IF msg \in Notes THEN m_ms ELSE m_ms \cup {new}
        /\ UNCHANGED <<pc, req, replies, raced>>
    BY <1>1 DEF on_message
  <2>3. replies[new] = 0 /\ \A t \in Threads : req[t] # new
    BY <2>1
  <2> HIDE DEF new
  <2>4. \A o \in handed' : o.n <= born'[o.q]
    <3>1. \A o \in handed : o.q \in Requests /\ o.n \in Nat
      BY DEF Objects
    <3>2. \A q \in Requests : born[q] \in Nat /\ born[q] <= born'[q]
      BY <2>2
    <3>3. born'[msg] = born[msg] + 1 /\ born[msg] \in Nat
      BY <2>1, <2>2
    <3>4. QED
      BY <2>1, <2>2, <3>1, <3>2, <3>3
  <2>5. QED
    BY <2>1, <2>2, <2>3, <2>4
<1>2. ASSUME NEW t \in Threads, NEW o \in handed, send_data(t, o) PROVE AnswerInv'
  BY <1>2 DEF send_data, readVars
<1>3. ASSUME NEW t \in Threads, send_to(t) PROVE AnswerInv'
  BY <1>3 DEF send_to, readVars
<1>4. ASSUME NEW t \in Threads, send_to_throws(t) PROVE AnswerInv'
  BY <1>4 DEF send_to_throws, readVars
<1>5. ASSUME NEW t \in Threads, reset(t) PROVE AnswerInv'
  BY <1>5 DEF reset, readVars
<1>6. CASE UNCHANGED <<handed, born, sendVars>>
  BY <1>6 DEF sendVars
<1>7. ASSUME \/ \E q \in Requests : datagram_lost(q) \/ \E kept \in BOOLEAN : receive(q, kept)
             \/ \E q \in Requests, c \in Clients : client_sends(c, q)
             \/ \E m, r \in Requests \cup {None} : on_read(m, r)
             \/ receive_fails \/ on_read_throws \/ start \/ on_read_error \/ close
             \/ UNCHANGED vars
      PROVE  UNCHANGED <<handed, born, sendVars>>
  BY <1>7 DEF datagram_lost, receive, client_sends, on_read, receive_fails, on_read_throws, start,
              on_read_error, close, vars, readVars
<1>8. QED
  BY <1>1, <1>2, <1>3, <1>4, <1>5, <1>6, <1>7 DEF Next, Network, Reading, Answering

LEMMA AnsweredOnceStep ==
    TypeOK /\ HandInv /\ AnswerInv /\ AnsweredOnce /\ [Next]_vars => AnsweredOnce'
<1> SUFFICES ASSUME TypeOK, HandInv, AnswerInv, AnsweredOnce, [Next]_vars PROVE AnsweredOnce'
  OBVIOUS
<1> USE UdpServerAssumption DEF TypeOK, AnswerInv, AnsweredOnce
<1>1. CASE on_message
  <2>1. request(m_remote) \in Objects \ handed /\ request(m_remote).q = msg
    BY <1>1, RequestNew DEF request
  <2>2. replies[request(m_remote)] = 0
    BY <2>1
  <2>3. QED
    BY <1>1, <2>1, <2>2 DEF on_message
<1>2. ASSUME NEW t \in Threads, NEW o \in handed, send_data(t, o) PROVE AnsweredOnce'
  BY <1>2 DEF send_data
<1>3. ASSUME NEW t \in Threads, send_to(t) PROVE AnsweredOnce'
  BY <1>3 DEF send_to
<1>4. ASSUME NEW t \in Threads, send_to_throws(t) PROVE AnsweredOnce'
  BY <1>4 DEF send_to_throws
<1>5. ASSUME NEW t \in Threads, reset(t) PROVE AnsweredOnce'
  BY <1>5 DEF reset
<1>6. CASE UNCHANGED <<handed, sendVars>>
  BY <1>6 DEF sendVars
<1>7. ASSUME \/ \E q \in Requests : datagram_lost(q) \/ \E kept \in BOOLEAN : receive(q, kept)
             \/ \E q \in Requests, c \in Clients : client_sends(c, q)
             \/ \E m, r \in Requests \cup {None} : on_read(m, r)
             \/ receive_fails \/ on_read_throws \/ start \/ on_read_error \/ close
             \/ UNCHANGED vars
      PROVE  UNCHANGED <<handed, sendVars>>
  BY <1>7 DEF datagram_lost, receive, client_sends, on_read, receive_fails, on_read_throws, start,
              on_read_error, close, vars
<1>8. QED
  BY <1>1, <1>2, <1>3, <1>4, <1>5, <1>6, <1>7 DEF Next, Network, Reading, Answering

\* However often the network repeats a datagram, and however many threads
\* answer, the requests made of it are answered once each unless two threads
\* answer the same one at once; and m_ms is reset only after a response.
THEOREM OneAnswer == Safety => []AnsweredOnce
  BY AnswerInit, Hands, AnswerStep, AnsweredOnceStep, PTL DEF Safety

-----------------------------------------------------------------------------
(* Listening *)

LEMMA DeafStep == HandInv /\ DeafAfterError /\ [Next]_vars => DeafAfterError'
<1> SUFFICES ASSUME HandInv, DeafAfterError, [Next]_vars PROVE DeafAfterError'
  OBVIOUS
<1> USE DEF HandInv, StrandInv, DeafAfterError
<1>1. ASSUME \E q \in Requests, kept \in BOOLEAN : receive(q, kept) PROVE DeafAfterError'
  BY <1>1 DEF receive
<1>2. ASSUME \E m, r \in Requests \cup {None} : on_read(m, r) PROVE DeafAfterError'
  BY <1>2 DEF on_read
<1>3. CASE receive_fails \/ on_read_throws \/ start \/ on_read_error
  BY <1>3 DEF receive_fails, on_read_throws, start, on_read_error
<1>4. CASE UNCHANGED <<recv, reading, broken>>
  BY <1>4
<1>5. ASSUME \/ \E q \in Requests : datagram_lost(q) \/ \E c \in Clients : client_sends(c, q)
             \/ on_message \/ close \/ UNCHANGED vars
      PROVE  UNCHANGED <<recv, reading, broken>>
  BY <1>5 DEF datagram_lost, client_sends, on_message, close, vars, readVars
<1>6. ASSUME NEW t \in Threads, Answering(t) PROVE UNCHANGED <<recv, reading, broken>>
  BY <1>6 DEF Answering, send_data, send_to, send_to_throws, reset, readVars
<1>7. QED
  BY <1>1, <1>2, <1>3, <1>4, <1>5, <1>6 DEF Next, Network, Reading

\* Every way through on_read() starts the next receive, but for an error of the
\* receive and an exception.
THEOREM Listening == Safety => []DeafAfterError
<1>1. Init => DeafAfterError
  BY DEF Init, DeafAfterError
<1>2. QED
  BY <1>1, Hands, DeafStep, PTL DEF Safety
=============================================================================
