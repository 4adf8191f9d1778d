-------------------------- MODULE TcpServerProofs --------------------------
(***************************************************************************)
(* Proofs about the TCP server, for any number of connections, messages    *)
(* and threads that answer.                                                *)
(*                                                                         *)
(* Three groups of facts support the properties.  ReadInv: where a message *)
(* is between the socket and the dispatcher, and that a connection that    *)
(* was not accepted yet has lost none.  WriteInv: the mutex of a           *)
(* connection is held by the one thread that writes, and a response that   *)
(* was written by half and is not being completed is the last of its       *)
(* connection.  AnswerInv: what has happened to a request is known from    *)
(* the thread that answers it.                                             *)
(***************************************************************************)
EXTENDS TcpServer, TLAPS

\* A connection has left the acceptor's queue.  From then on, when it can no
\* longer be written to, that is for good.
Accepted(c) == sock[c] \in {"open", "closed"}

AcceptInv ==
    /\ acc \in {"accepted", "again", "down"} => m_conn \in Conns
    /\ acc = "accepted" => Accepted(m_conn)

\* Nothing is read before on_accept(): what was sent waits in the socket.
Fresh(c) == ~Accepted(c) \/ (acc = "accepted" /\ m_conn = c)
FreshInv(c) ==
    Fresh(c) => /\ reading[c] = "off"
                /\ \A q \in Requests : of[q] = c => q \in inbox[c] \/ peer[c] = "rst"

\* A message is in one place: its socket, the batch of its handler, or handed.
BatchInv(c) ==
    /\ reading[c] # "off" => Accepted(c)
    /\ reading[c] # "messages" => batch[c] = {}
    /\ \A q \in inbox[c] \cup batch[c] : of[q] = c /\ q \notin handed
    /\ inbox[c] \cap batch[c] = {}

HandedInv == \A q \in handed : of[q] \in Conns /\ Accepted(of[q])

\* A thread has a request exactly while it answers one, of those handed over.
HolderInv == \A t \in Threads : IF pc[t] = "idle" THEN req[t] = NoRequest ELSE req[t] \in handed

ReadInv == AcceptInv /\ HandedInv /\ HolderInv /\ \A c \in Conns : FreshInv(c) /\ BatchInv(c)

-----------------------------------------------------------------------------
(* Types *)

LEMMA TypeInit == Init => TypeOK
<1> SUFFICES ASSUME Init PROVE TypeOK
  OBVIOUS
<1>1. m_ms \in [Requests -> BOOLEAN] /\ replies \in [Requests -> Nat]
  BY DEF Init
<1>2. QED
  BY <1>1 DEF Init, TypeOK

LEMMA StopType == ASSUME TypeOK, NEW S
                  PROVE  stop(S) \in [Conns -> {"none", "backlog", "open", "closed"}]
  BY DEF stop, TypeOK

\* The connection a thread that answers works on.
LEMMA HolderFacts ==
    ASSUME TypeOK, ReadInv, NEW t \in Threads, pc[t] # "idle"
    PROVE  req[t] \in handed /\ req[t] \in Requests /\ of[req[t]] \in Conns /\ Accepted(of[req[t]])
  BY DEF TypeOK, ReadInv, HolderInv, HandedInv

LEMMA TypeStep == TypeOK /\ ReadInv /\ [Next]_vars => TypeOK'
<1> SUFFICES ASSUME TypeOK, ReadInv, [Next]_vars PROVE TypeOK'
  OBVIOUS
<1>0. AcceptInv /\ \A t \in Threads : pc[t] # "idle" => req[t] \in Requests /\ of[req[t]] \in Conns
  BY HolderFacts DEF ReadInv
<1> USE DEF TypeOK
\* Clients and the acceptor.
<1>1. ASSUME NEW c \in Conns, client_connects(c) PROVE TypeOK'
  BY <1>1 DEF client_connects, acceptVars, readVars, sendVars
<1>2. ASSUME NEW c \in Conns, NEW q \in Requests, client_sends(c, q) PROVE TypeOK'
  BY <1>2 DEF client_sends, acceptVars, connVars, sendVars
<1>3. ASSUME NEW c \in Conns, NEW how \in {"fin", "rst"}, client_goes(c, how) PROVE TypeOK'
  BY <1>3 DEF client_goes, acceptVars, sendVars
<1>4. ASSUME NEW c \in Conns, accept_completes(c) PROVE TypeOK'
  BY <1>4 DEF accept_completes, readVars, sendVars
<1>5. CASE accept_fails
  BY <1>5 DEF accept_fails, connVars, readVars, sendVars
<1>6. CASE on_accept
  BY <1>6, <1>0 DEF on_accept, AcceptInv, sendVars
<1>7. CASE on_accept_throws
  BY <1>7, <1>0 DEF on_accept_throws, AcceptInv, readVars, sendVars
<1>8. CASE start_accept
  BY <1>8 DEF start_accept, connVars, readVars, sendVars
<1>9. CASE end
  BY <1>9 DEF end, connVars, readVars, sendVars
<1>10. CASE close
  <2>1. sock' \in [Conns -> {"none", "backlog", "open", "closed"}]
    BY <1>10, StopType DEF close
  <2>2. QED
    BY <1>10, <2>1 DEF close, readVars, sendVars
\* on_read().
<1>11. ASSUME NEW c \in Conns, NEW arrived \in SUBSET Requests, on_read(c, arrived) PROVE TypeOK'
  BY <1>11 DEF on_read, acceptVars, connVars, sendVars
<1>12. ASSUME NEW c \in Conns, NEW q \in Requests, dispatch(c, q) PROVE TypeOK'
  <2>1. m_ms' \in [Requests -> BOOLEAN]
    BY <1>12 DEF dispatch
  <2>2. QED
    BY <1>12, <2>1 DEF dispatch, acceptVars, connVars
<1>13. ASSUME NEW c \in Conns, dispatch_throws(c) \/ start(c) \/ on_read_error(c) PROVE TypeOK'
  BY <1>13 DEF dispatch_throws, start, on_read_error, acceptVars, connVars, sendVars
<1>14. ASSUME NEW c \in Conns, read_error_reported(c) PROVE TypeOK'
  BY <1>14, StopType DEF read_error_reported, on_system_error, acceptVars, sendVars
\* Answering.
<1>15. ASSUME NEW t \in Threads, NEW q \in Requests, send_data(t, q) PROVE TypeOK'
  BY <1>15 DEF send_data, acceptVars, connVars, readVars
<1>16. ASSUME NEW t \in Threads, lock(t) PROVE TypeOK'
  BY <1>16, <1>0 DEF lock, acceptVars, connVars, readVars
<1>17. ASSUME NEW t \in Threads, write_first(t) PROVE TypeOK'
  BY <1>17, <1>0 DEF write_first, acceptVars, connVars, readVars
<1>18. ASSUME NEW t \in Threads, write_rest(t) PROVE TypeOK'
  BY <1>18, <1>0 DEF write_rest, acceptVars, connVars, readVars
<1>19. ASSUME NEW t \in Threads, write_throws(t) PROVE TypeOK'
  BY <1>19, <1>0 DEF write_throws, acceptVars, connVars, readVars
<1>20. ASSUME NEW t \in Threads, write_error_reported(t) PROVE TypeOK'
  BY <1>20, StopType DEF write_error_reported, on_system_error, acceptVars, readVars
<1>21. ASSUME NEW t \in Threads, reset(t) PROVE TypeOK'
  BY <1>21 DEF reset, acceptVars, connVars, readVars
<1>22. CASE UNCHANGED vars
  BY <1>22 DEF vars, acceptVars, connVars, readVars, sendVars
<1> HIDE DEF TypeOK
<1>23. ASSUME NEW c \in Conns, Client(c) \/ accept_completes(c) \/ Strand(c) \/ dispatch_throws(c)
       PROVE  TypeOK'
  BY <1>1, <1>2, <1>3, <1>4, <1>11, <1>12, <1>13, <1>14, <1>23 DEF Client, Strand
<1>24. ASSUME NEW t \in Threads, Send(t) PROVE TypeOK'
  BY <1>16, <1>17, <1>18, <1>19, <1>20, <1>21, <1>24 DEF Send
<1>25. QED
  BY <1>5, <1>6, <1>7, <1>8, <1>9, <1>10, <1>15, <1>22, <1>23, <1>24 DEF Next, Accepting

-----------------------------------------------------------------------------
(* What a step never undoes *)

\* The steps that touch a socket: they open a connection of the queue, or close.
LostForGood ==
    \A c \in Conns : /\ Accepted(c) => Accepted(c)'
                     /\ Accepted(c) /\ ~Writable(c) => ~Writable(c)'

\* A socket that was accepted is closed or goes on; a reset is final.
LEMMA LostStep == TypeOK /\ [Next]_vars => LostForGood
<1> SUFFICES ASSUME TypeOK, [Next]_vars PROVE LostForGood
  OBVIOUS
<1> USE DEF TypeOK, LostForGood, Accepted, Writable
<1>1. ASSUME NEW c \in Conns, client_connects(c) \/ accept_completes(c) PROVE LostForGood
  BY <1>1 DEF client_connects, accept_completes
<1>2. ASSUME NEW c \in Conns, NEW how \in {"fin", "rst"}, client_goes(c, how) PROVE LostForGood
  BY <1>2 DEF client_goes
<1>3. CASE close
  BY <1>3 DEF close, stop
<1>4. ASSUME NEW c, on_system_error(c) PROVE LostForGood
  BY <1>4 DEF on_system_error, stop
<1>5. CASE UNCHANGED <<sock, peer>>
  BY <1>5
<1> HIDE DEF LostForGood
<1>6. ASSUME NEW c \in Conns, Client(c) \/ Strand(c) \/ dispatch_throws(c) PROVE LostForGood
  <2>1. ASSUME \/ \E q \in Requests : client_sends(c, q) \/ dispatch(c, q)
               \/ \E arrived \in SUBSET Requests : on_read(c, arrived)
               \/ start(c) \/ on_read_error(c) \/ dispatch_throws(c)
        PROVE  UNCHANGED <<sock, peer>>
    BY <2>1 DEF client_sends, dispatch, on_read, start, on_read_error, dispatch_throws, connVars
  <2>2. CASE read_error_reported(c)
    BY <1>4, <2>2 DEF read_error_reported
  <2>3. QED
    BY <1>1, <1>2, <1>5, <1>6, <2>1, <2>2 DEF Client, Strand
<1>7. ASSUME NEW t \in Threads, Send(t) \/ \E q \in Requests : send_data(t, q) PROVE LostForGood
  <2>1. ASSUME \/ lock(t) \/ write_first(t) \/ write_rest(t) \/ write_throws(t) \/ reset(t)
               \/ \E q \in Requests : send_data(t, q)
        PROVE  UNCHANGED <<sock, peer>>
    BY <2>1 DEF lock, write_first, write_rest, write_throws, reset, send_data, connVars
  <2>2. CASE write_error_reported(t)
    BY <1>4, <2>2 DEF write_error_reported
  <2>3. QED
    BY <1>5, <1>7, <2>1, <2>2 DEF Send
<1>8. CASE accept_fails \/ Accepting \/ end \/ UNCHANGED vars
  <2>1. UNCHANGED <<sock, peer>>
    BY <1>8 DEF accept_fails, Accepting, on_accept, on_accept_throws, start_accept, end, vars, connVars
  <2>2. QED
    BY <1>5, <2>1
<1>9. QED
  BY <1>1, <1>3, <1>6, <1>7, <1>8 DEF Next

\* A message belongs to the connection it came on, and what was handed over
\* stays handed over.
MessagesStay ==
    /\ \A q \in Requests : of[q] \in Conns => of'[q] = of[q]
    /\ handed \subseteq handed'

LEMMA MessageStep == TypeOK /\ [Next]_vars => MessagesStay
<1> SUFFICES ASSUME TypeOK, [Next]_vars PROVE MessagesStay
  OBVIOUS
<1> USE ServerAssumption DEF TypeOK, MessagesStay
<1>1. ASSUME NEW c \in Conns, NEW q \in Requests, client_sends(c, q) PROVE MessagesStay
  BY <1>1 DEF client_sends
<1>2. ASSUME NEW c \in Conns, NEW q \in Requests, dispatch(c, q) PROVE MessagesStay
  BY <1>2 DEF dispatch
<1>3. CASE UNCHANGED <<of, handed>>
  BY <1>3
<1> HIDE DEF MessagesStay
<1>4. ASSUME NEW c \in Conns, Client(c) \/ accept_completes(c) \/ Strand(c) \/ dispatch_throws(c)
      PROVE  MessagesStay
  <2>1. ASSUME \/ client_connects(c) \/ (\E how \in {"fin", "rst"} : client_goes(c, how))
               \/ \E arrived \in SUBSET Requests : on_read(c, arrived)
               \/ start(c) \/ on_read_error(c) \/ read_error_reported(c) \/ dispatch_throws(c)
               \/ accept_completes(c)
        PROVE  UNCHANGED <<of, handed>>
    BY <2>1 DEF client_connects, client_goes, on_read, start, on_read_error, read_error_reported,
                dispatch_throws, accept_completes, readVars
  <2>2. QED
    BY <1>1, <1>2, <1>3, <1>4, <2>1 DEF Client, Strand
<1>5. ASSUME NEW t \in Threads, Send(t) \/ \E q \in Requests : send_data(t, q)
      PROVE  UNCHANGED <<of, handed>>
  BY <1>5 DEF Send, lock, write_first, write_rest, write_throws, write_error_reported, reset,
              send_data, readVars
<1>6. CASE accept_fails \/ Accepting \/ end \/ close \/ UNCHANGED vars
  <2>1. UNCHANGED <<of, handed>>
    BY <1>6 DEF accept_fails, Accepting, on_accept, on_accept_throws, start_accept, end, close,
                vars, readVars
  <2>2. QED
    BY <1>3, <2>1
<1>7. QED
  BY <1>3, <1>4, <1>5, <1>6 DEF Next

-----------------------------------------------------------------------------
(* From the socket to the dispatcher *)

LEMMA ReadInit == Init => ReadInv
  BY ServerAssumption
  DEF Init, ReadInv, AcceptInv, HandedInv, HolderInv, FreshInv, BatchInv, Fresh, Accepted

\* on_accept() is about a connection that has left the queue.
LEMMA AcceptStep == TypeOK /\ ReadInv /\ [Next]_vars => AcceptInv'
<1> SUFFICES ASSUME TypeOK, ReadInv, [Next]_vars PROVE AcceptInv'
  OBVIOUS
<1>1. LostForGood
  BY LostStep
<1>2. ASSUME NEW c \in Conns, accept_completes(c) PROVE AcceptInv'
  BY <1>2 DEF accept_completes, AcceptInv, Accepted, TypeOK
<1>3. CASE accept_fails \/ Accepting
  BY <1>3 DEF accept_fails, Accepting, on_accept, on_accept_throws, start_accept, AcceptInv, ReadInv
<1>4. CASE UNCHANGED <<acc, m_conn>>
  BY <1>1, <1>4 DEF AcceptInv, ReadInv, LostForGood, Accepted
<1>5. ASSUME NEW c \in Conns, Client(c) \/ Strand(c) \/ dispatch_throws(c)
      PROVE  UNCHANGED <<acc, m_conn>>
  BY <1>5 DEF Client, client_connects, client_goes, client_sends, Strand, on_read, dispatch, start,
              on_read_error, read_error_reported, dispatch_throws, acceptVars
<1>6. ASSUME NEW t \in Threads, Send(t) \/ \E q \in Requests : send_data(t, q)
      PROVE  UNCHANGED <<acc, m_conn>>
  BY <1>6 DEF Send, lock, write_first, write_rest, write_throws, write_error_reported, reset,
              send_data, acceptVars
<1>7. CASE end \/ close \/ UNCHANGED vars
  BY <1>4, <1>7 DEF end, close, vars, acceptVars
<1>8. QED
  BY <1>2, <1>3, <1>4, <1>5, <1>6, <1>7 DEF Next

\* Every step but a few leaves what is read alone.
LEMMA ReadUntouched ==
    ASSUME TypeOK, ReadInv, LostForGood, UNCHANGED <<inbox, batch, of, handed>>,
           NEW c \in Conns, reading'[c] = reading[c] \/ (reading[c] # "off" /\ batch[c] = {}),
           peer[c] = "rst" => peer'[c] = "rst", Fresh(c)' => Fresh(c)
    PROVE  FreshInv(c)' /\ BatchInv(c)'
  BY DEF ReadInv, LostForGood, FreshInv, BatchInv, Accepted

LEMMA BatchStep ==
    TypeOK /\ ReadInv /\ [Next]_vars => \A c \in Conns : FreshInv(c)' /\ BatchInv(c)'
<1> SUFFICES ASSUME TypeOK, ReadInv, [Next]_vars, NEW c \in Conns
             PROVE  FreshInv(c)' /\ BatchInv(c)'
  OBVIOUS
<1>1. LostForGood
  BY LostStep
<1>2. FreshInv(c) /\ BatchInv(c)
  BY DEF ReadInv
\* Clients.
<1>3. ASSUME NEW d \in Conns, NEW q \in Requests, client_sends(d, q)
      PROVE  FreshInv(c)' /\ BatchInv(c)'
  <2>1. UNCHANGED <<sock, peer, acc, m_conn, reading, batch, handed>>
    BY <1>3 DEF client_sends, acceptVars, connVars
  <2>2. /\ of' = [of EXCEPT ![q] = d] /\ of[q] = NoConn
        /\ inbox' = [inbox EXCEPT ![d] = @ \cup {q}]
    BY <1>3 DEF client_sends
  <2>3. q \notin handed /\ q \notin inbox[c] \cup batch[c]
    BY <1>2, <2>2, ServerAssumption DEF ReadInv, HandedInv, BatchInv
  <2>4. FreshInv(c)'
    BY <1>2, <2>1, <2>2 DEF FreshInv, Fresh, Accepted, TypeOK
  <2>5. BatchInv(c)'
    BY <1>2, <2>1, <2>2, <2>3 DEF BatchInv, Accepted, TypeOK
  <2>6. QED
    BY <2>4, <2>5
<1>4. ASSUME NEW d \in Conns, NEW how \in {"fin", "rst"}, client_goes(d, how)
      PROVE  FreshInv(c)' /\ BatchInv(c)'
  <2>1. UNCHANGED <<sock, acc, m_conn, reading, batch, of, handed>>
    BY <1>4 DEF client_goes, acceptVars
  <2>2. inbox'[c] = inbox[c] \/ (inbox'[c] = {} /\ peer'[c] = "rst")
    <3>1. CASE how = "fin"
      BY <1>4, <3>1 DEF client_goes
    <3>2. CASE how = "rst"
      BY <1>4, <3>2 DEF client_goes, TypeOK
    <3>3. QED
      BY <3>1, <3>2
  <2>3. peer[c] = "rst" => peer'[c] = "rst"
    BY <1>4 DEF client_goes, TypeOK
  <2>4. QED
    BY <1>2, <2>1, <2>2, <2>3 DEF FreshInv, BatchInv, Fresh, Accepted
\* The acceptor: a connection is fresh until on_accept() has inserted it.
<1>5. ASSUME NEW d \in Conns, client_connects(d) \/ accept_completes(d)
      PROVE  FreshInv(c)' /\ BatchInv(c)'
  <2>1. UNCHANGED <<inbox, batch, of, handed, reading, peer>>
    BY <1>5 DEF client_connects, accept_completes, readVars
  <2>2. Fresh(c)' => Fresh(c)
    BY <1>5 DEF client_connects, accept_completes, Fresh, Accepted, TypeOK, acceptVars
  <2>3. QED
    BY <1>1, <2>1, <2>2, ReadUntouched
<1>6. CASE on_accept
  <2>1. m_conn \in Conns /\ Accepted(m_conn)
    BY <1>6 DEF on_accept, ReadInv, AcceptInv
  <2>2. UNCHANGED <<inbox, batch, of, handed, sock, peer>> /\ acc' = "again"
    BY <1>6 DEF on_accept
  <2>3. reading' = [reading EXCEPT ![m_conn] = "pending"]
    BY <1>6 DEF on_accept
  <2>4. reading[m_conn] = "off" /\ batch[m_conn] = {}
    BY <1>6, <2>1 DEF on_accept, ReadInv, FreshInv, BatchInv, Fresh
  <2>5. QED
    BY <1>2, <2>1, <2>2, <2>3, <2>4 DEF FreshInv, BatchInv, Fresh, Accepted, TypeOK
<1>7. CASE on_accept_throws \/ start_accept \/ accept_fails \/ end \/ UNCHANGED vars
  <2>1. UNCHANGED <<inbox, batch, of, handed, reading, peer, sock>>
    BY <1>7 DEF on_accept_throws, start_accept, accept_fails, end, vars, readVars, connVars
  <2>2. acc' = "accepted" => acc = "accepted" /\ m_conn' = m_conn
    BY <1>7 DEF on_accept_throws, start_accept, accept_fails, end, vars, acceptVars
  <2>3. Fresh(c)' => Fresh(c)
    BY <2>1, <2>2 DEF Fresh, Accepted
  <2>4. QED
    BY <1>1, <2>1, <2>3, ReadUntouched
<1>8. CASE close
  <2>1. UNCHANGED <<inbox, batch, of, handed, reading, peer, acc, m_conn>>
    BY <1>8 DEF close, readVars
  <2>2. Fresh(c)' => Fresh(c)
    BY <1>1, <2>1 DEF Fresh, LostForGood, Accepted
  <2>3. QED
    BY <1>1, <2>1, <2>2, ReadUntouched
\* on_read().
<1>9. ASSUME NEW d \in Conns, NEW arrived \in SUBSET Requests, on_read(d, arrived)
      PROVE  FreshInv(c)' /\ BatchInv(c)'
  <2>1. UNCHANGED <<sock, peer, acc, m_conn, of, handed>>
    BY <1>9 DEF on_read, acceptVars, connVars
  <2>2. /\ inbox' = [inbox EXCEPT ![d] = @ \ arrived] /\ arrived \subseteq inbox[d]
        /\ batch' = [batch EXCEPT ![d] = arrived]
        /\ reading[d] = "pending" /\ reading' = [reading EXCEPT ![d] = "messages"]
    BY <1>9 DEF on_read
  <2>3. CASE c = d
    BY <1>2, <2>1, <2>2, <2>3 DEF FreshInv, BatchInv, Fresh, Accepted, TypeOK
  <2>4. CASE c # d
    <3>1. inbox'[c] = inbox[c] /\ batch'[c] = batch[c] /\ reading'[c] = reading[c]
      BY <2>2, <2>4 DEF TypeOK
    <3>2. QED
      BY <1>2, <2>1, <3>1 DEF FreshInv, BatchInv, Fresh, Accepted
  <2>5. QED
    BY <2>3, <2>4
<1>10. ASSUME NEW d \in Conns, NEW q \in Requests, dispatch(d, q)
       PROVE  FreshInv(c)' /\ BatchInv(c)'
  <2>1. UNCHANGED <<sock, peer, acc, m_conn, of, inbox, reading>>
    BY <1>10 DEF dispatch, acceptVars, connVars
  <2>2. /\ q \in batch[d] /\ batch' = [batch EXCEPT ![d] = @ \ {q}]
        /\ handed' = handed \cup {q}
    BY <1>10 DEF dispatch
  <2>3. of[q] = d /\ q \notin inbox[d]
    BY <2>2 DEF ReadInv, BatchInv
  <2>4. FreshInv(c)'
    BY <1>2, <2>1 DEF FreshInv, Fresh, Accepted
  <2>5. BatchInv(c)'
    BY <1>2, <2>1, <2>2, <2>3 DEF BatchInv, Accepted, TypeOK
  <2>6. QED
    BY <2>4, <2>5
<1>11. ASSUME NEW d \in Conns, dispatch_throws(d) PROVE FreshInv(c)' /\ BatchInv(c)'
  <2>1. UNCHANGED <<sock, peer, acc, m_conn, of, inbox, handed>>
    BY <1>11 DEF dispatch_throws, acceptVars, connVars
  <2>2. QED
    BY <1>2, <1>11, <2>1 DEF dispatch_throws, FreshInv, BatchInv, Fresh, Accepted, TypeOK
<1>12. ASSUME NEW d \in Conns, start(d) \/ on_read_error(d) \/ read_error_reported(d)
       PROVE  FreshInv(c)' /\ BatchInv(c)'
  <2>1. UNCHANGED <<peer, acc, m_conn, of, inbox, batch, handed>>
    BY <1>12 DEF start, on_read_error, read_error_reported, on_system_error, acceptVars, connVars
  <2>2. reading'[c] = reading[c] \/ (reading[c] # "off" /\ batch[c] = {})
    BY <1>2, <1>12 DEF start, on_read_error, read_error_reported, BatchInv, TypeOK
  <2>3. Fresh(c)' => Fresh(c)
    BY <1>1, <2>1 DEF Fresh, LostForGood, Accepted
  <2>4. QED
    BY <1>1, <2>1, <2>2, <2>3, ReadUntouched
\* Threads.
<1>13. ASSUME NEW t \in Threads, Send(t) \/ \E q \in Requests : send_data(t, q)
       PROVE  FreshInv(c)' /\ BatchInv(c)'
  <2>1. UNCHANGED <<peer, acc, m_conn, of, inbox, batch, handed, reading>>
    BY <1>13 DEF Send, lock, write_first, write_rest, write_throws, write_error_reported, reset,
                 send_data, on_system_error, acceptVars, connVars, readVars
  <2>2. Fresh(c)' => Fresh(c)
    BY <1>1, <2>1 DEF Fresh, LostForGood, Accepted
  <2>3. QED
    BY <1>1, <2>1, <2>2, ReadUntouched
<1>14. ASSUME NEW d \in Conns, Client(d) \/ accept_completes(d) \/ Strand(d) \/ dispatch_throws(d)
       PROVE  FreshInv(c)' /\ BatchInv(c)'
  BY <1>3, <1>4, <1>5, <1>9, <1>10, <1>11, <1>12, <1>14 DEF Client, Strand
<1>15. QED
  BY <1>6, <1>7, <1>8, <1>13, <1>14 DEF Next, Accepting

\* What is handed over came on a connection that was accepted.
LEMMA HandedStep == TypeOK /\ ReadInv /\ [Next]_vars => HandedInv'
<1> SUFFICES ASSUME TypeOK, ReadInv, [Next]_vars PROVE HandedInv'
  OBVIOUS
<1>1. LostForGood /\ MessagesStay
  BY LostStep, MessageStep
<1>2. ASSUME NEW c \in Conns, NEW q \in Requests, dispatch(c, q) PROVE HandedInv'
  <2>1. of[q] = c /\ Accepted(c)
    BY <1>2 DEF dispatch, ReadInv, BatchInv
  <2>2. handed' = handed \cup {q}
    BY <1>2 DEF dispatch
  <2>3. QED
    BY <1>1, <2>1, <2>2 DEF HandedInv, ReadInv, LostForGood, MessagesStay, Accepted, TypeOK
<1>3. CASE UNCHANGED handed
  BY <1>1, <1>3 DEF HandedInv, ReadInv, LostForGood, MessagesStay, Accepted, TypeOK
<1>4. ASSUME NEW c \in Conns, Client(c) \/ accept_completes(c) \/ Strand(c) \/ dispatch_throws(c)
      PROVE  HandedInv'
  <2>1. ASSUME \/ Client(c) \/ accept_completes(c) \/ dispatch_throws(c)
               \/ \E arrived \in SUBSET Requests : on_read(c, arrived)
               \/ start(c) \/ on_read_error(c) \/ read_error_reported(c)
        PROVE  UNCHANGED handed
    BY <2>1 DEF Client, client_connects, client_goes, client_sends, accept_completes,
                dispatch_throws, on_read, start, on_read_error, read_error_reported, readVars
  <2>2. QED
    BY <1>2, <1>3, <1>4, <2>1 DEF Strand
<1>5. ASSUME NEW t \in Threads, Send(t) \/ \E q \in Requests : send_data(t, q)
      PROVE  UNCHANGED handed
  BY <1>5 DEF Send, lock, write_first, write_rest, write_throws, write_error_reported, reset,
              send_data, readVars
<1>6. CASE accept_fails \/ Accepting \/ end \/ close \/ UNCHANGED vars
  BY <1>3, <1>6 DEF accept_fails, Accepting, on_accept, on_accept_throws, start_accept, end, close,
              vars, readVars
<1>7. QED
  BY <1>3, <1>4, <1>5, <1>6 DEF Next

\* The steps that leave the threads alone, with the exception of dispatch().
LEMMA ThreadsUntouched ==
    ASSUME \/ \E c \in Conns : \/ Client(c) \/ accept_completes(c) \/ dispatch_throws(c)
                             \/ start(c) \/ on_read_error(c) \/ read_error_reported(c)
                             \/ \E arrived \in SUBSET Requests : on_read(c, arrived)
           \/ accept_fails \/ Accepting \/ end \/ close \/ UNCHANGED vars
    PROVE  UNCHANGED <<handed, sendVars>>
<1>1. ASSUME NEW c \in Conns,
             \/ Client(c) \/ accept_completes(c) \/ dispatch_throws(c) \/ start(c)
             \/ on_read_error(c) \/ read_error_reported(c)
             \/ \E arrived \in SUBSET Requests : on_read(c, arrived)
      PROVE  UNCHANGED <<handed, sendVars>>
  BY <1>1 DEF Client, client_connects, client_goes, client_sends, accept_completes, on_read, start,
              dispatch_throws, on_read_error, read_error_reported, readVars
<1>2. CASE accept_fails \/ Accepting \/ end \/ close \/ UNCHANGED vars
  BY <1>2 DEF accept_fails, Accepting, on_accept, on_accept_throws, start_accept, end, close, vars,
              readVars
<1>3. QED
  BY <1>1, <1>2

\* So every step is a dispatch, a step of a thread, or one of these.
LEMMA ThreadSteps ==
    ASSUME [Next]_vars
    PROVE  \/ UNCHANGED <<handed, sendVars>>
           \/ \E c \in Conns, q \in Requests : dispatch(c, q)
           \/ \E t \in Threads : Send(t) \/ \E q \in Requests : send_data(t, q)
  BY ThreadsUntouched DEF Next, Strand

LEMMA HolderStep == TypeOK /\ ReadInv /\ [Next]_vars => HolderInv'
<1> SUFFICES ASSUME TypeOK, ReadInv, [Next]_vars PROVE HolderInv'
  OBVIOUS
<1>1. HolderInv
  BY DEF ReadInv
<1> USE DEF TypeOK, HolderInv
<1>2. CASE UNCHANGED <<handed, sendVars>>
  BY <1>1, <1>2 DEF sendVars
<1>3. ASSUME NEW c \in Conns, NEW q \in Requests, dispatch(c, q) PROVE HolderInv'
  BY <1>1, <1>3 DEF dispatch
<1>4. ASSUME NEW t \in Threads, NEW q \in Requests, send_data(t, q) PROVE HolderInv'
  BY <1>1, <1>4 DEF send_data, readVars
<1>5. ASSUME NEW t \in Threads, lock(t) \/ write_first(t) \/ write_throws(t) PROVE HolderInv'
  BY <1>1, <1>5 DEF lock, write_first, write_throws, readVars
<1>6. ASSUME NEW t \in Threads, write_rest(t) \/ write_error_reported(t) PROVE HolderInv'
  BY <1>1, <1>6 DEF write_rest, write_error_reported, readVars
<1>7. ASSUME NEW t \in Threads, reset(t) PROVE HolderInv'
  BY <1>1, <1>7 DEF reset, readVars
<1>8. QED
  BY <1>2, <1>3, <1>4, <1>5, <1>6, <1>7, ThreadSteps DEF Send

LEMMA ReadStep == TypeOK /\ ReadInv /\ [Next]_vars => ReadInv'
  BY AcceptStep, HandedStep, HolderStep, BatchStep DEF ReadInv

LEMMA Reads == Safety => [](TypeOK /\ ReadInv)
  BY TypeInit, ReadInit, TypeStep, ReadStep, PTL DEF Safety

\* The variables of the server keep their types: m_connections holds
\* connections, never the null pointer on_accept() has moved from.
THEOREM TypeCorrect == Safety => []TypeOK
  BY Reads, PTL

\* The steps that leave the acceptor, the set and the reads alone.
LEMMA ThreadsDoNotRead ==
    ASSUME NEW t \in Threads, Send(t) \/ \E q \in Requests : send_data(t, q)
    PROVE  /\ UNCHANGED <<acc, m_conn, peer, readVars>>
           /\ m_connections' \subseteq m_connections
  BY DEF Send, lock, write_first, write_rest, write_throws, write_error_reported, reset, send_data,
         on_system_error, acceptVars, connVars

LEMMA ManagedStep == TypeOK /\ ReadInv /\ Managed /\ [Next]_vars => Managed'
<1> SUFFICES ASSUME TypeOK, ReadInv, Managed, [Next]_vars PROVE Managed'
  OBVIOUS
<1> USE DEF TypeOK, Managed
\* on_accept() inserts the connection and starts to read, or is the exception.
<1>1. CASE on_accept
  BY <1>1 DEF on_accept, ReadInv, AcceptInv
<1>2. CASE on_accept_throws
  BY <1>2 DEF on_accept_throws, readVars
\* Who stops reading removes the connection.
<1>3. ASSUME NEW c \in Conns, read_error_reported(c) PROVE Managed'
  BY <1>3 DEF read_error_reported, on_system_error, acceptVars
<1>4. ASSUME NEW c \in Conns,
             \/ dispatch_throws(c) \/ start(c) \/ on_read_error(c)
             \/ \E arrived \in SUBSET Requests : on_read(c, arrived)
      PROVE  Managed'
  BY <1>4 DEF dispatch_throws, start, on_read_error, on_read, acceptVars, connVars
\* Nothing else is of any effect.
<1>5. CASE /\ acc = "down" => acc' = "down" /\ m_conn' = m_conn
           /\ m_connections' \subseteq m_connections /\ UNCHANGED reading
  BY <1>5
<1>6. ASSUME NEW c \in Conns, Client(c) \/ accept_completes(c) \/ \E q \in Requests : dispatch(c, q)
      PROVE  /\ acc = "down" => acc' = "down" /\ m_conn' = m_conn
             /\ m_connections' \subseteq m_connections /\ UNCHANGED reading
  BY <1>6 DEF Client, client_connects, client_goes, client_sends, accept_completes, dispatch,
              acceptVars, connVars, readVars
<1>7. ASSUME accept_fails \/ start_accept \/ end \/ close \/ UNCHANGED vars
      PROVE  /\ acc = "down" => acc' = "down" /\ m_conn' = m_conn
             /\ m_connections' \subseteq m_connections /\ UNCHANGED reading
  BY <1>7 DEF accept_fails, start_accept, end, close, vars, acceptVars, connVars, readVars
<1>8. ASSUME NEW t \in Threads, Send(t) \/ \E q \in Requests : send_data(t, q)
      PROVE  /\ acc = "down" => acc' = "down" /\ m_conn' = m_conn
             /\ m_connections' \subseteq m_connections /\ UNCHANGED reading
  BY <1>8, ThreadsDoNotRead DEF readVars
<1> HIDE DEF Managed
<1>9. QED
  BY <1>1, <1>2, <1>3, <1>4, <1>5, <1>6, <1>7, <1>8 DEF Next, Strand, Accepting

\* Whichever of the read and the writes fails first, a connection in
\* m_connections is being read; the only one that is not is the one with which
\* on_accept() threw.
THEOREM ManagedAreRead == Safety => []Managed
<1>1. Init => Managed
  BY DEF Init, Managed
<1>2. QED
  BY <1>1, Reads, ManagedStep, PTL DEF Safety

-----------------------------------------------------------------------------

LEMMA SkippedStep == TypeOK /\ ReadInv /\ NoneSkipped /\ [Next]_vars => NoneSkipped'
<1> SUFFICES ASSUME TypeOK, ReadInv, NoneSkipped, [Next]_vars PROVE NoneSkipped'
  OBVIOUS
<1> USE ServerAssumption DEF TypeOK, NoneSkipped
\* Clients: a message waits in the socket until the connection is reset.
<1>1. ASSUME NEW c \in Conns, NEW q \in Requests, client_sends(c, q) PROVE NoneSkipped'
  BY <1>1 DEF client_sends, connVars
<1>2. ASSUME NEW c \in Conns, NEW how \in {"fin", "rst"}, client_goes(c, how) PROVE NoneSkipped'
  <2>1. CASE how = "fin"
    BY <1>2, <2>1 DEF client_goes
  <2>2. CASE how = "rst"
    BY <1>2, <2>2 DEF client_goes
  <2>3. QED
    BY <2>1, <2>2
\* Reading starts with a connection that has lost nothing.
<1>3. CASE on_accept
  <2>1. m_conn \in Conns /\ Fresh(m_conn) /\ peer[m_conn] # "rst"
    BY <1>3 DEF on_accept, Fresh, ReadInv, AcceptInv
  <2>2. \A q \in Requests : of[q] = m_conn => q \in inbox[m_conn]
    BY <2>1 DEF ReadInv, FreshInv
  <2>3. QED
    BY <1>3, <2>1, <2>2 DEF on_accept
\* on_read() moves messages into its batch, hands them over one by one, and
\* starts the next read when there is none left.
<1>4. ASSUME NEW c \in Conns, NEW arrived \in SUBSET Requests, on_read(c, arrived)
      PROVE  NoneSkipped'
  <2>1. batch[c] = {}
    BY <1>4 DEF on_read, ReadInv, BatchInv
  <2>2. QED
    BY <1>4, <2>1 DEF on_read, connVars
<1>5. ASSUME NEW c \in Conns, NEW q \in Requests, dispatch(c, q) PROVE NoneSkipped'
  BY <1>5 DEF dispatch, connVars
<1>6. ASSUME NEW c \in Conns, dispatch_throws(c) PROVE NoneSkipped'
  BY <1>6 DEF dispatch_throws, connVars
<1>7. ASSUME NEW c \in Conns, start(c) PROVE NoneSkipped'
  BY <1>7 DEF start, connVars
<1>8. ASSUME NEW c \in Conns, on_read_error(c) PROVE NoneSkipped'
  BY <1>8 DEF on_read_error, connVars
<1>9. ASSUME NEW c \in Conns, read_error_reported(c) PROVE NoneSkipped'
  BY <1>9 DEF read_error_reported, on_system_error
<1>10. CASE UNCHANGED <<peer, readVars>>
  BY <1>10 DEF readVars
<1>11. ASSUME \/ \E c \in Conns : client_connects(c) \/ accept_completes(c)
              \/ accept_fails \/ on_accept_throws \/ start_accept \/ end \/ close \/ UNCHANGED vars
       PROVE  UNCHANGED <<peer, readVars>>
  BY <1>11 DEF client_connects, accept_completes, accept_fails, on_accept_throws, start_accept, end,
               close, vars, connVars
<1>12. ASSUME NEW t \in Threads, Send(t) \/ \E q \in Requests : send_data(t, q)
       PROVE  UNCHANGED <<peer, readVars>>
  BY <1>12, ThreadsDoNotRead
<1> HIDE DEF NoneSkipped
<1>13. QED
  BY <1>1, <1>2, <1>3, <1>4, <1>5, <1>6, <1>7, <1>8, <1>9, <1>10, <1>11, <1>12
  DEF Next, Client, Strand, Accepting

\* Between the socket and the dispatcher no message is lost on a connection
\* that goes on being read.
THEOREM NoneLost == Safety => []NoneSkipped
<1>1. Init => NoneSkipped
  BY DEF Init, NoneSkipped
<1>2. QED
  BY <1>1, Reads, SkippedStep, PTL DEF Safety

-----------------------------------------------------------------------------
(* Responses on one connection *)

\* The mutex of a connection is held by the one thread that writes to it.  A
\* response of which one half is written is being completed by that thread, or
\* the connection can no longer be written to.
WriteInv ==
    /\ \A c \in Conns, t \in Threads :
          t \in writer[c] <=> pc[t] \in {"write", "rest"} /\ of[req[t]] = c
    /\ \A c \in Conns : \A t, u \in writer[c] : t = u
    /\ \A c \in Conns : \A t \in half[c] :
          Accepted(c) /\ ((t \in writer[c] /\ pc[t] = "rest") \/ ~Writable(c))

FrameInv == FramesIntact /\ WriteInv

\* A step of the other threads, and of the network, can only make a connection
\* unwritable.
LEMMA WriteUntouched ==
    ASSUME TypeOK, ReadInv, WriteInv, LostForGood, MessagesStay, UNCHANGED <<pc, req, writer, half>>
    PROVE  WriteInv'
<1>1. \A t \in Threads : pc[t] # "idle" => of'[req'[t]] = of[req[t]]
  BY HolderFacts DEF MessagesStay
<1>2. \A c \in Conns : half[c] \subseteq Threads
  BY DEF TypeOK
<1>3. QED
  BY <1>1, <1>2 DEF WriteInv, LostForGood

LEMMA FrameStep == TypeOK /\ ReadInv /\ FrameInv /\ [Next]_vars => FrameInv'
<1> SUFFICES ASSUME TypeOK, ReadInv, FrameInv, [Next]_vars PROVE FrameInv'
  OBVIOUS
<1>1. LostForGood /\ MessagesStay /\ WriteInv /\ mangled = {}
  BY LostStep, MessageStep DEF FrameInv, FramesIntact
<1>2. \A t \in Threads : pc[t] # "idle" => of[req[t]] \in Conns /\ Accepted(of[req[t]])
  BY HolderFacts
<1>3. CASE UNCHANGED <<pc, req, writer, half, mangled>>
  BY <1>1, <1>3, WriteUntouched DEF FrameInv, FramesIntact
<1>4. ASSUME NEW c \in Conns, NEW q \in Requests, dispatch(c, q)
      PROVE  UNCHANGED <<pc, req, writer, half, mangled>>
  BY <1>4 DEF dispatch
<1>5. ASSUME NEW t \in Threads, NEW q \in Requests, send_data(t, q) PROVE FrameInv'
  <2>1. UNCHANGED <<sock, peer, of, writer, half, mangled>>
    BY <1>5 DEF send_data, connVars, readVars
  <2>2. pc[t] = "idle" /\ pc'[t] \notin {"write", "rest"}
    BY <1>5 DEF send_data, TypeOK
  <2>3. \A u \in Threads \ {t} : pc'[u] = pc[u] /\ req'[u] = req[u]
    BY <1>5 DEF send_data, TypeOK
  <2>4. QED
    BY <1>1, <2>1, <2>2, <2>3 DEF WriteInv, FrameInv, FramesIntact, Accepted, Writable, TypeOK
<1>6. ASSUME NEW t \in Threads, lock(t) PROVE FrameInv'
  BY <1>1, <1>2, <1>6 DEF lock, WriteInv, FrameInv, FramesIntact, Accepted, Writable, TypeOK, connVars,
                          readVars
\* The first half: nobody else has written one, or this could not be written.
<1>7. ASSUME NEW t \in Threads, write_first(t) PROVE FrameInv'
  <2> DEFINE c == of[req[t]]
  <2>1. c \in Conns /\ Accepted(c) /\ Writable(c) /\ t \in writer[c]
    BY <1>1, <1>2, <1>7 DEF write_first, WriteInv
  <2>2. half[c] = {}
    <3> SUFFICES ASSUME NEW u \in half[c] PROVE FALSE
      OBVIOUS
    <3>1. u \in writer[c] /\ pc[u] = "rest"
      BY <1>1, <2>1 DEF WriteInv
    <3>2. u = t
      BY <1>1, <2>1, <3>1 DEF WriteInv
    <3>3. QED
      BY <1>7, <3>1, <3>2 DEF write_first
  <2>3. mangled' = {}
    BY <1>1, <1>7, <2>2 DEF write_first
  <2>4. WriteInv'
    BY <1>1, <1>7, <2>1, <2>2 DEF write_first, WriteInv, Accepted, Writable, TypeOK, connVars, readVars
  <2>5. QED
    BY <2>3, <2>4 DEF FrameInv, FramesIntact
<1>8. ASSUME NEW t \in Threads, write_rest(t) PROVE FrameInv'
  BY <1>1, <1>2, <1>8 DEF write_rest, WriteInv, FrameInv, FramesIntact, Accepted, Writable, TypeOK,
                          connVars, readVars
\* A write that fails leaves its half on a connection that is lost.
<1>9. ASSUME NEW t \in Threads, write_throws(t) PROVE FrameInv'
  BY <1>1, <1>2, <1>9 DEF write_throws, WriteInv, FrameInv, FramesIntact, Accepted, Writable, TypeOK,
                          connVars, readVars
<1>10. ASSUME NEW t \in Threads, write_error_reported(t) \/ reset(t) PROVE FrameInv'
  <2>1. UNCHANGED <<of, writer, half, mangled>>
    BY <1>10 DEF write_error_reported, reset, readVars
  <2>2. pc[t] \notin {"write", "rest"} /\ pc'[t] \notin {"write", "rest"}
    BY <1>10 DEF write_error_reported, reset, TypeOK
  <2>3. \A u \in Threads \ {t} : pc'[u] = pc[u] /\ req'[u] = req[u]
    BY <1>10 DEF write_error_reported, reset, TypeOK
  <2>4. QED
    BY <1>1, <2>1, <2>2, <2>3 DEF WriteInv, FrameInv, FramesIntact, LostForGood, TypeOK
<1>11. CASE UNCHANGED <<handed, sendVars>>
  BY <1>3, <1>11 DEF sendVars
<1>12. QED
  BY <1>3, <1>4, <1>5, <1>6, <1>7, <1>8, <1>9, <1>10, <1>11, ThreadSteps DEF Send

\* Responses on one connection never mix, whoever writes them and whenever the
\* connection is lost: a half that is not completed is the last one.
THEOREM Frames == Safety => []FramesIntact
<1>1. Init => FrameInv
  BY DEF Init, FrameInv, FramesIntact, WriteInv
<1>2. FrameInv => FramesIntact
  BY DEF FrameInv
<1>3. QED
  BY <1>1, <1>2, Reads, FrameStep, PTL DEF Safety

-----------------------------------------------------------------------------
(* The answer to one request *)

\* What has not been handed over, and a notification, can not be answered and
\* was not.  Of a request that no two threads have answered at once: one thread
\* has it; until that is past its write nothing was sent, and after it m_ms is
\* about to be reset.  It gets there only with a response sent or a connection
\* lost.
AnswerInv ==
    /\ \A q \in Requests : m_ms[q] => q \in handed \ Notes
    /\ \A q \in Requests : q \notin handed \/ q \in Notes => replies[q] = 0
    /\ \A t \in Threads : req[t] \notin Notes
    /\ \A t, u \in Threads : req[t] = req[u] /\ req[t] # NoRequest => t = u \/ req[t] \in raced
    /\ \A t \in Threads : pc[t] \in {"lock", "write", "rest", "failed"} =>
          replies[req[t]] = 0 \/ req[t] \in raced
    /\ \A q \in Requests : m_ms[q] /\ replies[q] > 0 =>
          q \in raced \/ \E t \in Threads : req[t] = q /\ pc[t] = "reset"
    /\ AnsweredOnce

LEMMA AnswerInit == Init => AnswerInv
  BY ServerAssumption DEF Init, AnswerInv, AnsweredOnce

LEMMA AnswerStep == TypeOK /\ ReadInv /\ AnswerInv /\ [Next]_vars => AnswerInv'
<1> SUFFICES ASSUME TypeOK, ReadInv, AnswerInv, [Next]_vars PROVE AnswerInv'
  OBVIOUS
<1>1. HolderInv
  BY DEF ReadInv
<1> USE ServerAssumption DEF TypeOK, HolderInv, AnswerInv, AnsweredOnce
<1>2. CASE UNCHANGED <<handed, sendVars>>
  BY <1>2 DEF sendVars
\* A message is handed over once.
<1>3. ASSUME NEW c \in Conns, NEW q \in Requests, dispatch(c, q) PROVE AnswerInv'
  <2>1. q \notin handed
    BY <1>3 DEF dispatch, ReadInv, BatchInv
  <2>2. replies[q] = 0 /\ \A t \in Threads : req[t] # q
    BY <1>1, <2>1
  <2>3. QED
    BY <1>3, <2>1, <2>2 DEF dispatch
<1>4. ASSUME NEW t \in Threads, NEW q \in Requests, send_data(t, q) PROVE AnswerInv'
  <2>1. /\ q \in handed /\ m_ms[q] /\ pc[t] = "idle" /\ req[t] = NoRequest
        /\ pc'[t] \in {"lock", "reset"} /\ req' = [req EXCEPT ![t] = q]
        /\ \A u \in Threads \ {t} : pc'[u] = pc[u]
        /\ raced' = IF \E u \in Threads : req[u] = q THEN raced \cup {q} ELSE raced
        /\ UNCHANGED <<handed, m_ms, replies>>
    BY <1>1, <1>4 DEF send_data, readVars
  <2>2. q \notin raced' => replies[q] = 0 /\ \A u \in Threads : req[u] # q
    BY <2>1
  <2>3. QED
    BY <2>1, <2>2
<1>5. ASSUME NEW t \in Threads, lock(t) \/ write_first(t) \/ write_throws(t) PROVE AnswerInv'
  <2>1. /\ pc[t] \in {"lock", "write", "rest"} /\ pc'[t] \in {"write", "rest", "failed"}
        /\ \A u \in Threads \ {t} : pc'[u] = pc[u]
        /\ UNCHANGED <<handed, m_ms, req, replies, raced>>
    BY <1>5 DEF lock, write_first, write_throws, readVars
  <2>2. QED
    BY <2>1
<1>6. ASSUME NEW t \in Threads, write_rest(t) PROVE AnswerInv'
  <2>1. /\ pc[t] = "rest" /\ req[t] \in Requests /\ req[t] \in handed
        /\ pc' = [pc EXCEPT ![t] = "reset"]
        /\ replies' = [replies EXCEPT ![req[t]] = @ + 1]
        /\ UNCHANGED <<handed, m_ms, req, raced>>
    BY <1>1, <1>6 DEF write_rest, readVars
  <2>2. QED
    BY <2>1
<1>7. ASSUME NEW t \in Threads, write_error_reported(t) PROVE AnswerInv'
  BY <1>7 DEF write_error_reported, readVars
<1>8. ASSUME NEW t \in Threads, reset(t) PROVE AnswerInv'
  BY <1>1, <1>8 DEF reset, readVars
<1> HIDE DEF AnswerInv
<1>9. QED
  BY <1>2, <1>3, <1>4, <1>5, <1>6, <1>7, <1>8, ThreadSteps DEF Send

\* Unless two threads answer the same request at once, it is answered at most
\* once, and a notification never.
THEOREM OneAnswer == Safety => []AnsweredOnce
<1>1. AnswerInv => AnsweredOnce
  BY DEF AnswerInv
<1>2. QED
  BY <1>1, AnswerInit, Reads, AnswerStep, PTL DEF Safety

-----------------------------------------------------------------------------

\* A thread that is about to report a failed write, or to reset m_ms without
\* having sent a response, works on a connection that is lost.
FailureInv ==
    \A t \in Threads :
        /\ pc[t] = "failed" => ~Writable(of[req[t]])
        /\ pc[t] = "reset" => replies[req[t]] > 0 \/ ~Writable(of[req[t]])

SentInv == SentOrLost /\ FailureInv

\* A step that takes no response back, and no thread to these two places.
LEMMA SentUntouched ==
    ASSUME TypeOK, ReadInv, SentInv, LostForGood, MessagesStay,
           UNCHANGED <<handed, m_ms, req, replies>>,
           \A t \in Threads : pc'[t] \in {"failed", "reset"} => pc'[t] = pc[t]
    PROVE  SentInv'
<1>1. \A q \in handed : ~Writable(of[q]) => ~Writable(of[q])'
  <2> SUFFICES ASSUME NEW q \in handed, ~Writable(of[q]) PROVE ~Writable(of[q])'
    OBVIOUS
  <2>1. of[q] \in Conns /\ Accepted(of[q]) /\ of'[q] = of[q]
    BY DEF ReadInv, HandedInv, MessagesStay, TypeOK
  <2>2. QED
    BY <2>1 DEF LostForGood, Writable
<1>2. SentOrLost'
  BY <1>1 DEF SentInv, SentOrLost
<1>3. FailureInv'
  <2> SUFFICES ASSUME NEW t \in Threads, pc'[t] \in {"failed", "reset"}
               PROVE  /\ pc'[t] = "failed" => ~Writable(of[req[t]])'
                      /\ pc'[t] = "reset" => replies'[req'[t]] > 0 \/ ~Writable(of[req[t]])'
    BY DEF FailureInv
  <2>1. req[t] \in handed /\ req'[t] = req[t] /\ pc'[t] = pc[t]
    BY HolderFacts
  <2>2. ~Writable(of[req[t]]) => ~Writable(of[req[t]])'
    BY <1>1, <2>1 DEF Writable
  <2>3. QED
    BY <2>1, <2>2 DEF SentInv, FailureInv
<1>4. QED
  BY <1>2, <1>3 DEF SentInv

LEMMA SentStep == TypeOK /\ ReadInv /\ SentInv /\ [Next]_vars => SentInv'
<1> SUFFICES ASSUME TypeOK, ReadInv, SentInv, [Next]_vars PROVE SentInv'
  OBVIOUS
<1>1. LostForGood /\ MessagesStay
  BY LostStep, MessageStep
<1>2. \A t \in Threads : pc[t] # "idle" => req[t] \in Requests /\ req[t] \in handed
  BY HolderFacts
<1>3. CASE UNCHANGED <<handed, sendVars>>
  BY <1>1, <1>3, SentUntouched DEF sendVars
<1>4. ASSUME NEW c \in Conns, NEW q \in Requests, dispatch(c, q) PROVE SentInv'
  <2>1. /\ UNCHANGED <<sock, peer, of, pc, req, replies>>
        /\ handed' = handed \cup {q}
        /\ m_ms' = [m_ms EXCEPT ![q] = q \notin Notes]
    BY <1>4 DEF dispatch, connVars
  <2>2. m_ms \in [Requests -> BOOLEAN]
    BY DEF TypeOK
  <2>3. FailureInv'
    BY <2>1 DEF SentInv, FailureInv, Writable
  <2>4. ASSUME NEW r \in handed' \ Notes, ~m_ms'[r]
        PROVE  replies'[r] > 0 \/ ~Writable(of[r])'
    <3>1. r # q /\ r \in handed
      BY <2>1, <2>2, <2>4
    <3>2. m_ms'[r] = m_ms[r]
      BY <2>1, <2>2, <3>1
    <3>3. replies[r] > 0 \/ ~Writable(of[r])
      BY <2>4, <3>1, <3>2 DEF SentInv, SentOrLost
    <3>4. QED
      BY <2>1, <3>3 DEF Writable
  <2>5. QED
    BY <2>3, <2>4 DEF SentInv, SentOrLost
<1>5. ASSUME NEW t \in Threads, NEW q \in Requests, send_data(t, q) PROVE SentInv'
  BY <1>5 DEF send_data, SentInv, SentOrLost, FailureInv, Writable, TypeOK, connVars, readVars
<1>6. ASSUME NEW t \in Threads, lock(t) \/ write_first(t) PROVE SentInv'
  <2>1. UNCHANGED <<handed, m_ms, req, replies>>
    BY <1>6 DEF lock, write_first, readVars
  <2>2. \A u \in Threads : pc'[u] \in {"failed", "reset"} => pc'[u] = pc[u]
    BY <1>6 DEF lock, write_first, TypeOK
  <2>3. QED
    BY <1>1, <2>1, <2>2, SentUntouched
<1>7. ASSUME NEW t \in Threads, write_rest(t) PROVE SentInv'
  BY <1>2, <1>7 DEF write_rest, SentInv, SentOrLost, FailureInv, Writable, TypeOK, connVars, readVars
<1>8. ASSUME NEW t \in Threads, write_throws(t) PROVE SentInv'
  BY <1>8 DEF write_throws, SentInv, SentOrLost, FailureInv, Writable, TypeOK, connVars, readVars
<1>9. ASSUME NEW t \in Threads, write_error_reported(t) PROVE SentInv'
  <2>1. UNCHANGED <<peer, of, handed, m_ms, req, replies>> /\ pc' = [pc EXCEPT ![t] = "reset"]
    BY <1>9 DEF write_error_reported, on_system_error, readVars
  <2>2. \A c \in Conns : ~Writable(c) => ~Writable(c)'
    BY <1>9 DEF write_error_reported, on_system_error, stop, Writable, TypeOK
  <2>3. \A q \in handed : of[q] \in Conns
    BY DEF ReadInv, HandedInv
  <2>4. pc[t] = "failed"
    BY <1>9 DEF write_error_reported
  <2>5. SentOrLost'
    BY <2>1, <2>2, <2>3 DEF SentInv, SentOrLost, Writable
  <2>6. FailureInv'
    BY <1>2, <2>1, <2>2, <2>3, <2>4 DEF SentInv, FailureInv, Writable, TypeOK
  <2>7. QED
    BY <2>5, <2>6 DEF SentInv
<1>10. ASSUME NEW t \in Threads, reset(t) PROVE SentInv'
  BY <1>2, <1>10 DEF reset, SentInv, SentOrLost, FailureInv, Writable, TypeOK, connVars, readVars
<1>11. QED
  BY <1>3, <1>4, <1>5, <1>6, <1>7, <1>8, <1>9, <1>10, ThreadSteps DEF Send

\* is_sent() is true of a request on a live connection only when its response
\* was written: neither the unlocked is_open() nor a failed write of another
\* thread makes send_data() drop one.
THEOREM SentOrLostAlways == Safety => []SentOrLost
<1>1. Init => SentInv
  BY DEF Init, SentInv, SentOrLost, FailureInv
<1>2. SentInv => SentOrLost
  BY DEF SentInv
<1>3. QED
  BY <1>1, <1>2, Reads, SentStep, PTL DEF Safety
=============================================================================
