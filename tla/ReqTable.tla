------------------------------ MODULE ReqTable ------------------------------
(***************************************************************************)
(* The request table (reqtable): a map from message ids to futures.        *)
(*                                                                         *)
(* Every method that changes the map holds m_mutex from its first line to  *)
(* its last, so each of them is one atomic step of its caller.  They are   *)
(* therefore given here as operators on the value of m_map; the modules    *)
(* that own a table (Session, TcpClient) use them in their actions.  An id *)
(* that has no entry is mapped to NoFuture, the null shared_future that    *)
(* take() returns.  erase() and size() are never called by the library.    *)
(***************************************************************************)
EXTENDS Naturals

CONSTANT NoFuture       \* the null shared_future

\* The futures that have an entry in the map.
Futures(map) == {map[i] : i \in DOMAIN map} \ {NoFuture}

\* insert(): m_map[msgid] = f overwrites whatever was there.
insert(map, id, f) == [map EXCEPT ![id] = f]

\* take(): find the entry and erase it; the null future when there is none.
taken(map, id) == {map[id]} \ {NoFuture}

\* A mutated form: the entry is found but not erased.
after_take_without_erase(map, id) == map
after_take(map, id) == [map EXCEPT ![id] = NoFuture]

\* take_all(): every future is copied out and every entry erased.
after_take_all_keeps(map) == map
after_take_all(map) == [i \in DOMAIN map |-> NoFuture]

\* A mutated form: an unsigned counter is compared with a value it never has.
never_exhausted(t) == t < 0

\* future_impl::step_timeout() on one counter: TRUE when it is exhausted,
\* otherwise one less.
exhausted(t) == t = 0
stepped(t) == IF t > 0 THEN t - 1 ELSE t

\* step_timeout(): the exhausted futures leave the map, the others count down.
timed_out(map, timeout) == {f \in Futures(map) : exhausted(timeout[f])}

after_step_timeout(map, timeout) ==
    [i \in DOMAIN map |->
        IF map[i] \in timed_out(map, timeout) THEN NoFuture ELSE map[i]]

counted_down(map, timeout) ==
    [f \in DOMAIN timeout |->
        IF f \in Futures(map) THEN stepped(timeout[f]) ELSE timeout[f]]
=============================================================================
