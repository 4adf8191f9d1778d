------------------------------ MODULE Promise ------------------------------
(***************************************************************************)
(* What a session promises for its calls, whatever its threads, timers and *)
(* connection do: each call is issued once and settled at most once, for   *)
(* good, with the answer the peer gave to that very call or with one of    *)
(* the two local errors.  Session implements this as long as the message   *)
(* ids do not wrap around.                                                 *)
(***************************************************************************)
CONSTANTS Calls, Answers, NoFuture

VARIABLES
    answered,   \* the peer's answer to each call, "none" before it
    outcome     \* what each call was settled with

promiseVars == <<answered, outcome>>

Local(kind) == [kind |-> kind, from |-> NoFuture]

\* "idle" before the call, "open" until it is settled.
PInit ==
    /\ answered = [c \in Calls |-> "none"]
    /\ outcome = [c \in Calls |-> Local("idle")]

Issue(c) ==
    /\ outcome[c] = Local("idle")
    /\ outcome' = [outcome EXCEPT ![c] = Local("open")]
    /\ UNCHANGED answered

\* The peer can only answer a call it was sent; it may well do so after the
\* call was settled.
Answer(c, kind) ==
    /\ outcome[c] # Local("idle") /\ answered[c] = "none"
    /\ answered' = [answered EXCEPT ![c] = kind]
    /\ UNCHANGED outcome

Settle(c) ==
    /\ outcome[c] = Local("open")
    /\ \E r \in {Local("timeout"), Local("connect"), [kind |-> answered[c], from |-> c]} :
         /\ r.kind # "none"
         /\ outcome' = [outcome EXCEPT ![c] = r]
    /\ UNCHANGED answered

PNext == \E c \in Calls : Issue(c) \/ Settle(c) \/ \E kind \in Answers : Answer(c, kind)

PSafety == PInit /\ [][PNext]_promiseVars

\* An issued call is settled in the end.
PSpec == PSafety /\ \A c \in Calls : WF_promiseVars(Settle(c))
=============================================================================
