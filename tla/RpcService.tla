----------------------------- MODULE RpcService -----------------------------
(***************************************************************************)
(* What ControlConn.Call promises its caller: a call that is answered was  *)
(* carried out by a handler of the host, at most once, and the answer is   *)
(* the one of its own request; a call ends once and does not change its    *)
(* outcome.  It may also end without an answer, whether or not the         *)
(* handler has run.                                                        *)
(***************************************************************************)
CONSTANT Calls

VARIABLES
    outcome,   \* per call: "idle", "open", "data", "err" or "unanswered"
    served     \* per call: what the handler returned, "none" before it ran

rpcVars == <<outcome, served>>

RpcInit ==
    /\ outcome = [c \in Calls |-> "idle"]
    /\ served = [c \in Calls |-> "none"]

Invoke(c) ==
    /\ outcome[c] = "idle"
    /\ outcome' = [outcome EXCEPT ![c] = "open"]
    /\ UNCHANGED served

(* The handler runs, possibly after the caller has given up. *)
Serve(c) ==
    /\ outcome[c] # "idle" /\ served[c] = "none"
    /\ \E r \in {"data", "err"} : served' = [served EXCEPT ![c] = r]
    /\ UNCHANGED outcome

Answer(c) ==
    /\ outcome[c] = "open" /\ served[c] # "none"
    /\ outcome' = [outcome EXCEPT ![c] = served[c]]
    /\ UNCHANGED served

Abandon(c) ==
    /\ outcome[c] = "open"
    /\ outcome' = [outcome EXCEPT ![c] = "unanswered"]
    /\ UNCHANGED served

RpcNext == \E c \in Calls : Invoke(c) \/ Serve(c) \/ Answer(c) \/ Abandon(c)

RpcSpec == RpcInit /\ [][RpcNext]_rpcVars
=============================================================================
