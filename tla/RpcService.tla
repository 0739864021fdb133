----------------------------- MODULE RpcService -----------------------------
(***************************************************************************)
(* What bus.call promises its callers, with no registry, channel, permit   *)
(* or oneshot in sight: a call is refused at once or queued; at most Slots *)
(* calls are admitted at a time; an admitted call may be answered, once;   *)
(* it returns the answer if there is one and an error only if there is     *)
(* none; what it returned never changes.                                   *)
(***************************************************************************)
EXTENDS Integers, FiniteSets

CONSTANTS
    Calls,
    Slots   \* BusConfig::max_concurrent_rpc

VARIABLES
    status,     \* how far a call is
    answered,   \* calls answered while their caller waited
    result      \* what a call returned

rpcVars == <<status, answered, result>>

Errors == {"caller_not_found", "unauthorized", "target_not_found", "timeout", "closed"}
Admitted == {k \in Calls : status[k] = "admitted"}

RpcInit ==
    /\ status   = [k \in Calls |-> "new"]
    /\ answered = {}
    /\ result   = [k \in Calls |-> "none"]

Submit(k) ==
    /\ status[k] = "new"
    /\ status' = [status EXCEPT ![k] = "queued"]
    /\ UNCHANGED <<answered, result>>

Admit(k) ==
    /\ status[k] = "queued"
    /\ Cardinality(Admitted) < Slots
    /\ status' = [status EXCEPT ![k] = "admitted"]
    /\ UNCHANGED <<answered, result>>

Answered(k) ==
    /\ status[k] = "admitted"
    /\ k \notin answered
    /\ answered' = answered \cup {k}
    /\ UNCHANGED <<status, result>>

Return(k) ==
    /\ status[k] = "admitted"
    /\ k \in answered
    /\ status' = [status EXCEPT ![k] = "over"]
    /\ result' = [result EXCEPT ![k] = "replied"]
    /\ UNCHANGED answered

Fail(k, error) ==
    /\ status[k] # "over"
    /\ k \notin answered
    /\ status' = [status EXCEPT ![k] = "over"]
    /\ result' = [result EXCEPT ![k] = error]
    /\ UNCHANGED answered

RpcNext ==
    \E k \in Calls :
        \/ Submit(k) \/ Admit(k) \/ Answered(k) \/ Return(k)
        \/ \E error \in Errors : Fail(k, error)

RpcSpec == RpcInit /\ [][RpcNext]_rpcVars
=============================================================================
