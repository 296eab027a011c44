------------------------------ MODULE RpcOnce ------------------------------
(***************************************************************************)
(* What a Fabric route promises the caller of a tool: a call is handed to  *)
(* at most one registration of the Host, is never handed out again, is     *)
(* answered only after it was handed out and, once it has returned to its  *)
(* caller, stays returned ("Timed-out or disconnected tool calls are not   *)
(* automatically replayed", docs/gateway.md).                              *)
(*                                                                         *)
(* Every call has a life of its own; one event of the gateway may move any *)
(* number of them.                                                         *)
(***************************************************************************)
CONSTANTS Requests, Owners, Nobody

VARIABLES
    stage,  \* request -> where the call is
    owner   \* request -> the registration it was handed to

Init ==
    /\ stage = [r \in Requests |-> "new"]
    /\ owner = [r \in Requests |-> Nobody]

Keeps(r) == stage'[r] = stage[r] /\ owner'[r] = owner[r]

Accept(r) ==
    /\ stage[r] = "new" /\ stage'[r] = "accepted"
    /\ owner'[r] = owner[r]

\* A long poll that waits takes a call the moment it is accepted.
Hand(r) ==
    /\ stage[r] \in {"new", "accepted"} /\ stage'[r] = "handed"
    /\ owner[r] = Nobody /\ owner'[r] \in Owners

Answer(r) ==
    /\ stage[r] = "handed" /\ stage'[r] = "answered"
    /\ owner'[r] = owner[r]

Fail(r) ==
    /\ stage[r] \in {"new", "accepted", "handed"} /\ stage'[r] = "failed"
    /\ owner'[r] = owner[r]

Next == \A r \in Requests :
           Keeps(r) \/ Accept(r) \/ Hand(r) \/ Answer(r) \/ Fail(r)

Spec == Init /\ [][Next]_<<stage, owner>>
=============================================================================
