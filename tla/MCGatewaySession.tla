-------------------------- MODULE MCGatewaySession --------------------------
(* Instances of GatewaySession for TLC. *)
EXTENDS GatewaySession, TLC

CONSTANTS r1, r2, i1, i2

TwoRequests  == {r1, r2}
TwoInstances == {i1, i2}
OneInstance  == {i1}

\* Requests and agent processes are interchangeable.
Symmetry == Permutations(Requests) \cup Permutations(Instances)
=============================================================================
