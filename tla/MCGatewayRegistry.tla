-------------------------- MODULE MCGatewayRegistry --------------------------
(* Small instances of GatewayRegistry for TLC. *)
EXTENDS GatewayRegistry, TLC

CONSTANTS h1, h2, c1, c2

TwoHosts == {h1, h2}
TwoCalls == {c1, c2}

Symmetry == Permutations(Hosts) \cup Permutations(Calls)
==============================================================================
