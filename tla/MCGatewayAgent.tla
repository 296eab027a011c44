--------------------------- MODULE MCGatewayAgent ---------------------------
(* Small instances of GatewayAgent for TLC. *)
EXTENDS GatewayAgent

CONSTANTS r1, r2

TwoRequests == {r1, r2}

\* No offer, one below the clamp and one above it.
AllOffers == {NoOffer, 0, 3}
=============================================================================
