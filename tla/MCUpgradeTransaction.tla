------------------------ MODULE MCUpgradeTransaction ------------------------
(* Small instances of UpgradeTransaction for TLC. *)
EXTENDS UpgradeTransaction

CONSTANTS a1, a2, v1, v2

TwoApplies == {a1, a2}
OneTarget == {v1}
TwoTargets == {v1, v2}
=============================================================================
