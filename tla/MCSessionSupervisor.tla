------------------------ MODULE MCSessionSupervisor ------------------------
EXTENDS SessionSupervisor
CONSTANTS r1, c1, v1
=============================================================================
