--------------------------- MODULE MCGatewayTurns ---------------------------
\* Model checking of GatewayTurns: two turns of one session and an abort.
EXTENDS GatewayTurns
=============================================================================
