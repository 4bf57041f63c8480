------------------------- MODULE MCClientConnection -------------------------
EXTENDS ClientConnection
=============================================================================
