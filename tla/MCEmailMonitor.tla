--------------------------- MODULE MCEmailMonitor ---------------------------
EXTENDS EmailMonitor
=============================================================================
