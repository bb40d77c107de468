--------------------------- MODULE MCServerRegistry ---------------------------
EXTENDS ServerRegistry
=============================================================================
