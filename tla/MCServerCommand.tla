---------------------------- MODULE MCServerCommand ----------------------------
EXTENDS ServerCommand
=============================================================================
