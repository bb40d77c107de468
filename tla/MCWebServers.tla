----------------------------- MODULE MCWebServers -----------------------------
EXTENDS WebServers, MCRoutes, MCConfigs
=============================================================================
