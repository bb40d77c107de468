----------------------------- MODULE MCRouteTable -----------------------------
EXTENDS RouteTable, MCRoutes
=============================================================================
