----------------------------- MODULE MCHttpServer -----------------------------
EXTENDS HttpServer, TLC
Clients == Permutations(Conns) \cup Permutations(Keys)
=============================================================================
