SPECIFICATION Spec
CONSTANTS
  Conns = {c1, c2}
  Keys = {k1, k2}
  MaxStarts = 2
  MaxStops = 2
  MaxRequests = 1
  Secured = TRUE
  HasWrapper = FALSE
  Await = FALSE
  Guarded = FALSE
  EagerReuse = FALSE
  BindErrors = {"inuse", "failed"}
CHECK_DEADLOCK FALSE
SYMMETRY Clients
INVARIANTS
  TrackedConns
