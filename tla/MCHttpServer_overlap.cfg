SPECIFICATION Spec
CONSTANTS
  Conns = {c1, c2}
  Keys = {k1, k2}
  MaxStarts = 1
  MaxStops = 2
  MaxRequests = 1
  Secured = FALSE
  HasWrapper = FALSE
  Await = FALSE
  Guarded = TRUE
  EagerReuse = FALSE
  BindErrors = {}
CHECK_DEADLOCK FALSE
INVARIANT NoUncaught
