SPECIFICATION FairSpec
CONSTANTS
  Conns = {c1}
  Keys = {k1}
  MaxStarts = 1
  MaxStops = 1
  MaxRequests = 1
  Secured = FALSE
  HasWrapper = FALSE
  Await = TRUE
  Guarded = TRUE
  EagerReuse = FALSE
  BindErrors = {"inuse", "failed"}
CHECK_DEADLOCK FALSE
PROPERTY StartSettles
