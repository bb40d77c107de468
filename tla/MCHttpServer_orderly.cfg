SPECIFICATION FairSpec
CONSTANTS
  Conns = {c1, c2}
  Keys = {k1, k2}
  MaxStarts = 2
  MaxStops = 2
  MaxRequests = 1
  Secured = FALSE
  HasWrapper = TRUE
  Await = TRUE
  Guarded = TRUE
  EagerReuse = TRUE
  BindErrors = {"inuse"}
CHECK_DEADLOCK FALSE
INVARIANTS
  TypeOK
  NoUncaught
  StoppedIsReleased
PROPERTIES
  OwnClose
  StopSettles
  StartSettles
  FulfilsLifecycle
