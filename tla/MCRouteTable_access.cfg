SPECIFICATION RouteSpec
CONSTANTS
  Controllers <- Three
  Default = "default"
  Programs <- Two
  RouteLists <- Configured
  Matches <- Patterns
  Values = {"aName", " *", "*"}
  Trim <- Trimmed
  paramNorm <- Norm
  SnakeOf <- Snake
  NoAccess = none
  None = none
  Unpermitted = open
  Open = open
CHECK_DEADLOCK FALSE
INVARIANT DeniedIsNotMounted
