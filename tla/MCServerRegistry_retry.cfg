SPECIFICATION Spec
CONSTANTS
  Names = {n1, n2}
  Classes = {a, b}
  MaxRoutes = 1
  MaxLoads = 2
  NoClass = noClass
  NoName = noName
  Express = express
CHECK_DEADLOCK FALSE
INVARIANT RegisteredHasFramework
