SPECIFICATION CommandFairSpec
CONSTANTS
  Names = {n1, n2}
  Classes = {a, b}
  MaxRoutes = 1
  MaxLoads = 1
  NoClass = noClass
  NoName = noName
  Express = express
CHECK_DEADLOCK FALSE
PROPERTY AllStarted
