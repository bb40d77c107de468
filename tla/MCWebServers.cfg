SPECIFICATION WebSpec
CONSTANTS
  Names = {n1, n2}
  Classes = {a, b}
  MaxRoutes = 2
  MaxLoads = 1
  NoClass = noClass
  NoName = noName
  Express = express
  Controllers <- Three
  Default = "default"
  Programs <- Two
  RouteLists <- Configured
  Matches <- Patterns
  Values = {"aName", " *", "*"}
  Trim <- Trimmed
  paramNorm <- Norm
  SnakeOf <- Snake
  NoAccess = none
  None = none
  Unpermitted = open
  Open = open
  Configs <- OneConfig
  Keys <- Strings
  ConfigKeys <- Parts
  FilterLists <- Filters
  RuleSets <- Needs
  Grants <- Roles
  Anonymous = anonymous
  NoKey = noKey
  AnObject = anObject
CHECK_DEADLOCK FALSE
INVARIANTS
  TypeOK
  CacheIsServed
  RegisteredHasFramework
  ApartEntriesServed
  StartsEachOnce
  RunsAsConfigured
  RouteTypeOK
  PermissionsOfHandler
  MountsWhatIsLetIn
  ConfigTypeOK
  AllowedBelowKey
PROPERTY ImplementsDirectory
