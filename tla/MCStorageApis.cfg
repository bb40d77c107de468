SPECIFICATION ApiSpec
CONSTANTS
  Ids = {i1, i2}
  Values = {v1, v2}
  Absent = absent
  NoConditions = noConditions
  Malformed = malformed
  NoCall = noCall
  Requests = {r1, r2}
  Pieces <- Words
  Suffix = "-with-collection"
  Storages <- Two
  OtherNames <- Other
  Asks = {a1, a2}
  MaxVersion = 1
  Changing <- One
  NoEntry = noEntry
  NoWish = noWish
  Unasked = unasked
  Failed = failed
  Nodes = {m1, m2}
  Clients = {d1}
SYMMETRY Alike
INVARIANTS
  TypeOK
  OwnSchema
  RefreshReadsThrough
  DistributedTypeOK
PROPERTIES
  FulfilsStore
  FulfilsDistributedStore
