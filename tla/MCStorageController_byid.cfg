SPECIFICATION Spec
CONSTANTS
  Ids = {i1, i2}
  Values = {v1, v2}
  Absent = absent
  NoConditions = noConditions
  Malformed = malformed
  NoCall = noCall
  Requests = {r1, r2}
  Pieces <- Words
  Suffix = "-with-collection"
  Storages <- One
  OtherNames = {}
  Asks = {a1, a2}
  MaxVersion = 1
  Changing <- One
  NoEntry = noEntry
  NoWish = noWish
  Unasked = unasked
  Failed = failed
SYMMETRY Alike
PROPERTY UpdatesItsId
