CONSTANTS
  Entities = {e1, e2}
  Items = {"i1"}
  Units = {"kg", "pcs"}
  Places = {"p1"}
  Parties = {"acme", "bolt", "zen"}
  Stores = {"p1"}
  Words <- MCWords
  SeededEntities = {e1}
  Files <- MCFiles
  MaxLoads = 3
  MaxOpen = 2
SPECIFICATION FactsSpec
INVARIANTS
  FactsTypeOK
  OneCurrentPerKey
  LocatedIfLandedBefore
  TokensDistinct
PROPERTIES
  SnapshotsSettle
  ReloadChangesNothing
  UnitsStayComparable
CHECK_DEADLOCK FALSE
