SPECIFICATION RuleSpec
CONSTANTS
  street = street
  town = town
  Absent = Absent
  Null = Null
  Empty = Empty
  Layers = {"buildings", "addresses"}
  Ids = {a}
  OsmIds = {o1}
  Records <- MCRecords
  OsmObjects <- MCOsmObjects
  MatchCells = {0, 1, 2}
  CellSize = 4
  GridStep = 6
  GridKey = 3
  Near = 1
  NameNear = 2
  Buffer = 2
  MinOverlap = 10
  MaxReach = 2
INVARIANTS
  ServedByTheRule
  ServedOnce
