SPECIFICATION MCSpec
CONSTANTS
  k1 = k1  k2 = k2  x1 = x1  y1 = y1  a = a  b = b  h1 = h1  h2 = h2
  Gone = Gone
  Keys <- MCKeys
  Contents <- MCContents
  Cells <- MCCells
  CellOf <- MCCellOf
  Handlers <- MCHandlers
  Saying <- MCSaying
  Imported <- MCImported
  Scenarios <- MCScenarios
  MaxReports = 3
  MaxDumps = 1
  MaxRefreshes = 2
  MaxSwaps = 1
  MaxFaults = 1
CHECK_DEADLOCK FALSE
INVARIANTS ServedOrQueued NoStaleActive ClashOnlyUnseen
PROPERTIES TileRowWithChange StaleRetires
