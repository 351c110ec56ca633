SPECIFICATION Spec
CONSTANTS
  c1 = c1  c2 = c2  t1 = t1  t2 = t2  p1 = p1  p2 = p2  r1 = r1
  Absent = Absent  NoEntry = NoEntry
  Cells <- MCCells
  Tiles <- MCTiles
  TilesOf <- MCTilesOf
  BlockOf <- MCBlockOf
  Producers <- MCProducers
  Requests = {}
  BatchSize = 1
  MaxChanges = 2
  MaxFaults = 0
INVARIANT NoTileLost
