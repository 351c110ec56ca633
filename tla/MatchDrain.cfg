SPECIFICATION Spec
CONSTANTS
  c1 = c1  c2 = c2  f1 = f1  p1 = p1
  Cells <- MCCells
  Foreign <- MCForeign
  Producers <- MCProducers
  Flaky <- MCFlaky
  BatchSize = 2
  CellsPerCommit = 2
  MaxClock = 1
  MaxInput = 2
  MaxSweeps = 1
  MaxFaults = 1
INVARIANTS NewerInputQueued
PROPERTIES QueueSettles TileRowWithRecompute ServingSpec
