SPECIFICATION Spec
CONSTANTS
  here = here
  there = there
  Nil = Nil
  Cells = {here, there}
  Rows <- MCRows
  Specs <- MCSpecs
  Terc <- MCTerc
  Within <- MCWithin
  PerPage = {1}
  GminaTypes = {1, 2, 3}
  MaxRows = 3
  MaxReports = 1
  Null = Null
  Absent = Absent
  Poland <- MCPoland
  OutsideShare = 3
  MaxExampleIds = 1
INVARIANTS
  LiveIsFile
  NoPhantom
  CellServedOrQueued
  WalksAddUp
PROPERTIES
  ReportsLapseWithRecord
