SPECIFICATION MCSpec
CONSTANTS
  house = house
  House = House
  flat = flat
  m = m
  street = street
  Street = Street
  Ulica = Ulica
  simc = simc
  Null = Null
  Blank = Blank
  Objects = {1, 2, 3, 4}
  SourceOf <- MCSourceOf
  RowsOf <- MCRowsOf
  Imported <- MCImported
  InOsm = {2}
  Names = {house, House, flat, m, street, Street, Ulica, simc}
  Norm <- MCNorm
  AdjacencyKey <- MCAdjacencyKey
  TypeFiles <- MCTypeFiles
  StreetFiles <- MCStreetFiles
  Areas <- MCAreas
  Places = {26, 31}
  Distances = {1, 3}
  Batches <- MCBatches
  CellSize = 4
  Cells = {6, 7, 8, 9}
  Buffer = 1
  MaxArea = 12
  MaxHalfWidth = 2
  Reportable = {1}
  k1 = k1
  k2 = k2
  k3 = k3
  Keys <- MCKeys
  r1 = r1
  r2 = r2
  c1 = c1
  c2 = c2
  Requests <- MCRequests
  Conns <- MCConns
  Sizes = {1, 2, 3}
  MaxBytes = 8
  Ttl = 2
  MaxVersion = 1
  None = None
  Bodies = {1, 2, 3}
  HashOf <- MCHashOf
  FormatVersion = 5
  NotUtf8 = 9
  Nothing = Nothing
  Failed = Failed
  Star = Star
  Unreadable = Unreadable
SYMMETRY Symmetry
INVARIANTS
  TilesAgree
  TaggedAlike
  WithinBudget
  NoStalerThanABrowser
  RendersSeeCommits
PROPERTIES
  RerenderNoted
