SPECIFICATION MCSpec
CONSTANTS
  bdot10k = bdot10k
  prg = prg
  Absent = Absent
  Order <- MCOrder
  Buildings = {bdot10k}
  Cells = {changing, quiet}
  Quiet = {quiet}
  Passes = 2
  MaxPub = 2
  MaxCommands = 3
  TableRows <- MCTableRows
  Indexes = {i1, i2}
  Foreign = Foreign
  Nothing = Nothing
  CopyFaults = 3
  e1 = e1
  e2 = e2
  Exports = {e1, e2}
  Never = Never
  Window <- MCWindow
  Keep <- MCKeep
  PageMaxAge <- MCPageMaxAge
  MaxTime = 4
  MaxRefreshes = 1
  Null = Null
  Unparsable = Unparsable
  Unread = Unread
SYMMETRY Symmetry
CHECK_DEADLOCK FALSE
INVARIANTS
  StampIsEarned
  ComparedStaysServed
  TilesFresh
  DestIsComplete
  WindowsShown
PROPERTIES
  NeverBlanked
